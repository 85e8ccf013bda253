------------------------------ MODULE PitchPath ------------------------------
(***************************************************************************)
(* The pitch a quantizer channel makes of its input: the note it stays on  *)
(* while the input moves and the scale is edited, and the glide of its     *)
(* output towards that note.  A history variable keeps the last change of  *)
(* note.                                                                   *)
(***************************************************************************)
EXTENDS QuantizerChannel

VARIABLES
    lastInput,  \* history: the input of the last sample
    turn    \* history: the last change of note with this configuration

pathVars == <<channelVars, lastInput, turn>>

NoTurn == [from |-> NoNote, at |-> 0]

PathTypeOK ==
    /\ ChannelTypeOK
    /\ lastInput \in Pitch
    /\ turn \in [from : Semitone \cup {NoNote}, at : Pitch]

PathInit ==
    /\ ChannelInit
    /\ lastInput = 0
    /\ turn = NoTurn

-----------------------------------------------------------------------------

NoteChanges == hysteresis \notin {NoNote, hysteresis'}

PathSample(x, trigger) ==
    /\ Step(x, trigger)
    /\ lastInput' = x
    /\ turn' = IF NoteChanges THEN [from |-> hysteresis, at |-> PreShifted(x)] ELSE turn

PathTick == \E x \in Inputs, trigger \in BOOLEAN : PathSample(x, trigger)

\* The panel edits the configuration in place and leaves the previous note alone.
EditPath ==
    /\ \E new \in Configs : EditConfig(new, forceContinuous)
    /\ turn' = NoTurn
    /\ UNCHANGED lastInput

LoadPath ==
    /\ \E new \in Configs : LoadConfig(new, forceContinuous)
    /\ turn' = NoTurn
    /\ UNCHANGED lastInput

PathNext == PathTick \/ EditPath \/ LoadPath

IsPathTick == PathSample(lastInput', lastTriggerInput')

\* Timer2 calls for a sample every millisecond, whatever the panel does. Every
\* state allows a Tick, so that this is weak fairness of it.
PathSpec == PathInit /\ [][PathNext]_pathVars /\ []<><<IsPathTick>>_pathVars

-----------------------------------------------------------------------------
(***************************************************************************)
(* Properties                                                              *)
(***************************************************************************)

\* A step that follows its input, and the pitch it looks at.
Follows == IsPathTick /\ Updates(lastTriggerInput')
Seen == PreShifted(lastInput)'

\* A noisy input on a boundary does not chatter: a change of note is followed by
\* the opposite change only when the input has moved by more than the overlap of
\* the two hold bands, however it moved in between.
NoChatter ==
    [][ (Follows /\ turn # NoTurn /\ hysteresis' = turn.from /\ hysteresis # turn.from)
        => (IF Seen < turn.at THEN turn.at - Seen ELSE Seen - turn.at)
               > 2 * HysteresisAmount ]_pathVars

\* Holding a note never costs more than the hysteresis: the note in use is at
\* most twice the hysteresis further from the input than any note of the scale.
\* An empty scale gives no note.
HeldNoteIsNear ==
    [][ Follows =>
          IF config.notes = {} THEN hysteresis' = NoNote
          ELSE /\ IsSelected(config.notes, hysteresis')
               /\ \A n \in Semitone : IsSelected(config.notes, n) =>
                    Distance(hysteresis', Seen) <=
                        Distance(n, Seen) + 2 * HysteresisAmount ]_pathVars

\* A change of note goes to the nearest note of the scale, and of two equally
\* near ones to the higher: also for the first sample and after an edit.
ChangesGoToNearest ==
    [][ (Follows /\ hysteresis' \notin {NoNote, hysteresis}) =>
          \A n \in Semitone : IsSelected(config.notes, n) =>
             \/ Distance(hysteresis', Seen) < Distance(n, Seen)
             \/ /\ Distance(hysteresis', Seen) = Distance(n, Seen)
                /\ n <= hysteresis' ]_pathVars

\* Whatever the scale, the note in use suits the input: it is near while it is held
\* and nearest when it is chosen.
NotesFitTheInput == HeldNoteIsNear /\ ChangesGoToNearest

\* The output never moves away from its target and never past it, also when the
\* target moves to the other side in the middle of a glide.
GlideApproaches ==
    [][ (IsPathTick /\ hasLastOutput) =>
          \/ lastGlideCurrent <= lastGlideCurrent' /\ lastGlideCurrent' <= lastGlideTarget'
          \/ lastGlideCurrent >= lastGlideCurrent' /\ lastGlideCurrent' >= lastGlideTarget' ]_pathVars

\* A target that stays is reached, however small the remaining steps are.
GlideArrives ==
    []<>(lastGlideCurrent = lastGlideTarget) \/ []<><<lastGlideTarget' # lastGlideTarget>>_pathVars

\* Each step of a glide is a rounded product, which may be nothing or too much: the
\* glide still goes all the way, and straight.
GlideSettles == GlideApproaches /\ GlideArrives
=============================================================================
