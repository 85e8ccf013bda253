------------------------- MODULE PitchAndGateProofs -------------------------
(***************************************************************************)
(* Proofs about the two modules that run a quantizer channel, each with    *)
(* variables of its own.  PitchPath, for every scale, range, unit and      *)
(* glide: no chatter, notes that fit the input, glides that go straight.   *)
(* GatedChannel, for every set of configurations and inputs, any delay,    *)
(* and counters of any size: rises are real, an edge gives one note, edits *)
(* are silent.                                                             *)
(***************************************************************************)
EXTENDS GatedChannel, PitchPath, QuantizerChannelProofs

-----------------------------------------------------------------------------
(***************************************************************************)
(* PitchPath                                                               *)
(***************************************************************************)

\* The last change of note, while its configuration lasts: the note it left was
\* not held there, and the note it went to was the nearest one.
TurnInv ==
    turn # NoTurn =>
      /\ turn.from \in Semitone /\ turn.at \in Pitch /\ hysteresis # turn.from
      /\ config.notes # {} =>
           /\ IsNearest(config.notes, hysteresis, turn.at)
           /\ ~IsHeld(config.notes, turn.from, turn.at)

PathInv == PathTypeOK /\ TurnInv

\* What a sample makes of the previous note.
LEMMA FollowChooses ==
    ASSUME ChannelTypeOK, NEW x \in Pitch, Follow(x)
    PROVE  /\ PreShifted(x) \in Pitch
           /\ config.notes = {} => hysteresis' = NoNote
           /\ config.notes # {} =>
                /\ hysteresis' \in Semitone /\ IsSelected(config.notes, hysteresis')
                /\ IsHeld(config.notes, hysteresis, PreShifted(x)) => hysteresis' = hysteresis
                /\ \/ IsHeld(config.notes, hysteresis, PreShifted(x))
                   \/ IsNearest(config.notes, hysteresis', PreShifted(x))
<1>1. PreShifted(x) \in Pitch
  BY PreShiftedType
<1>2. config.notes \in SUBSET PitchClass /\ hysteresis \in Semitone \cup {NoNote}
  BY DEF ChannelTypeOK, ChannelConfig
<1> DEFINE quantized == Quantized(config.notes, hysteresis, PreShifted(x))
<1>3. hysteresis' = Remembered(config.notes, quantized)
  BY DEF Follow
<1>4. config.notes = {} => hysteresis' = NoNote
  BY <1>3 DEF Remembered
<1>5. config.notes # {} => hysteresis' = quantized
  BY <1>3 DEF Remembered
<1>6. /\ quantized \in Semitone
      /\ config.notes # {} => IsSelected(config.notes, quantized)
  BY <1>1, <1>2, QuantizedIsNote
<1>7. config.notes # {} /\ IsHeld(config.notes, hysteresis, PreShifted(x)) => quantized = hysteresis
  BY DEF Quantized
<1>8. config.notes # {} /\ ~IsHeld(config.notes, hysteresis, PreShifted(x))
        => IsNearest(config.notes, quantized, PreShifted(x))
  BY <1>1, <1>2, NearestIsNearest DEF Quantized
<1> QED
  BY <1>1, <1>4, <1>5, <1>6, <1>7, <1>8

LEMMA PathSampleKeepsInv ==
    ASSUME PathInv, NEW x \in Inputs, NEW trigger \in BOOLEAN, PathSample(x, trigger)
    PROVE  PathInv'
<1>1. x \in Pitch /\ ChannelTypeOK /\ Step(x, trigger)
  BY ChannelAssumption DEF PathInv, PathTypeOK, PathSample
<1>2. ChannelTypeOK'
  BY <1>1, StepType
<1>3. PreShifted(x) \in Pitch
  BY <1>1, PreShiftedType
<1>4. hysteresis \in Semitone \cup {NoNote}
  BY <1>1 DEF ChannelTypeOK
<1>5. turn' = IF NoteChanges THEN [from |-> hysteresis, at |-> PreShifted(x)] ELSE turn
  BY DEF PathSample
<1>6. PathTypeOK'
  BY <1>1, <1>2, <1>3, <1>4, <1>5 DEF PathInv, PathTypeOK, PathSample
<1>7. config' = config
  BY <1>1 DEF Step, settings
<1>8. CASE NoteChanges
  <2>1. hysteresis \in Semitone /\ hysteresis' # hysteresis
    BY <1>4, <1>8 DEF NoteChanges
  <2>2. Follow(x)
    BY <1>1, <2>1 DEF Step, Hold
  <2>3. turn'.from = hysteresis /\ turn'.at = PreShifted(x)
    BY <1>5, <1>8
  <2>4. config.notes # {} =>
          /\ IsNearest(config.notes, hysteresis', PreShifted(x))
          /\ ~IsHeld(config.notes, hysteresis, PreShifted(x))
    BY <1>1, <2>1, <2>2, FollowChooses
  <2>5. TurnInv'
    BY <1>3, <1>7, <2>1, <2>3, <2>4 DEF TurnInv
  <2> QED
    BY <1>6, <2>5 DEF PathInv
<1>9. CASE ~NoteChanges
  <2>1. turn' = turn
    BY <1>5, <1>9
  <2>2. hysteresis' = hysteresis \/ hysteresis = NoNote
    BY <1>9 DEF NoteChanges
  <2>3. NoNote \notin Semitone
    BY PitchAssumption DEF NoNote, Semitone
  <2>4. ASSUME turn # NoTurn, hysteresis = NoNote PROVE hysteresis' = NoNote
    <3>1. config.notes = {}
      BY <2>3, <2>4 DEF PathInv, TurnInv, IsNearest
    <3>2. CASE Follow(x)
      BY <1>1, <3>1, <3>2, FollowChooses
    <3>3. CASE Hold
      BY <2>4, <3>3 DEF Hold
    <3> QED
      BY <1>1, <3>2, <3>3 DEF Step
  <2>5. turn # NoTurn => hysteresis' = hysteresis
    BY <2>2, <2>4
  <2>6. TurnInv'
    BY <1>7, <2>1, <2>5 DEF PathInv, TurnInv
  <2> QED
    BY <1>6, <2>6 DEF PathInv
<1> QED
  BY <1>8, <1>9

LEMMA PathPanelKeepsInv ==
    ASSUME PathInv, EditPath \/ LoadPath
    PROVE  PathInv'
<1>1. PICK new \in Configs : EditConfig(new, forceContinuous) \/ LoadConfig(new, forceContinuous)
  BY DEF EditPath, LoadPath
<1>2. ChannelTypeOK /\ forceContinuous \in BOOLEAN
  BY DEF PathInv, PathTypeOK, ChannelTypeOK
<1>3. ChannelTypeOK'
  BY <1>1, <1>2, PanelType
<1>4. turn' = NoTurn /\ lastInput' = lastInput
  BY DEF EditPath, LoadPath
<1>5. NoTurn \in [from : Semitone \cup {NoNote}, at : Pitch]
  <2>1. 0 \in Pitch
    BY PitchAssumption DEF Pitch
  <2> QED
    BY <2>1 DEF NoTurn
<1> QED
  BY <1>3, <1>4, <1>5 DEF PathInv, PathTypeOK, TurnInv

LEMMA PathStutterKeepsInv ==
    ASSUME PathInv, UNCHANGED pathVars
    PROVE  PathInv'
<1>1. UNCHANGED <<channelVars, lastInput, turn>>
  BY DEF pathVars
<1>2. ChannelTypeOK'
  BY <1>1 DEF PathInv, PathTypeOK, ChannelTypeOK, channelVars
<1>3. turn' = turn /\ lastInput' = lastInput /\ hysteresis' = hysteresis /\ config' = config
  BY <1>1 DEF channelVars
<1> QED
  BY <1>2, <1>3 DEF PathInv, PathTypeOK, TurnInv

LEMMA PathNextKeepsInv ==
    ASSUME PathInv, [PathNext]_pathVars
    PROVE  PathInv'
<1>1. CASE PathTick
  <2>1. PICK x \in Inputs, trigger \in BOOLEAN : PathSample(x, trigger)
    BY <1>1 DEF PathTick
  <2> QED
    BY <2>1, PathSampleKeepsInv
<1>2. CASE EditPath \/ LoadPath
  BY <1>2, PathPanelKeepsInv
<1>3. CASE UNCHANGED pathVars
  BY <1>3, PathStutterKeepsInv
<1> QED
  BY <1>1, <1>2, <1>3 DEF PathNext

\* Types are kept, and the last change of note is remembered truly.
THEOREM PathAlwaysInv == PathSpec => []PathInv
<1>1. PathInit => PathInv
  <2> SUFFICES ASSUME PathInit PROVE PathInv
    OBVIOUS
  <2>1. ChannelTypeOK
    BY ChannelInitType DEF PathInit
  <2>2. 0 \in Pitch
    BY PitchAssumption DEF Pitch
  <2> QED
    BY <2>1, <2>2 DEF PathInit, PathInv, PathTypeOK, TurnInv, NoTurn
<1>2. PathInv /\ [PathNext]_pathVars => PathInv'
  BY PathNextKeepsInv
<1> QED
  BY <1>1, <1>2, PTL DEF PathSpec

-----------------------------------------------------------------------------

(***************************************************************************)
(* The properties                                                          *)
(***************************************************************************)

LEMMA TickFollows ==
    ASSUME PathInv, [PathNext]_pathVars, Follows
    PROVE  /\ Seen \in Pitch
           /\ config.notes = {} => hysteresis' = NoNote
           /\ config.notes # {} =>
                /\ hysteresis' \in Semitone /\ IsSelected(config.notes, hysteresis')
                /\ IsHeld(config.notes, hysteresis, Seen) => hysteresis' = hysteresis
                /\ \/ IsHeld(config.notes, hysteresis, Seen)
                   \/ IsNearest(config.notes, hysteresis', Seen)
<1>1. /\ Step(lastInput', lastTriggerInput') /\ Updates(lastTriggerInput') /\ ChannelTypeOK
  BY DEF Follows, IsPathTick, PathSample, PathInv, PathTypeOK
<1>2. Follow(lastInput') /\ config' = config
  BY <1>1 DEF Step, settings
<1>3. lastInput' \in Pitch
  <2>1. PathInv'
    BY PathNextKeepsInv
  <2> QED
    BY <2>1 DEF PathInv, PathTypeOK
<1>4. Seen = PreShifted(lastInput')
  BY <1>2 DEF Seen, PreShifted
<1> QED
  BY <1>1, <1>2, <1>3, <1>4, FollowChooses

\* A change of note is followed by the opposite one only when the input has moved by
\* more than the overlap of the hold bands (the hysteresis of Quantizer.cpp).
THEOREM PathNeverChatters == PathSpec => NoChatter
<1>1. PathInv /\ [PathNext]_pathVars =>
        [ (Follows /\ turn # NoTurn /\ hysteresis' = turn.from /\ hysteresis # turn.from)
            => (IF Seen < turn.at THEN turn.at - Seen ELSE Seen - turn.at)
                  > 2 * HysteresisAmount ]_pathVars
  <2> SUFFICES ASSUME PathInv, [PathNext]_pathVars, Follows,
                      turn # NoTurn, hysteresis' = turn.from, hysteresis # turn.from
               PROVE  (IF Seen < turn.at THEN turn.at - Seen ELSE Seen - turn.at)
                         > 2 * HysteresisAmount
    OBVIOUS
  <2>1. /\ Seen \in Pitch /\ turn.from \in Semitone /\ turn.at \in Pitch
        /\ config.notes \in SUBSET PitchClass
    BY TickFollows DEF PathInv, PathTypeOK, TurnInv, ChannelTypeOK, ChannelConfig
  <2>2. NoNote \notin Semitone
    BY PitchAssumption DEF NoNote, Semitone
  <2>3. config.notes # {}
    BY <2>1, <2>2, TickFollows
  <2>4. /\ IsNearest(config.notes, hysteresis, turn.at)
        /\ ~IsHeld(config.notes, turn.from, turn.at)
        /\ hysteresis \in Semitone
    BY <2>3 DEF PathInv, TurnInv, IsNearest
  <2>5. /\ IsNearest(config.notes, turn.from, Seen)
        /\ ~IsHeld(config.notes, hysteresis, Seen)
    BY <2>3, TickFollows
  <2>6. /\ turn.from < hysteresis => turn.at - Seen > 2 * HysteresisAmount
        /\ hysteresis < turn.from => Seen - turn.at > 2 * HysteresisAmount
    BY <2>1, <2>4, <2>5, OppositeChangesLieApart
  <2>7. /\ turn.from \in Int /\ hysteresis \in Int /\ Seen \in Int /\ turn.at \in Int
        /\ HysteresisAmount \in Nat
    BY <2>1, <2>4, PitchAssumption DEF Semitone, Pitch
  <2> QED
    BY <2>6, <2>7
<1> QED
  BY <1>1, PathAlwaysInv, PTL DEF PathSpec, NoChatter

\* The note in use is a note of the scale, nearest to the input when it is chosen and
\* at most twice the hysteresis worse than the nearest while it is held.
THEOREM NotesAlwaysFit == PathSpec => NotesFitTheInput
<1>1. PathInv /\ [PathNext]_pathVars =>
        [ Follows =>
          IF config.notes = {} THEN hysteresis' = NoNote
          ELSE /\ IsSelected(config.notes, hysteresis')
               /\ \A n \in Semitone : IsSelected(config.notes, n) =>
                    Distance(hysteresis', Seen) <=
                        Distance(n, Seen) + 2 * HysteresisAmount ]_pathVars
  <2> SUFFICES ASSUME PathInv, [PathNext]_pathVars, Follows, config.notes # {},
                      NEW n \in Semitone, IsSelected(config.notes, n)
               PROVE  Distance(hysteresis', Seen) <= Distance(n, Seen) + 2 * HysteresisAmount
    BY TickFollows
  <2>1. /\ Seen \in Pitch /\ hysteresis' \in Semitone /\ config.notes \in SUBSET PitchClass
    BY TickFollows DEF PathInv, PathTypeOK, ChannelTypeOK, ChannelConfig
  <2>2. CASE IsHeld(config.notes, hysteresis, Seen)
    <3>1. hysteresis' = hysteresis
      BY <2>2, TickFollows
    <3> QED
      BY <2>1, <2>2, <3>1, HeldNoteIsClose
  <2>3. CASE ~IsHeld(config.notes, hysteresis, Seen)
    <3>1. IsNearest(config.notes, hysteresis', Seen)
      BY <2>3, TickFollows
    <3>2. HysteresisAmount \in Nat
      BY PitchAssumption
    <3>3. \/ Distance(hysteresis', Seen) < Distance(n, Seen)
          \/ Distance(hysteresis', Seen) = Distance(n, Seen)
      BY <3>1 DEF IsNearest
    <3>4. \A note \in Semitone : Distance(note, Seen) \in Int
      BY <2>1, PitchAssumption DEF Distance, Semitone, Pitch
    <3>5. Distance(hysteresis', Seen) \in Int /\ Distance(n, Seen) \in Int
      BY <2>1, <3>4
    <3> HIDE DEF Seen
    <3> QED
      BY <3>2, <3>3, <3>5
  <2> QED
    BY <2>2, <2>3
<1>2. PathInv /\ [PathNext]_pathVars =>
        [ (Follows /\ hysteresis' \notin {NoNote, hysteresis}) =>
          \A n \in Semitone : IsSelected(config.notes, n) =>
             \/ Distance(hysteresis', Seen) < Distance(n, Seen)
             \/ /\ Distance(hysteresis', Seen) = Distance(n, Seen)
                /\ n <= hysteresis' ]_pathVars
  <2> SUFFICES ASSUME PathInv, [PathNext]_pathVars, Follows, hysteresis' \notin {NoNote, hysteresis}
               PROVE  IsNearest(config.notes, hysteresis', Seen)
    BY DEF IsNearest
  <2> QED
    BY TickFollows
<1>3. PathSpec => HeldNoteIsNear
  BY <1>1, PathAlwaysInv, PTL DEF PathSpec, HeldNoteIsNear
<1>4. PathSpec => ChangesGoToNearest
  BY <1>2, PathAlwaysInv, PTL DEF PathSpec, ChangesGoToNearest
<1> QED
  BY <1>3, <1>4 DEF NotesFitTheInput

\* The output never moves away from its target and never past it (calculateGlide).
THEOREM GlidesAlwaysApproach == PathSpec => GlideApproaches
<1>1. PathInv /\ [PathNext]_pathVars =>
        [ (IsPathTick /\ hasLastOutput) =>
          \/ lastGlideCurrent <= lastGlideCurrent' /\ lastGlideCurrent' <= lastGlideTarget'
          \/ lastGlideCurrent >= lastGlideCurrent' /\ lastGlideCurrent' >= lastGlideTarget' ]_pathVars
  <2> SUFFICES ASSUME PathInv, [PathNext]_pathVars, IsPathTick, hasLastOutput
               PROVE  \/ lastGlideCurrent <= lastGlideCurrent' /\ lastGlideCurrent' <= lastGlideTarget'
                      \/ lastGlideCurrent >= lastGlideCurrent' /\ lastGlideCurrent' >= lastGlideTarget'
    OBVIOUS
  <2>1. PathInv'
    BY PathNextKeepsInv
  <2>2. /\ config \in ChannelConfig /\ lastGlideCurrent \in Int /\ lastGlideTarget' \in Int
    <3>1. Glide \subseteq Int
      BY PitchAssumption, ChannelAssumption DEF Glide
    <3> QED
      BY <2>1, <3>1 DEF PathInv, PathTypeOK, ChannelTypeOK
  <2>3. lastGlideCurrent' = CalculateGlide(lastGlideCurrent, lastGlideTarget')
    BY DEF IsPathTick, PathSample, Step
  <2>4. /\ lastGlideCurrent' \in Int
        /\ lastGlideCurrent <= lastGlideTarget' =>
             lastGlideCurrent <= lastGlideCurrent' /\ lastGlideCurrent' <= lastGlideTarget'
        /\ lastGlideTarget' <= lastGlideCurrent =>
             lastGlideTarget' <= lastGlideCurrent' /\ lastGlideCurrent' <= lastGlideCurrent
    BY <2>2, <2>3, GlideStaysBetween
  <2> QED
    BY <2>2, <2>4
<1> QED
  BY <1>1, PathAlwaysInv, PTL DEF PathSpec, GlideApproaches

-----------------------------------------------------------------------------
(***************************************************************************)
(* GatedChannel                                                            *)
(***************************************************************************)

\* A rise that the channel has seen is used up: what is left of it in the counter
\* is taken by the next tick, before the level can be seen low.
JackInv ==
    ~rose =>
      /\ activationCount # 0 => activations = Jack!NotTaken
      /\ ~lastTriggerInput =>
           ~gate /\ activationCount = 0 /\ activations \in {0, Jack!NotTaken}

\* No sample is waited for once the edge has given its note.
EdgeInv ==
    (edge = "used" /\ config.sampleMode = "SampleAndHold" /\ ~forceContinuous)
      => hasLastOutput /\ ~triggerDelayPending

\* A channel that follows its input while the gate does not move.
FollowsSteadyGate ==
    \/ forceContinuous
    \/ config.sampleMode = "Continuous"
    \/ config.sampleMode = "TrackAndHold" /\ lastTriggerInput

QuantizedInput == Quantized(config.notes, hysteresis, PreShifted(input))
ShiftedInput == StepInScale(config.notes, QuantizedInput, config.scaleShift)

\* Another sample of the same input changes nothing.
Settled ==
    /\ lastNominalSemitones = ShiftedInput
    /\ lastGlideTarget = Clamp(ShiftedInput + config.postShift, 0, MaxSemitone) * GlideOne

EditInv ==
    cause = "edit" =>
      /\ hasLastOutput /\ ~triggerDelayPending
      /\ \/ suppressNextOutputTrigger
         \/ ~FollowsSteadyGate
         \/ Settled

ChannelInv == TypeOK /\ JackInv /\ EdgeInv /\ EditInv

-----------------------------------------------------------------------------

\* No step of the jack loses count of the rises, and none shows one twice.
LEMMA JackKeepsInv ==
    ASSUME TypeOK, JackInv,
           Jack!Rise \/ Jack!Fall \/ Jack!ConsumeActivations \/ Jack!Process \/ Jack!ForgetLevel
    PROVE  /\ Jack!JackTypeOK' /\ JackInv'
           /\ Jack!SeesRise => rose
<1>1. /\ gate \in BOOLEAN /\ activationCount \in 0 .. CountMaximum /\ rose \in BOOLEAN
      /\ activations \in 0 .. CountMaximum \cup {Jack!NotTaken} /\ lastTriggerInput \in BOOLEAN
      /\ CountMaximum \in Nat \ {0} /\ Jack!NotTaken = -1
  BY CountAssumption DEF TypeOK, Jack!JackTypeOK, Jack!NotTaken
<1>2. Jack!CountedUp(activationCount) \in 0 .. CountMaximum
  BY <1>1 DEF Jack!CountedUp
<1>3. 0 \in 0 .. CountMaximum
  BY <1>1
<1>4. CASE Jack!Rise
  BY <1>1, <1>2, <1>4 DEF Jack!Rise, Jack!JackTypeOK, JackInv, Jack!SeesRise
<1>5. CASE Jack!Fall
  BY <1>1, <1>5 DEF Jack!Fall, Jack!JackTypeOK, JackInv, Jack!SeesRise
<1>6. CASE Jack!ConsumeActivations
  BY <1>1, <1>3, <1>6 DEF Jack!ConsumeActivations, Jack!JackTypeOK, JackInv, Jack!SeesRise
<1>7. CASE Jack!Process
  BY <1>1, <1>7 DEF Jack!Process, Jack!TriggerLevel, Jack!JackTypeOK, JackInv, Jack!SeesRise
<1>8. CASE Jack!ForgetLevel
  BY <1>1, <1>8 DEF Jack!ForgetLevel, Jack!JackTypeOK, JackInv, Jack!SeesRise
<1> QED
  BY <1>4, <1>5, <1>6, <1>7, <1>8

-----------------------------------------------------------------------------

(***************************************************************************)
(* The step of the channel                                                 *)
(***************************************************************************)

LEMMA SampleKeepsType ==
    ASSUME HistoryTypeOK, NEW x \in Inputs, NEW trigger \in BOOLEAN, Sample(x, trigger)
    PROVE  HistoryTypeOK'
<1>1. ChannelTypeOK'
  BY StepType, ChannelAssumption DEF HistoryTypeOK, Sample
<1> QED
  BY <1>1 DEF HistoryTypeOK, Sample, Cause

LEMMA SampleKeepsEdgeInv ==
    ASSUME HistoryTypeOK, EdgeInv, NEW x, NEW trigger \in BOOLEAN, Sample(x, trigger)
    PROVE  EdgeInv'
<1> SUFFICES ASSUME edge' = "used", config'.sampleMode = "SampleAndHold", ~forceContinuous'
             PROVE  hasLastOutput' /\ ~triggerDelayPending'
  BY DEF EdgeInv
<1>1. config' = config /\ forceContinuous' = forceContinuous /\ hasLastOutput'
  BY DEF Sample, Step, settings
<1>2. triggerDelayPending' = (Waits(trigger) /\ ~DelayIsOver(trigger))
  BY <1>1 DEF Sample, Step, KeepTime
<1>3. CASE TargetChanges
  <2>1. Updates(trigger)
    BY <1>3 DEF TargetChanges, Sample, Step, Hold
  <2> QED
    BY <1>1, <1>2, <2>1 DEF Updates
<1>4. CASE ~TargetChanges
  <2>1. edge = "used" /\ ~(hasLastOutput /\ RisingEdge(trigger))
    BY <1>4 DEF Sample
  <2>2. hasLastOutput /\ ~triggerDelayPending
    BY <1>1, <2>1 DEF EdgeInv
  <2> QED
    BY <1>1, <1>2, <2>1, <2>2 DEF Waits, StartsDelay
<1> QED
  BY <1>3, <1>4

LEMMA SteadyGateWaitsForNothing ==
    ASSUME hasLastOutput, ~triggerDelayPending
    PROVE  /\ ~Waits(lastTriggerInput)
           /\ Updates(lastTriggerInput) <=> FollowsSteadyGate
  BY DEF Waits, StartsDelay, RisingEdge, Updates, DelayIsOver, FollowsSteadyGate

\* The sample after an edit is the one that may move the note, and it is muted; the
\* next ones repeat it.
LEMMA SampleKeepsEditInv ==
    ASSUME HistoryTypeOK, EditInv, NEW x \in Inputs, NEW trigger \in BOOLEAN, Sample(x, trigger),
           cause' = "edit"
    PROVE  EditInv' /\ ~PulseStarts
<1>1. cause = "edit" /\ x = input /\ trigger = lastTriggerInput /\ input' = input
  BY DEF Sample, Cause
<1>2. hasLastOutput /\ ~triggerDelayPending
  BY <1>1 DEF EditInv
<1>3. /\ config' = config /\ forceContinuous' = forceContinuous /\ hasLastOutput'
      /\ lastTriggerInput' = lastTriggerInput
  BY <1>1 DEF Sample, Step, settings
<1>4. ~Waits(trigger) /\ (Updates(trigger) <=> FollowsSteadyGate)
  BY <1>1, <1>2, SteadyGateWaitsForNothing
<1>5. ~triggerDelayPending'
  BY <1>4 DEF Sample, Step, KeepTime
<1>6. FollowsSteadyGate' <=> FollowsSteadyGate
  BY <1>3 DEF FollowsSteadyGate
<1>7. ASSUME Follow(input) PROVE Settled'
  <2>1. hysteresis' = Remembered(config.notes, QuantizedInput)
    BY <1>7 DEF Follow, QuantizedInput
  <2>2. PreShifted(input)' = PreShifted(input)
    BY <1>1, <1>3 DEF PreShifted
  <2>3. QuantizedInput' = QuantizedInput
    BY <1>1, <1>3, <2>1, <2>2, QuantizedIsStable DEF QuantizedInput
  <2>4. ShiftedInput' = ShiftedInput
    BY <1>3, <2>3 DEF ShiftedInput
  <2>5. /\ lastNominalSemitones' = ShiftedInput
        /\ lastGlideTarget' = Clamp(ShiftedInput + config.postShift, 0, MaxSemitone) * GlideOne
    BY <1>7 DEF Follow, QuantizedInput, ShiftedInput
  <2> QED
    BY <1>3, <2>4, <2>5 DEF Settled
<1>8. EditInv'
  <2>1. CASE FollowsSteadyGate
    <3>1. Follow(input)
      BY <1>1, <1>4, <2>1 DEF Sample, Step
    <3> QED
      BY <1>3, <1>5, <1>7, <3>1 DEF EditInv
  <2>2. CASE ~FollowsSteadyGate
    BY <1>3, <1>5, <1>6, <2>2 DEF EditInv
  <2> QED
    BY <2>1, <2>2
<1>9. suppressNextOutputTrigger \/ ~DidChange
  <2> SUFFICES ASSUME ~suppressNextOutputTrigger PROVE ~DidChange
    OBVIOUS
  <2>1. CASE FollowsSteadyGate
    <3>1. Settled
      BY <1>1, <2>1 DEF EditInv
    <3>2. Follow(input)
      BY <1>1, <1>4, <2>1 DEF Sample, Step
    <3>3. /\ lastNominalSemitones' = ShiftedInput
          /\ lastGlideTarget' = Clamp(ShiftedInput + config.postShift, 0, MaxSemitone) * GlideOne
      BY <3>2 DEF Follow, QuantizedInput, ShiftedInput
    <3> QED
      BY <3>1, <3>3 DEF Settled, DidChange
  <2>2. CASE ~FollowsSteadyGate
    <3>1. Hold
      BY <1>4, <2>2 DEF Sample, Step
    <3> QED
      BY <3>1 DEF Hold, DidChange
  <2> QED
    BY <2>1, <2>2
<1>10. outputTriggerCountdown' = SaturatingDec(outputTriggerCountdown)
  BY <1>9 DEF Sample, Step, FireTrigger
<1>11. outputTriggerCountdown \in Nat
  BY ChannelAssumption DEF HistoryTypeOK, ChannelTypeOK
<1>12. ~PulseStarts
  BY <1>10, <1>11 DEF PulseStarts, SaturatingDec
<1> QED
  BY <1>8, <1>12

-----------------------------------------------------------------------------

(***************************************************************************)
(* The actions                                                             *)
(***************************************************************************)

LEMMA GateKeepsInv ==
    ASSUME ChannelInv, GateMoves \/ TakeCount
    PROVE  ChannelInv'
<1>1. /\ Jack!Rise \/ Jack!Fall \/ Jack!ConsumeActivations
      /\ UNCHANGED historyVars
  BY DEF GateMoves, TakeCount
<1>2. Jack!JackTypeOK' /\ JackInv'
  BY <1>1, JackKeepsInv DEF ChannelInv
<1>3. UNCHANGED <<channelVars, input, cause, edge>>
  BY <1>1 DEF historyVars
<1>4. HistoryTypeOK'
  BY <1>3 DEF ChannelInv, TypeOK, HistoryTypeOK, ChannelTypeOK, channelVars
<1>5. EdgeInv'
  BY <1>3 DEF ChannelInv, EdgeInv, channelVars
<1>6. EditInv'
  BY <1>3 DEF ChannelInv, EditInv, FollowsSteadyGate, Settled, ShiftedInput, QuantizedInput,
              PreShifted, channelVars
<1> QED
  BY <1>2, <1>4, <1>5, <1>6 DEF ChannelInv, TypeOK

LEMMA TakeSampleKeepsInv ==
    ASSUME ChannelInv, TakeSample
    PROVE  ChannelInv'
<1>1. HistoryTypeOK /\ TypeOK /\ JackInv /\ EdgeInv /\ EditInv
  BY DEF ChannelInv, TypeOK
<1>2. Jack!Process /\ Jack!TriggerLevel \in BOOLEAN
  BY <1>1 DEF TakeSample, TypeOK, Jack!JackTypeOK, Jack!TriggerLevel
<1>3. PICK x \in Inputs : Sample(x, Jack!TriggerLevel)
  BY DEF TakeSample
<1>4. Jack!JackTypeOK' /\ JackInv'
  BY <1>1, <1>2, JackKeepsInv
<1>5. HistoryTypeOK' /\ EdgeInv'
  BY <1>1, <1>2, <1>3, SampleKeepsType, SampleKeepsEdgeInv
<1>6. EditInv'
  <2>1. CASE cause' = "edit"
    BY <1>1, <1>2, <1>3, <2>1, SampleKeepsEditInv
  <2>2. CASE cause' # "edit"
    BY <2>2 DEF EditInv
  <2> QED
    BY <2>1, <2>2
<1> QED
  BY <1>4, <1>5, <1>6 DEF ChannelInv, TypeOK

LEMMA EditKeepsInv ==
    ASSUME ChannelInv, EditTick
    PROVE  ChannelInv'
<1>1. HistoryTypeOK /\ TypeOK /\ JackInv /\ EdgeInv /\ EditInv
  BY DEF ChannelInv, TypeOK
<1>2. PICK new \in Configs, force \in BOOLEAN : EditConfig(new, force)
  BY DEF EditTick, Edit
<1>3. ChannelTypeOK'
  BY <1>1, <1>2, PanelType DEF HistoryTypeOK
<1>4. /\ hasLastOutput /\ edge' = "none" /\ input' = input /\ UNCHANGED jackVars
      /\ cause' = IF cause = "player" /\ ~triggerDelayPending THEN "edit" ELSE cause
  BY DEF EditTick, Edit
<1>5. HistoryTypeOK'
  BY <1>1, <1>3, <1>4 DEF HistoryTypeOK, Cause
<1>6. /\ hasLastOutput' = hasLastOutput /\ lastTriggerInput' = lastTriggerInput
      /\ triggerDelayPending' = triggerDelayPending /\ suppressNextOutputTrigger'
  BY <1>2 DEF EditConfig, timing
<1>7. Jack!JackTypeOK' /\ JackInv'
  BY <1>1, <1>4, <1>6 DEF TypeOK, jackVars, Jack!JackTypeOK, JackInv
<1>8. EdgeInv'
  BY <1>4 DEF EdgeInv
<1>9. EditInv'
  BY <1>1, <1>4, <1>6 DEF EditInv
<1> QED
  BY <1>5, <1>7, <1>8, <1>9 DEF ChannelInv, TypeOK

LEMMA LoadKeepsInv ==
    ASSUME ChannelInv, LoadTick
    PROVE  ChannelInv'
<1>1. HistoryTypeOK /\ TypeOK /\ JackInv
  BY DEF ChannelInv, TypeOK
<1>2. PICK new \in Configs, force \in BOOLEAN : LoadConfig(new, force)
  BY DEF LoadTick, Load
<1>3. ChannelTypeOK'
  BY <1>1, <1>2, PanelType DEF HistoryTypeOK
<1>4. edge' = "none" /\ cause' = "load" /\ input' = input /\ Jack!ForgetLevel
  BY DEF LoadTick, Load
<1>5. HistoryTypeOK'
  BY <1>1, <1>3, <1>4 DEF HistoryTypeOK, Cause
<1>6. Jack!JackTypeOK' /\ JackInv'
  BY <1>1, <1>4, JackKeepsInv
<1>7. EdgeInv' /\ EditInv'
  BY <1>4 DEF EdgeInv, EditInv
<1> QED
  BY <1>5, <1>6, <1>7 DEF ChannelInv, TypeOK

LEMMA StutterKeepsInv ==
    ASSUME ChannelInv, UNCHANGED vars
    PROVE  ChannelInv'
<1>1. UNCHANGED <<channelVars, input, cause, edge, gate, activationCount, activations, rose>>
  BY DEF vars, historyVars, jackVars
<1>2. HistoryTypeOK'
  BY <1>1 DEF ChannelInv, TypeOK, HistoryTypeOK, ChannelTypeOK, channelVars
<1>3. Jack!JackTypeOK' /\ JackInv'
  BY <1>1 DEF ChannelInv, TypeOK, Jack!JackTypeOK, JackInv, channelVars
<1>4. EdgeInv'
  BY <1>1 DEF ChannelInv, EdgeInv, channelVars
<1>5. EditInv'
  BY <1>1 DEF ChannelInv, EditInv, FollowsSteadyGate, Settled, ShiftedInput, QuantizedInput,
              PreShifted, channelVars
<1> QED
  BY <1>2, <1>3, <1>4, <1>5 DEF ChannelInv, TypeOK

LEMMA NextKeepsInv ==
    ASSUME ChannelInv, [Next]_vars
    PROVE  ChannelInv'
  BY GateKeepsInv, TakeSampleKeepsInv, EditKeepsInv, LoadKeepsInv, StutterKeepsInv DEF Next

LEMMA InitGivesInv == ASSUME Init PROVE ChannelInv
<1>1. HistoryTypeOK
  BY ChannelInitType DEF Init, HistoryInit, HistoryTypeOK, Cause
<1>2. Jack!JackTypeOK /\ JackInv
  <2>1. 0 \in 0 .. CountMaximum
    BY CountAssumption
  <2> QED
    BY <2>1 DEF Init, Jack!JackInit, Jack!JackTypeOK, JackInv
<1>3. EdgeInv /\ EditInv
  BY DEF Init, HistoryInit, EdgeInv, EditInv
<1> QED
  BY <1>1, <1>2, <1>3 DEF ChannelInv, TypeOK

\* Types, the rises of the jack, the use of an edge and what an edit leaves behind.
THEOREM ChannelAlwaysInv == Spec => []ChannelInv
  BY InitGivesInv, NextKeepsInv, PTL DEF Spec

\* The channel sees a rise only when the jack has risen since it last saw one, whatever
\* the order of interrupts and reads (AvrTriggerInputs and FirmwareController::run).
THEOREM RisesAreReal == Spec => NoPhantomRise
<1>1. ChannelInv /\ [Next]_vars => [Jack!SeesRise => rose]_<<Jack!jackVars, lastTriggerInput>>
  <2> SUFFICES ASSUME ChannelInv, [Next]_vars, Jack!SeesRise PROVE rose
    OBVIOUS
  <2>1. TypeOK /\ JackInv
    BY DEF ChannelInv
  <2>2. CASE GateMoves \/ TakeCount \/ TakeSample \/ LoadTick
    <3>1. \/ Jack!Rise \/ Jack!Fall \/ Jack!ConsumeActivations \/ Jack!Process
          \/ Jack!ForgetLevel
      BY <2>2 DEF GateMoves, TakeCount, TakeSample, LoadTick
    <3> QED
      BY <2>1, <3>1, JackKeepsInv
  <2>3. CASE EditTick \/ UNCHANGED vars
    <3>1. lastTriggerInput' = lastTriggerInput
      BY <2>3 DEF EditTick, Edit, EditConfig, vars, historyVars, channelVars
    <3> QED
      BY <3>1 DEF Jack!SeesRise
  <2> QED
    BY <2>2, <2>3 DEF Next
<1> QED
  BY <1>1, ChannelAlwaysInv, PTL DEF Spec, NoPhantomRise, Jack!NoPhantomRise

\* A Sample-and-Hold channel moves its note at most once for each rising edge.
THEOREM EdgesGiveOneNote == Spec => OneNotePerEdge
<1>1. ChannelInv /\ [Next]_vars =>
        [ (IsTick /\ config.sampleMode = "SampleAndHold" /\ ~forceContinuous
              /\ cause' = "player" /\ TargetChanges)
          => (edge # "used" \/ RisingEdge(lastTriggerInput')) ]_historyVars
  <2> SUFFICES ASSUME ChannelInv, IsTick, config.sampleMode = "SampleAndHold", ~forceContinuous,
                      TargetChanges, edge = "used"
               PROVE  RisingEdge(lastTriggerInput')
    OBVIOUS
  <2>1. hasLastOutput /\ ~triggerDelayPending
    BY DEF ChannelInv, EdgeInv
  <2>2. Updates(lastTriggerInput')
    BY DEF IsTick, Sample, Step, Hold, TargetChanges
  <2> QED
    BY <2>1, <2>2 DEF Updates, DelayIsOver, Waits, StartsDelay
<1> QED
  BY <1>1, ChannelAlwaysInv, PTL DEF Spec, OneNotePerEdge

\* No output pulse starts after an edit until the player moves something
\* (suppressNextOutputTrigger_).
THEOREM EditsStaySilent == Spec => EditsGiveNoPulse
<1>1. ChannelInv /\ [Next]_vars => [ (IsTick /\ cause' = "edit") => ~PulseStarts ]_historyVars
  <2> SUFFICES ASSUME ChannelInv, [Next]_vars, IsTick, cause' = "edit" PROVE ~PulseStarts
    OBVIOUS
  <2>1. HistoryTypeOK /\ HistoryTypeOK' /\ EditInv
    BY NextKeepsInv DEF ChannelInv, TypeOK
  <2>2. input' \in Inputs /\ lastTriggerInput' \in BOOLEAN
    BY <2>1 DEF HistoryTypeOK, ChannelTypeOK
  <2> QED
    BY <2>1, <2>2, SampleKeepsEditInv DEF IsTick
<1> QED
  BY <1>1, ChannelAlwaysInv, PTL DEF Spec, EditsGiveNoPulse
=============================================================================
