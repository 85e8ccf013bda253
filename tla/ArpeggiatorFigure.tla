------------------------- MODULE ArpeggiatorFigure -------------------------
(***************************************************************************)
(* What an Arpeggiator plays at each step: the pattern turns the step      *)
(* counter into a position, the shape turns the position into a degree of  *)
(* the scale, and the scale of the channel turns the degree into semitones *)
(* above the quantized note.  ArpeggiatorTiming says when it steps.        *)
(***************************************************************************)
EXTENDS Integers, Sequences, FiniteSets

CONSTANTS
    NoteCount,      \* kNoteCount
    MaxSemitone,    \* kMaxSemitone
    StepModulus,    \* values of stepCounter_, 256
    RandomStates,   \* values of randomState_
    RandomSeed,     \* kRandomSeed
    Figures,        \* the figures the panel sets
    Scales,         \* the scales of the channel
    Roots           \* its quantized notes

Pattern == {"Up", "Down", "UpDown", "DownUp", "Rotate", "OutsideIn", "InsideOut", "Random"}

ShapeTable ==
    [Triad135      |-> <<0, 2, 4>>,
     OneTwoFive    |-> <<0, 1, 4>>,
     OneFourFive   |-> <<0, 3, 4>>,
     OneThreeSix   |-> <<0, 2, 5>>,
     OneFiveEight  |-> <<0, 4, 7>>,
     Adjacent1234  |-> <<0, 1, 2, 3>>,
     Seventh1357   |-> <<0, 2, 4, 6>>]

Shape == DOMAIN ShapeTable \cup {"StackedThirds"}

Figure == [pattern: Pattern, shape: Shape, length: 1 .. 12, range: 1 .. 4]

\* The search for a degree goes as far as the widest range.
ASSUME FigureAssumption ==
    /\ {NoteCount, StepModulus} \subseteq Nat \ {0}
    /\ MaxSemitone \in Nat /\ 4 * NoteCount <= MaxSemitone
    /\ RandomStates \subseteq Nat /\ RandomSeed \in RandomStates
    /\ Figures \subseteq Figure
    /\ Scales \subseteq SUBSET (0 .. NoteCount - 1)
    /\ Roots \subseteq 0 .. MaxSemitone

VARIABLES
    figure,         \* the fields of config_ a figure has
    notes, root,    \* scale and quantized note of the channel
    stepCounter, randomState,
    sweep           \* history: the last positions played, at most the length

figureVars == <<figure, notes, root, stepCounter, randomState, sweep>>

-----------------------------------------------------------------------------
(***************************************************************************)
(* From a step to a position                                               *)
(***************************************************************************)

Turning(counter, length) ==
    LET period == 2 * length - 2
        p == counter % period
    IN  IF p < length THEN p ELSE period - p

\* Mutant of FromTheMiddle: the alternation goes to the same side twice.
FromTheMiddleOneSided(s, length) == ((length - 1) \div 2 + s \div 2) % length

FromTheMiddle(s, length) ==
    LET middle == (length - 1) \div 2
    IN  (IF s % 2 = 0 THEN middle + s \div 2 ELSE middle - (s + 1) \div 2) % length

PatternPosition(pattern, counter, length, random) ==
    LET s == counter % length
    IN  IF length = 1 THEN 0 ELSE
        CASE pattern = "Up"        -> s
          [] pattern = "Down"      -> length - 1 - s
          [] pattern = "UpDown"    -> Turning(counter, length)
          [] pattern = "DownUp"    -> length - 1 - Turning(counter, length)
          [] pattern = "Rotate"    -> (2 * s) % length
          [] pattern = "OutsideIn" -> IF s % 2 = 0 THEN s \div 2 ELSE length - (s + 1) \div 2
          [] pattern = "InsideOut" -> FromTheMiddle(s, length)
          [] pattern = "Random"    -> random % length

-----------------------------------------------------------------------------
(***************************************************************************)
(* From a position to a degree, and to semitones                           *)
(***************************************************************************)

\* Mutant of Limited: a degree equal to the number of degrees passes.
LimitedByOneMore(degree, degrees) == IF degree > degrees THEN degrees ELSE degree

Limited(degree, degrees) == IF degree >= degrees THEN degrees - 1 ELSE degree

ShapeDegree(shape, position, active, range) ==
    IF active = 0 THEN 0
    ELSE IF shape = "StackedThirds" THEN Limited(2 * position, active * range)
    ELSE LET values == ShapeTable[shape]
             octave == (position \div Len(values)) % range
         IN  Limited(values[(position % Len(values)) + 1] + octave * active, active * range)

IsActive(scale, semitone) == semitone % NoteCount \in scale

\* The distance to the degree-th active note above, 0 when the search ends without it.
SemitoneOffset(scale, note, degree) ==
    LET passed(n) == Cardinality({k \in 1 .. n : IsActive(scale, note + k)})
        found == {n \in 1 .. MaxSemitone : IsActive(scale, note + n) /\ passed(n) = degree}
    IN  IF found = {} THEN 0 ELSE CHOOSE n \in found : TRUE

Position == PatternPosition(figure.pattern, stepCounter, figure.length, randomState)
Degree == ShapeDegree(figure.shape, Position, Cardinality(notes), figure.range)
Offset == SemitoneOffset(notes, root, Degree)

\* Of a channel without glide and shift, whose pitch is the quantized note.
Played == IF root + Offset > MaxSemitone THEN MaxSemitone ELSE root + Offset

-----------------------------------------------------------------------------
(***************************************************************************)
(* Steps, edits and the channel                                            *)
(***************************************************************************)

FigureInit ==
    /\ figure \in Figures /\ notes \in Scales /\ root \in Roots
    /\ stepCounter = 0
    /\ randomState = RandomSeed
    /\ sweep = <<Position>>

Appended(played, position, length) ==
    IF Len(played) < length THEN Append(played, position)
    ELSE Append(Tail(played), position)

\* The generator is a word of 16 bits: any of its values may come next.
AdvanceStep ==
    /\ UNCHANGED <<figure, notes, root>>
    /\ stepCounter' = (stepCounter + 1) % StepModulus
    /\ randomState' \in RandomStates
    /\ sweep' = Appended(sweep, Position', figure.length)

\* An edge in RESET, the first edge in CLOCK, and every edit of the timing.
ResetFigure ==
    /\ UNCHANGED <<figure, notes, root>>
    /\ stepCounter' = 0
    /\ randomState' = RandomSeed
    /\ sweep' = <<Position'>>

\* An edit of the figure leaves the phase alone.
SetFigure ==
    /\ UNCHANGED <<notes, root, stepCounter, randomState>>
    /\ figure' \in Figures
    /\ sweep' = <<Position'>>

ChannelMoves ==
    /\ notes' \in Scales /\ root' \in Roots
    /\ UNCHANGED <<figure, stepCounter, randomState, sweep>>

FigureNext == AdvanceStep \/ ResetFigure \/ SetFigure \/ ChannelMoves

FigureSpec == FigureInit /\ [][FigureNext]_figureVars

-----------------------------------------------------------------------------
(***************************************************************************)
(* Properties                                                              *)
(***************************************************************************)

FigureTypeOK ==
    /\ figure \in Figures /\ notes \in Scales /\ root \in Roots
    /\ stepCounter \in 0 .. StepModulus - 1
    /\ randomState \in RandomStates
    /\ Position \in 0 .. figure.length - 1

Visited == {sweep[i] : i \in DOMAIN sweep}
SweepIsComplete == Len(sweep) = figure.length => Visited = 0 .. figure.length - 1

\* The counter has not wrapped within the sweep.
Unwrapped == stepCounter >= Len(sweep) - 1

\* "Length determines the number of positions over which Pattern operates": these
\* patterns play each position once in any so many consecutive steps.
SweepsAreComplete ==
    /\ Unwrapped
    /\ \/ figure.pattern \in {"Up", "Down", "OutsideIn", "InsideOut"}
       \/ figure.pattern = "Rotate" /\ figure.length % 2 = 1
    => SweepIsComplete

\* The same across the wrap of the counter: not kept by the code.
SweepsStayComplete == figure.pattern \in {"Up", "Down"} => SweepIsComplete

\* The same of Rotate for every length: not kept by the code.
RotateVisitsAll == figure.pattern = "Rotate" /\ Unwrapped => SweepIsComplete

\* "Up / Down and Down / Up do not duplicate the end points": each step goes to a
\* neighbouring position.
GoesToNeighbour ==
    /\ figure.pattern \in {"UpDown", "DownUp"} /\ figure.length > 1
    /\ figure' = figure /\ stepCounter' = stepCounter + 1
    => Position' - Position \in {-1, 1}

\* What the manual says of the order in which a pattern visits its positions.
PatternsVisitAll == [][SweepsAreComplete' /\ GoesToNeighbour]_figureVars

\* What is played is a note of the scale or the top of the range, within the
\* octaves of the range, and the root only when the root is meant: the search for
\* a degree never ends without it.
NotesOfTheScale ==
    root % NoteCount \in notes =>
        /\ IsActive(notes, Played) \/ Played = MaxSemitone
        /\ Offset < NoteCount * figure.range
        /\ Degree # 0 => Offset # 0
=============================================================================
