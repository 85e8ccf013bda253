--------------------------- MODULE NoteSelection ---------------------------
(***************************************************************************)
(* How a pitch becomes a note of the scale: ScaleMath.cpp and the search   *)
(* and hold band of class Hysteresis in Quantizer.cpp.                     *)
(*                                                                         *)
(* A pitch is a fixed-point number with One units to the semitone, a note  *)
(* a semitone in 0 .. MaxSemitone, and a scale a set of pitch classes.     *)
(***************************************************************************)
EXTENDS Integers, FiniteSetsExt

CONSTANTS
    NoteCount,          \* pitch classes of an octave, kNoteCount
    MaxSemitone,        \* highest note, kMaxSemitone
    One,                \* pitch units of a semitone, kSemitoneOneQ8_8
    HysteresisAmount    \* kHysteresisAmountQ8_8

\* kSemitoneOneQ8_8 is a power of two, so that half a semitone is exact, and
\* the highest notes hold every pitch class once, so that the search ends.
ASSUME PitchAssumption ==
    /\ NoteCount \in Nat \ {0}
    /\ MaxSemitone \in Nat /\ MaxSemitone >= NoteCount - 1
    /\ One \in Nat \ {0} /\ One % 2 = 0
    /\ HysteresisAmount \in Nat /\ 2 * HysteresisAmount <= One

PitchClass == 0 .. NoteCount - 1
Semitone == 0 .. MaxSemitone
Pitch == 0 .. MaxSemitone * One

NoNote == -1  \* hasLastOutput_ is false

Clamp(value, low, high) ==
    IF value < low THEN low ELSE IF value > high THEN high ELSE value

Distance(note, pitch) ==
    IF note * One < pitch THEN pitch - note * One ELSE note * One - pitch

-----------------------------------------------------------------------------
(***************************************************************************)
(* Neighbours in the scale                                                 *)
(***************************************************************************)

IsSelected(notes, note) == note \in Semitone /\ note % NoteCount \in notes

NextUp(notes, note) ==
    LET above == {n \in note + 1 .. MaxSemitone : IsSelected(notes, n)}
    IN  IF above = {} THEN note ELSE Min(above)

NextDown(notes, note) ==
    LET below == {n \in 0 .. note - 1 : IsSelected(notes, n)}
    IN  IF below = {} THEN note ELSE Max(below)

\* An empty scale leaves the note alone: there is no neighbour to go to.
StepInScale(notes, note, steps) ==
    LET walk[i \in 0 .. MaxSemitone] ==
            IF i = 0 THEN note
            ELSE IF steps < 0 THEN NextDown(notes, walk[i - 1])
            ELSE NextUp(notes, walk[i - 1])
    IN  walk[Clamp(IF steps < 0 THEN -steps ELSE steps, 0, MaxSemitone)]

-----------------------------------------------------------------------------
(***************************************************************************)
(* Hold band and search                                                    *)
(***************************************************************************)

(* Mutant of UpperThreshold: the whole distance instead of half of it. *)
UpperThresholdAtNote(notes, last) ==
    NextUp(notes, last) * One + HysteresisAmount

UpperThreshold(notes, last) ==
    last * One + (((NextUp(notes, last) - last) * One) \div 2) + HysteresisAmount

LowerThreshold(notes, last) ==
    last * One - (((last - NextDown(notes, last)) * One) \div 2) - HysteresisAmount

(* Mutant of IsHeld: the hysteresis is left out. *)
IsHeldBetweenMidpoints(notes, last, input) ==
    /\ IsSelected(notes, last)
    /\ LowerThreshold(notes, last) + HysteresisAmount <= input
    /\ input <= UpperThreshold(notes, last) - HysteresisAmount

\* The previous note is kept while it is in the scale and the input in its band.
IsHeld(notes, last, input) ==
    /\ IsSelected(notes, last)
    /\ LowerThreshold(notes, last) <= input
    /\ input <= UpperThreshold(notes, last)

\* The two candidates of the k-th round of the outward search. The first upper
\* one may lie above the range; later ones are clamped into it.
UpperBound(input, k) ==
    IF k = 0 THEN (input \div One) + 1
    ELSE Clamp((input \div One) + 1 + k, 0, MaxSemitone)

LowerBound(input, k) == Clamp((input \div One) - k, 0, MaxSemitone)

RoundsUp(input) == input % One >= One \div 2

Nearest(notes, input) ==
    LET Candidates(k) == {n \in {LowerBound(input, k), UpperBound(input, k)} :
                             IsSelected(notes, n)}
        found == Candidates(Min({k \in Semitone : Candidates(k) # {}}))
    IN  IF RoundsUp(input) THEN Max(found) ELSE Min(found)

Quantized(notes, last, input) ==
    IF notes = {} THEN 0
    ELSE IF IsHeld(notes, last, input) THEN last
    ELSE Nearest(notes, input)

\* What the next sample will take for the previous note.
Remembered(notes, note) == IF notes = {} THEN NoNote ELSE note
=============================================================================
