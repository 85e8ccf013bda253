------------------------------ MODULE Debouncer ------------------------------
(***************************************************************************)
(* The debouncing that push buttons and key ladder share                   *)
(* (ButtonDebouncer::sample, ButtonLadder::sample): a button has the       *)
(* levels down and up, the ladder one level per key and one for no key.    *)
(* One sample is taken in every tick of the control loop; ticks that       *)
(* Timer2 counted while the loop was busy make the time between two        *)
(* samples longer.                                                         *)
(***************************************************************************)
EXTENDS Integers, ButtonReports

CONSTANTS
  Level,   \* what a sample may read
  Rest,    \* the level of an untouched button or ladder
  Window,  \* debounceTimeMs_, kDebounceTimeMs
  MaxGap   \* bound: the most milliseconds between two samples

VARIABLES
  candidate,   \* candidate_
  debounced,   \* debounced_
  debouncing,  \* debouncing_
  age,         \* now - lastChangeTime_, while debouncing
  event,       \* the event returned
  stable       \* history: how long the samples have read what candidate is

debouncerVars == <<candidate, debounced, debouncing, age, event, stable>>

DebouncerInit ==
  /\ candidate = Rest /\ debounced = Rest /\ debouncing = FALSE /\ age = 0
  /\ event = "none" /\ stable = 0

(* Mutant of Steady: what is read now, accepted or not. *)
SteadyByCandidate == IF candidate = Rest THEN "none" ELSE "held"

(* The event of a sample that accepts nothing. *)
Steady == IF debounced = Rest THEN "none" ELSE "held"

(* A time that has outlived the window is as good as any longer one. *)
Capped(t) == IF t > Window THEN Window + 1 ELSE t

(* Mutant of Changed: the window is not started again by every bounce. *)
ChangedKeepsWindow(level, gap) ==
  /\ level # candidate
  /\ candidate' = level /\ debouncing' = TRUE /\ stable' = 0
  /\ age' = IF debouncing THEN Capped(age + gap) ELSE 0
  /\ event' = Steady
  /\ UNCHANGED debounced

Changed(level, gap) ==
  /\ level # candidate
  /\ candidate' = level /\ debouncing' = TRUE /\ age' = 0 /\ stable' = 0
  /\ event' = Steady
  /\ UNCHANGED debounced

Waiting(level, gap) ==
  /\ level = candidate
  /\ ~(debouncing /\ age + gap > Window)
  /\ age' = IF debouncing THEN age + gap ELSE 0
  /\ stable' = Capped(stable + gap)
  /\ event' = Steady
  /\ UNCHANGED <<candidate, debounced, debouncing>>

Accepted(level, gap) ==
  /\ level = candidate
  /\ debouncing /\ age + gap > Window
  /\ debounced' = candidate /\ debouncing' = FALSE /\ age' = 0
  /\ stable' = Capped(stable + gap)
  /\ event' = IF candidate = Rest THEN "released" ELSE "pressed"
  /\ UNCHANGED candidate

Sample(level, gap) ==
  Changed(level, gap) \/ Waiting(level, gap) \/ Accepted(level, gap)

DebouncerNext == \E level \in Level, gap \in 1 .. MaxGap : Sample(level, gap)

DebouncerSpec == DebouncerInit /\ [][DebouncerNext]_debouncerVars

-----------------------------------------------------------------------------
(* Every variable has its type. *)
DebouncerTypeOK ==
  /\ {candidate, debounced} \subseteq Level
  /\ debouncing \in BOOLEAN
  /\ age \in 0 .. Window + 1 /\ stable \in 0 .. Window + 1
  /\ event \in {"none", "held", "pressed", "released"}

(* However a contact bounces, a level is only taken over after all samples of
   more than a window have read it. *)
AcceptsStableLevels == [][debounced' # debounced => stable' > Window]_debouncerVars

(* A level that all samples of more than a window have read is taken over, what-
   ever bounces came before it: no change is forgotten. *)
StableLevelIsAccepted == stable > Window => debounced = candidate

(* The events come in an order the menu is ready for. *)
EventsFollow == [][event' \in KeyEvents(KeyDownAfter(event))]_debouncerVars

(* "Debouncing waits until the level has been stable for a configured window
   before accepting it, so contact bounce does not register as extra presses"
   (Button.h:23): a press is reported when the button was up, or was another. *)
BounceIsNoPress == [][event' = "pressed" => debounced' # debounced]_debouncerVars
=============================================================================
