---------------------------- MODULE UiLayerGesture ----------------------------
(***************************************************************************)
(* The recogniser of the SHIFT double-click that changes the UI layer      *)
(* (UiLayerGesture::update), with times counted in milliseconds.  What it  *)
(* recognises is compared with clicks that a history variable follows on   *)
(* the debounced SHIFT level alone.                                        *)
(***************************************************************************)
EXTENDS Integers

CONSTANTS
  Debounce,  \* kUiLayerDoubleClickDebounceMs
  MaxPress,  \* kUiLayerDoubleClickMaxPressMs
  Gap,       \* kUiLayerDoubleClickGapMs
  MaxStep    \* bound: the most milliseconds between two updates

ASSUME GestureAssumption ==
  /\ {Debounce, MaxStep} \subseteq Nat \ {0}
  /\ {MaxPress, Gap} \subseteq Nat /\ MaxPress >= Debounce

VARIABLES
  raw,         \* rawShiftPressed_
  debounced,   \* debouncedShiftPressed_
  waiting,     \* waitingForSecondClick_
  isSecond,    \* currentPressIsSecond_
  invalid,     \* currentPressInvalid_
  suppress,    \* suppressUntilRelease_
  rawAge,      \* now - rawChangedMs_
  pressAge,    \* now - pressStartedMs_
  releaseAge,  \* now - firstClickReleasedMs_
  toggled,     \* the update returned ToggleLayer
  clicks       \* history: the clicks so far

vars == <<raw, debounced, waiting, isSecond, invalid, suppress,
          rawAge, pressAge, releaseAge, toggled, clicks>>

AtMost(bound, t) == IF t > bound THEN bound ELSE t

(* Ages are followed as far as anything depends on them. *)
RawBound     == Debounce + MaxStep
PressBound   == MaxPress + 1
ReleaseBound == Gap + RawBound + 1

(* clean: nothing but SHIFT was touched, on the main page, since this press.
   inTime: this press came within Gap after the last release, since ago.
   counted: the click before it was short and clean and toggled nothing, and
   nothing was touched since.  double: this update ends a clean double-click.  isolated: all was at
   rest for longer than Gap before its first click; quiet: for how long. *)
Init ==
  /\ raw = FALSE /\ debounced = FALSE /\ waiting = FALSE
  /\ isSecond = FALSE /\ invalid = FALSE /\ suppress = FALSE
  /\ rawAge = RawBound /\ pressAge = 0 /\ releaseAge = ReleaseBound
  /\ toggled = FALSE
  /\ clicks = [clean |-> FALSE, inTime |-> FALSE, since |-> ReleaseBound,
               counted |-> FALSE, double |-> FALSE, isolated |-> FALSE, quiet |-> 0]

-----------------------------------------------------------------------------
(* One update with the SHIFT level, disturb for a companion control or a page
   other than the main page, and the milliseconds since the last one. *)

RawAge(shift, step) == IF shift # raw THEN 0 ELSE AtMost(RawBound, rawAge + step)
PressAge(step)      == AtMost(PressBound, pressAge + step)
ReleaseAge(step)    == AtMost(ReleaseBound, releaseAge + step)

Suppressed(shift, disturb) == suppress \/ (disturb /\ (shift \/ debounced))

(* Mutant of StillWaiting: a lone click waits although controls are touched. *)
StillWaitingDisturbed(shift, disturb, step) ==
  waiting /\ (shift \/ ReleaseAge(step) <= Gap)

(* The first click is neither disturbed nor too long ago. *)
StillWaiting(shift, disturb, step) ==
  waiting /\ ~disturb /\ (shift \/ ReleaseAge(step) <= Gap)

LevelAccepted(shift, step) == shift # debounced /\ RawAge(shift, step) >= Debounce

NoEdge(shift, disturb, step) ==
  /\ ~LevelAccepted(shift, step)
  /\ waiting' = StillWaiting(shift, disturb, step)
  /\ isSecond' = (isSecond /\ ~disturb)
  /\ invalid' = (invalid \/ (disturb /\ (shift \/ debounced)))
  /\ suppress' = Suppressed(shift, disturb)
  /\ debounced' = debounced
  /\ pressAge' = IF debounced THEN PressAge(step) ELSE 0
  /\ releaseAge' = ReleaseAge(step)
  /\ toggled' = FALSE

Press(shift, disturb, step) ==
  /\ shift /\ LevelAccepted(shift, step)
  /\ debounced' = TRUE
  /\ isSecond' = /\ StillWaiting(shift, disturb, step)
                 /\ ReleaseAge(step) - RawAge(shift, step) <= Gap
  /\ waiting' = isSecond'
  /\ invalid' = (invalid \/ disturb)
  /\ suppress' = Suppressed(shift, disturb)
  /\ pressAge' = 0
  /\ releaseAge' = ReleaseAge(step)
  /\ toggled' = FALSE

Release(shift, disturb, step) ==
  /\ ~shift /\ LevelAccepted(shift, step)
  /\ LET click  == ~Suppressed(shift, disturb) /\ ~invalid /\ PressAge(step) <= MaxPress
         second == isSecond
     IN  /\ toggled' = (click /\ second)
         /\ waiting' = (click /\ ~second)
         /\ releaseAge' = IF click /\ ~second THEN 0 ELSE ReleaseAge(step)
  /\ debounced' = FALSE /\ isSecond' = FALSE
  /\ invalid' = FALSE /\ suppress' = FALSE
  /\ pressAge' = 0

(* The history, from SHIFT and the disturbances alone. *)
FollowClicks(shift, disturb, step) ==
  LET begins  == shift /\ ~raw /\ ~debounced
      clean   == ~disturb /\ (begins \/ clicks.clean)
      pressed == debounced' /\ ~debounced
      ended   == debounced /\ ~debounced'
      since   == AtMost(ReleaseBound, clicks.since + step)
      click   == ended /\ clean /\ PressAge(step) <= MaxPress
      double  == click /\ clicks.counted /\ clicks.inTime
  IN  clicks' =
        [clean    |-> clean,
         inTime   |-> IF pressed THEN since - RawAge(shift, step) <= Gap
                      ELSE clicks.inTime,
         since    |-> IF ended THEN 0 ELSE since,
         counted  |-> IF ended THEN click /\ ~toggled' ELSE clicks.counted /\ ~disturb,
         double   |-> double,
         isolated |-> IF begins /\ ~clicks.counted THEN clicks.quiet > Gap
                      ELSE clicks.isolated,
         quiet    |-> IF shift \/ disturb THEN 0 ELSE AtMost(Gap + 1, clicks.quiet + step)]

Update(shift, disturb, step) ==
  /\ raw' = shift /\ rawAge' = RawAge(shift, step)
  /\ \/ NoEdge(shift, disturb, step)
     \/ Press(shift, disturb, step)
     \/ Release(shift, disturb, step)
  /\ FollowClicks(shift, disturb, step)

-----------------------------------------------------------------------------
(* "only emits ToggleLayer after two short, clean SHIFT clicks. Any note, SAVE
   or LOAD activity cancels the pending sequence" (UiLayerGesture.h:24), and a
   third click does not toggle again: what is recognised is a clean
   double-click of the history, whatever bounced in between. *)
OnlyDoubleClicks == toggled => clicks.double

(* "Double-click **SHIFT by itself** to switch ... Both clicks must be short; the
   second press must begin within 350 ms of the first release" (README.md:325):
   a clean double-click out of rest is recognised. *)
DoubleClicksToggle == clicks.double /\ clicks.isolated => toggled
=============================================================================
