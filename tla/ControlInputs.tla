---------------------------- MODULE ControlInputs ----------------------------
(***************************************************************************)
(* The inputs of a tick (ControlInputProcessor::sample) and the gesture    *)
(* that reads them before the menu does (updateUiLayerGesture): the key    *)
(* ladder, read as a voltage, and one of SAVE and LOAD, sampled at the     *)
(* same times and each debounced over its own window, and SHIFT, passed on *)
(* as it is read.  The page may also keep the gesture from being           *)
(* recognised.                                                             *)
(***************************************************************************)
EXTENDS UiLayerGesture, Integers

-----------------------------------------------------------------------------
(* ButtonLadder.cpp: which key a reading of the ladder's voltage means.  All keys
   hang on one input, each with a voltage of its own; at rest it is the highest.
   The scaling by the measured rest voltage is switched off for this board
   (kLadderUseRestNormalization). *)
CONSTANTS
  NoKey,            \* kLadderNoButton: the number of keys, and index of the rest
  ExpectedValues,   \* kLadderExpectedValues
  MinimumValidRest, \* kLadderMinimumValidRest
  AcceptanceDelta,  \* kLadderButtonAcceptanceDelta
  AdcMaximumCode    \* kAdcMaximumCode

Key  == 0 .. NoKey - 1
Code == 0 .. AdcMaximumCode

(* What AnalogConfig.h asserts, and what its table has beyond that: the spacing
   between all keys, not only the narrowest one, and a rest range above them. *)
ASSUME LadderAssumption ==
  /\ NoKey \in Nat
  /\ ExpectedValues \in [0 .. NoKey -> Nat]
  /\ {MinimumValidRest, AcceptanceDelta, AdcMaximumCode} \subseteq Nat
  /\ \A i, j \in 0 .. NoKey :
       i < j => ExpectedValues[i] + 2 * AcceptanceDelta < ExpectedValues[j]
  /\ \A k \in Key : ExpectedValues[k] + AcceptanceDelta < MinimumValidRest

Distance(code, index) ==
  IF code > ExpectedValues[index] THEN code - ExpectedValues[index]
  ELSE ExpectedValues[index] - code

(* Mutant of ClosestButtonIndex: the rest is no candidate of its own, and the
   scan goes on until a key is farther away. *)
ClosestKeyBelow(code) ==
  CHOOSE i \in 0 .. NoKey :
    /\ ExpectedValues[i] <= code
    /\ \A j \in 0 .. NoKey : j > i => ExpectedValues[j] > code

(* The scan starts from the rest and goes down, so that of two equally close
   values the higher one is taken. *)
ClosestButtonIndex(code) ==
  CHOOSE i \in 0 .. NoKey :
    \A j \in 0 .. NoKey :
      IF j > i THEN Distance(code, i) < Distance(code, j)
      ELSE Distance(code, i) <= Distance(code, j)

ButtonIndexForAdc(code) ==
  LET candidate == ClosestButtonIndex(code)
  IN  IF /\ code < MinimumValidRest
         /\ candidate \in Key
         /\ Distance(code, candidate) <= AcceptanceDelta
      THEN candidate ELSE NoKey

-----------------------------------------------------------------------------
(* The buttons that are sampled together. *)

CONSTANTS
  Readings,        \* codes the ladder's input may read
  LadderWindow,    \* kLadderDebounceMs
  ButtonWindow,    \* kDigitalDebounceMs
  LongPress        \* kLongPressMs

ASSUME InputAssumption ==
  Readings \subseteq Code /\ {LadderWindow, ButtonWindow, LongPress} \subseteq Nat

VARIABLES
  keyCandidate, keyDebounced, keyDebouncing, keyAge, keyEvent, keyStable,
  buttonCandidate, buttonDebounced, buttonDebouncing, buttonAge, buttonEvent,
  buttonStable, buttonWaiting, held, report,
  reading          \* history: the code of the ladder in the last sample

Ladder == INSTANCE Debouncer WITH
  Level <- Key \cup {NoKey}, Rest <- NoKey, Window <- LadderWindow, MaxGap <- MaxStep,
  candidate <- keyCandidate, debounced <- keyDebounced, debouncing <- keyDebouncing,
  age <- keyAge, event <- keyEvent, stable <- keyStable

Button == INSTANCE LongPressButton WITH
  Level <- {"up", "down"}, Rest <- "up", Window <- ButtonWindow, MaxGap <- MaxStep,
  candidate <- buttonCandidate, debounced <- buttonDebounced,
  debouncing <- buttonDebouncing, age <- buttonAge, event <- buttonEvent,
  stable <- buttonStable, waiting <- buttonWaiting

inputVars == <<vars, Ladder!debouncerVars, Button!buttonVars, reading>>

KeyRead == [code \in Readings |-> ButtonIndexForAdc(code)]

InputInit ==
  /\ Init /\ Ladder!DebouncerInit /\ Button!Init
  /\ reading \in Readings /\ KeyRead[reading] = NoKey

CompanionActive == keyCandidate # NoKey \/ Button!AsRead(report) # "up"

Sample(code, level, shift, step) ==
  /\ reading' = code
  /\ Ladder!Sample(KeyRead[code], step)
  /\ Button!SampleButton(level, step)
  /\ \E disturb \in BOOLEAN : (CompanionActive' => disturb) /\ Update(shift, disturb, step)

InputNext ==
  \E code \in Readings, level \in {"up", "down"}, shift \in BOOLEAN,
     step \in 1 .. MaxStep :
    Sample(code, level, shift, step)

InputSpec == InputInit /\ [][InputNext]_inputVars

-----------------------------------------------------------------------------
(* Every variable has its type. *)
InputTypeOK ==
  Ladder!DebouncerTypeOK /\ Button!DebouncerTypeOK /\ reading \in Readings

(* The debouncer looks at a key exactly while the voltage is close to that key's:
   no voltage between two keys or in the range of the rest, on its way from one
   to the other, is taken for a key, and none of a key for another. *)
KeysAreApart ==
  \A k \in Key : keyCandidate = k <=> Distance(reading, k) <= AcceptanceDelta

(* However contacts bounce, a level of the button or the ladder is taken over
   after all samples of more than its window have read it and never before; no
   change is forgotten, whatever bounces came before it on either control. *)
StableLevelsOnly ==
  /\ Button!AcceptsStableLevels /\ Ladder!AcceptsStableLevels
  /\ [](Button!StableLevelIsAccepted /\ Ladder!StableLevelIsAccepted)

(* The layer changes at the end of a clean double-click only, and in a tick that
   gives the menu nothing else to do: SHIFT up, no key pressed and neither SAVE
   nor LOAD down, as Menu's GestureTick has it. *)
GestureIsDeliberate ==
  /\ OnlyDoubleClicks
  /\ toggled => ~raw /\ keyEvent # "pressed" /\ Button!AsRead(report) = "up"

(* The reports come in an order the menu is ready for: held only after a press,
   long only after short, one long-press event for each press, and the events of
   the ladder likewise. *)
ReportsFollow ==
  Button!ReportsFollow /\ Button!LongPressFiresOnce /\ Ladder!EventsFollow
=============================================================================
