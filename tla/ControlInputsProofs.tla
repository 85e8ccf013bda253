------------------------- MODULE ControlInputsProofs -------------------------
(***************************************************************************)
(* The front-panel inputs, proved for every table of ladder voltages that  *)
(* keeps its distances, with every code as input, for windows and limits   *)
(* of any length and samples at any distance: a voltage is one key or      *)
(* none, the debouncers take over stable levels and all of them, the menu  *)
(* is told a possible story, and only deliberate double-clicks switch the  *)
(* layer.                                                                  *)
(***************************************************************************)
EXTENDS ControlInputs, TLAPS

LEMMA DistanceType ==
  ASSUME NEW code \in Code, NEW i \in 0 .. NoKey
  PROVE  Distance(code, i) \in Nat
BY LadderAssumption DEF Distance, Code

(* A reading within the acceptance of a key is farther from every other value. *)
LEMMA OthersAreFarther ==
  ASSUME NEW code \in Code, NEW k \in Key, Distance(code, k) <= AcceptanceDelta,
         NEW j \in 0 .. NoKey, j # k
  PROVE  Distance(code, k) < Distance(code, j)
<1>1. /\ k \in 0 .. NoKey /\ {NoKey, code, AcceptanceDelta} \subseteq Nat
      /\ {ExpectedValues[k], ExpectedValues[j]} \subseteq Nat
  BY LadderAssumption DEF Key, Code
<1>2. \/ ExpectedValues[k] + 2 * AcceptanceDelta < ExpectedValues[j]
      \/ ExpectedValues[j] + 2 * AcceptanceDelta < ExpectedValues[k]
  <2>1. j < k \/ k < j  BY <1>1
  <2> QED  BY <1>1, <2>1, LadderAssumption
<1> QED  BY <1>1, <1>2 DEF Distance

(* So the scan ends at that key. *)
LEMMA ClosestIsTheKey ==
  ASSUME NEW code \in Code, NEW k \in Key, Distance(code, k) <= AcceptanceDelta
  PROVE  ClosestButtonIndex(code) = k
<1> DEFINE IsClosest(i) ==
      \A j \in 0 .. NoKey :
        IF j > i THEN Distance(code, i) < Distance(code, j)
        ELSE Distance(code, i) <= Distance(code, j)
<1>1. k \in 0 .. NoKey  BY LadderAssumption DEF Key
<1>2. IsClosest(k)
  <2> SUFFICES ASSUME NEW j \in 0 .. NoKey
               PROVE  IF j > k THEN Distance(code, k) < Distance(code, j)
                      ELSE Distance(code, k) <= Distance(code, j)
    OBVIOUS
  <2>1. Distance(code, k) \in Nat /\ Distance(code, j) \in Nat
    BY <1>1, DistanceType
  <2>2. CASE j = k
    BY <1>1, <2>1, <2>2, LadderAssumption
  <2>3. CASE j # k
    <3>1. Distance(code, k) < Distance(code, j)  BY <2>3, OthersAreFarther
    <3> QED  BY <2>1, <3>1
  <2> QED  BY <2>2, <2>3
<1>3. ASSUME NEW i \in 0 .. NoKey, IsClosest(i)  PROVE i = k
  <2> SUFFICES ASSUME i # k  PROVE FALSE
    OBVIOUS
  <2>1. Distance(code, k) < Distance(code, i)  BY OthersAreFarther
  <2>2. Distance(code, k) \in Nat /\ Distance(code, i) \in Nat
    BY <1>1, DistanceType
  <2>3. Distance(code, i) <= Distance(code, k)  BY <1>1, <1>3, <2>2
  <2> QED  BY <2>1, <2>2, <2>3
<1>4. ClosestButtonIndex(code) = CHOOSE i \in 0 .. NoKey : IsClosest(i)
  BY DEF ClosestButtonIndex
<1> QED  BY <1>1, <1>2, <1>3, <1>4

(* A reading within the acceptance of a key is decoded as that key and any other
   reading is not. *)
LEMMA LadderDecodes ==
  ASSUME NEW code \in Code, NEW k \in Key
  PROVE  ButtonIndexForAdc(code) = k <=> Distance(code, k) <= AcceptanceDelta
<1>1. k # NoKey /\ k \in 0 .. NoKey  BY LadderAssumption DEF Key
<1>2. ASSUME ButtonIndexForAdc(code) = k  PROVE Distance(code, k) <= AcceptanceDelta
  BY <1>1, <1>2 DEF ButtonIndexForAdc
<1>3. ASSUME Distance(code, k) <= AcceptanceDelta  PROVE ButtonIndexForAdc(code) = k
  <2>1. ClosestButtonIndex(code) = k  BY <1>3, ClosestIsTheKey
  <2>2. code < MinimumValidRest
    <3>1. ExpectedValues[k] + AcceptanceDelta < MinimumValidRest
      BY LadderAssumption
    <3>2. {code, ExpectedValues[k], AcceptanceDelta, MinimumValidRest} \subseteq Nat
      BY <1>1, LadderAssumption DEF Code
    <3> QED  BY <1>3, <3>1, <3>2 DEF Distance
  <2> QED  BY <1>3, <2>1, <2>2 DEF ButtonIndexForAdc
<1> QED  BY <1>2, <1>3

-----------------------------------------------------------------------------
(* The debouncer's candidate follows every sample, whatever it is doing. *)
LEMMA CandidateFollows ==
  ASSUME NEW level, NEW gap, Ladder!Sample(level, gap)
  PROVE  keyCandidate' = level
BY DEF Ladder!Sample, Ladder!Changed, Ladder!Waiting, Ladder!Accepted

(* What the candidate means in terms of the code it came from. *)
CandidateIsRead ==
  reading \in Readings /\ keyCandidate = ButtonIndexForAdc(reading)

LEMMA CandidateIsReadAlways == InputSpec => []CandidateIsRead
<1>1. InputInit => CandidateIsRead
  BY DEF InputInit, CandidateIsRead, KeyRead, Ladder!DebouncerInit
<1>2. CandidateIsRead /\ [InputNext]_inputVars => CandidateIsRead'
  <2> SUFFICES ASSUME CandidateIsRead, [InputNext]_inputVars
               PROVE  CandidateIsRead'
    OBVIOUS
  <2>1. CASE InputNext
    <3>1. PICK code \in Readings, level \in {"up", "down"}, shift \in BOOLEAN,
               step \in 1 .. MaxStep : Sample(code, level, shift, step)
      BY <2>1 DEF InputNext
    <3>2. reading' = code /\ Ladder!Sample(KeyRead[code], step)
      BY <3>1 DEF Sample
    <3>3. keyCandidate' = KeyRead[code]  BY <3>2, CandidateFollows
    <3> QED  BY <3>2, <3>3 DEF CandidateIsRead, KeyRead
  <2>2. CASE UNCHANGED inputVars
    BY <2>2 DEF CandidateIsRead, inputVars, Ladder!debouncerVars
  <2> QED  BY <2>1, <2>2
<1> QED  BY <1>1, <1>2, PTL DEF InputSpec

(* Readings and keys: whatever the table, as long as it keeps its distances, and
   whatever the voltage does, the debouncer looks at a key exactly while the
   reading is within the acceptance of that key. *)
THEOREM KeysAreApartAlways == InputSpec => []KeysAreApart
<1>1. CandidateIsRead => KeysAreApart
  BY InputAssumption, LadderDecodes DEF CandidateIsRead, KeysAreApart
<1> QED  BY <1>1, CandidateIsReadAlways, PTL

-----------------------------------------------------------------------------
(***************************************************************************)
(* Debouncing                                                              *)
(***************************************************************************)

(* While a level waits to be accepted, it has been read for as long as the window
   has run, which is not over; otherwise it is accepted.  The last event tells
   whether the accepted level is the rest. *)
LadderInv ==
  /\ keyDebouncing \in BOOLEAN /\ {keyAge, keyStable} \subseteq Nat
  /\ keyDebouncing => keyStable = keyAge /\ keyAge <= LadderWindow
  /\ ~keyDebouncing => keyDebounced = keyCandidate
  /\ keyEvent \in {"none", "held", "pressed", "released"}
  /\ Ladder!KeyDownAfter(keyEvent) <=> keyDebounced # NoKey

ContactInv ==
  /\ buttonDebouncing \in BOOLEAN /\ {buttonAge, buttonStable} \subseteq Nat
  /\ buttonDebouncing => buttonStable = buttonAge /\ buttonAge <= ButtonWindow
  /\ ~buttonDebouncing => buttonDebounced = buttonCandidate
  /\ buttonEvent \in {"none", "held", "pressed", "released"}
  /\ Button!KeyDownAfter(buttonEvent) <=> buttonDebounced # "up"

(* What one sample does to it: it is kept, a level is accepted only when it has
   been stable, and the event fits the one before. *)
LEMMA LadderSample ==
  ASSUME LadderInv, NEW level, NEW gap \in 1 .. MaxStep, Ladder!Sample(level, gap)
  PROVE  /\ LadderInv'
         /\ keyDebounced' # keyDebounced => keyStable' > LadderWindow
         /\ keyEvent' \in Ladder!KeyEvents(Ladder!KeyDownAfter(keyEvent))
<1> USE InputAssumption, GestureAssumption
        DEF LadderInv, Ladder!KeyDownAfter, Ladder!KeyEvents, Ladder!Steady, Ladder!Capped
<1>1. CASE Ladder!Changed(level, gap)  BY <1>1 DEF Ladder!Changed
<1>2. CASE Ladder!Waiting(level, gap)  BY <1>2 DEF Ladder!Waiting
<1>3. CASE Ladder!Accepted(level, gap)
  <2>1. gap \in Nat /\ LadderWindow \in Nat  OBVIOUS
  <2>2. keyStable' = LadderWindow + 1  BY <1>3, <2>1 DEF Ladder!Accepted
  <2>3. LadderInv'
    <3>1. /\ keyDebouncing' = FALSE /\ {keyAge', keyStable'} \subseteq Nat
          /\ keyDebounced' = keyCandidate'
      BY <1>3, <2>1, <2>2 DEF Ladder!Accepted
    <3>2. /\ keyEvent' \in {"none", "held", "pressed", "released"}
          /\ Ladder!KeyDownAfter(keyEvent') <=> keyDebounced' # NoKey
      BY <1>3 DEF Ladder!Accepted
    <3> QED  BY <3>1, <3>2
  <2> QED  BY <1>3, <2>1, <2>2, <2>3 DEF Ladder!Accepted
<1> QED  BY <1>1, <1>2, <1>3 DEF Ladder!Sample

LEMMA ContactSample ==
  ASSUME ContactInv, NEW level, NEW gap \in 1 .. MaxStep, Button!Sample(level, gap)
  PROVE  /\ ContactInv'
         /\ buttonDebounced' # buttonDebounced => buttonStable' > ButtonWindow
         /\ buttonEvent' \in Button!KeyEvents(Button!KeyDownAfter(buttonEvent))
<1> USE InputAssumption, GestureAssumption
        DEF ContactInv, Button!KeyDownAfter, Button!KeyEvents, Button!Steady, Button!Capped
<1>1. CASE Button!Changed(level, gap)  BY <1>1 DEF Button!Changed
<1>2. CASE Button!Waiting(level, gap)  BY <1>2 DEF Button!Waiting
<1>3. CASE Button!Accepted(level, gap)
  <2>1. gap \in Nat /\ ButtonWindow \in Nat  OBVIOUS
  <2>2. buttonStable' = ButtonWindow + 1  BY <1>3, <2>1 DEF Button!Accepted
  <2>3. ContactInv'
    <3>1. /\ buttonDebouncing' = FALSE /\ {buttonAge', buttonStable'} \subseteq Nat
          /\ buttonDebounced' = buttonCandidate'
      BY <1>3, <2>1, <2>2 DEF Button!Accepted
    <3>2. /\ buttonEvent' \in {"none", "held", "pressed", "released"}
          /\ Button!KeyDownAfter(buttonEvent') <=> buttonDebounced' # "up"
      BY <1>3 DEF Button!Accepted
    <3> QED  BY <3>1, <3>2
  <2> QED  BY <1>3, <2>1, <2>2, <2>3 DEF Button!Accepted
<1> QED  BY <1>1, <1>2, <1>3 DEF Button!Sample

(* What the long-press logic has reported for the last event; a long press is not
   waited for any more once it is reported. *)
ReportInv ==
  /\ buttonWaiting \in BOOLEAN
  /\ CASE buttonEvent = "pressed"  -> report = "justDown"
       [] buttonEvent = "held"     -> report \in {"clickedLong", "heldShort", "heldLong"}
       [] buttonEvent = "released" -> report \in {"clickedShort", "releasedLong"}
       [] buttonEvent = "none"     -> report = "isUp"
  /\ report \in {"clickedLong", "heldLong"} => ~buttonWaiting

LEMMA ReportSample ==
  ASSUME ContactInv, ReportInv, NEW level, NEW gap \in 1 .. MaxStep,
         Button!SampleButton(level, gap)
  PROVE  /\ ReportInv'
         /\ Button!AsRead(report') \in Button!Reports(Button!After(Button!AsRead(report)))
         /\ report' = "clickedLong" => report \in {"justDown", "heldShort"}
<1> USE DEF ContactInv, ReportInv, Button!KeyDownAfter, Button!KeyEvents
<1>1. buttonEvent' \in Button!KeyEvents(Button!KeyDownAfter(buttonEvent))
  BY ContactSample DEF Button!SampleButton
<1>2. CASE Button!HeldDown(gap)
  <2>1. buttonEvent \in {"pressed", "held"}
    BY <1>1, <1>2 DEF Button!HeldDown
  <2>2. report \in {"justDown", "clickedLong", "heldShort", "heldLong"}
    BY <2>1
  <2>3. CASE buttonWaiting
    <3>1. report \in {"justDown", "heldShort"}  BY <2>2, <2>3
    <3>2. \/ report' = "clickedLong" /\ buttonWaiting' = FALSE
          \/ report' = "heldShort" /\ buttonWaiting' = TRUE
      BY <1>2, <2>3 DEF Button!HeldDown
    <3> QED
      BY <1>2, <3>1, <3>2
         DEF Button!HeldDown, Button!AsRead, Button!Reports, Button!After
  <2>4. CASE ~buttonWaiting
    <3>1. report' = "heldLong" /\ buttonWaiting' = FALSE
      BY <1>2, <2>4 DEF Button!HeldDown
    <3>2. report \in {"justDown", "clickedLong", "heldLong", "heldShort"}  BY <2>2
    <3> QED
      BY <1>2, <3>1, <3>2
         DEF Button!HeldDown, Button!AsRead, Button!Reports, Button!After
  <2> QED  BY <2>3, <2>4
<1>3. CASE Button!JustPressed
  BY <1>3 DEF Button!JustPressed, Button!AsRead, Button!Reports
<1>4. CASE Button!JustReleased \/ Button!IsUp
  <2>1. \/ buttonEvent' = "released" /\ report' \in {"clickedShort", "releasedLong"}
        \/ buttonEvent' = "none" /\ report' = "isUp"
    BY <1>4 DEF Button!JustReleased, Button!IsUp
  <2>2. buttonWaiting' = buttonWaiting
    BY <1>4 DEF Button!JustReleased, Button!IsUp
  <2>3. ReportInv'  BY <2>1, <2>2
  <2>4. Button!AsRead(report') = "up"  BY <2>1 DEF Button!AsRead
  <2>5. "up" \in Button!Reports(Button!After(Button!AsRead(report)))
    BY DEF Button!AsRead, Button!Reports, Button!After
  <2> QED  BY <2>1, <2>3, <2>4, <2>5
<1> QED  BY <1>2, <1>3, <1>4 DEF Button!SampleButton

-----------------------------------------------------------------------------
(***************************************************************************)
(* The double-click                                                        *)
(***************************************************************************)

FlagsTyped ==
  /\ {raw, debounced, waiting, isSecond, invalid, suppress, toggled} \subseteq BOOLEAN
  /\ clicks \in [clean: BOOLEAN, inTime: BOOLEAN, since: Nat, counted: BOOLEAN,
                 double: BOOLEAN, isolated: BOOLEAN, quiet: Nat]
  /\ {rawAge, pressAge, releaseAge} \subseteq Nat

(* A press that nothing suppresses is a clean one; a first click that is waited
   for has been counted, and its age is known; a press taken for the second of two
   clicks came in time after a click that counts.  The recogniser may forget more
   than the history does, never less. *)
GestureInv ==
  /\ FlagsTyped
  /\ (raw \/ debounced) /\ ~suppress => clicks.clean
  /\ waiting => clicks.counted /\ clicks.since = releaseAge
  /\ isSecond => clicks.counted /\ clicks.inTime
  /\ OnlyDoubleClicks

LEMMA FlagsStayTyped ==
  ASSUME GestureInv, NEW shift \in BOOLEAN, NEW disturb \in BOOLEAN,
         NEW step \in 1 .. MaxStep, Update(shift, disturb, step)
  PROVE  FlagsTyped'
<1> USE GestureAssumption DEF GestureInv, FlagsTyped
<1>1. /\ RawAge(shift, step) \in Nat /\ PressAge(step) \in Nat
      /\ ReleaseAge(step) \in Nat /\ {Gap, ReleaseBound} \subseteq Nat
      /\ AtMost(ReleaseBound, clicks.since + step) \in Nat
      /\ AtMost(Gap + 1, clicks.quiet + step) \in Nat
  BY DEF RawAge, PressAge, ReleaseAge, AtMost, RawBound, PressBound, ReleaseBound
<1>2. raw' \in BOOLEAN /\ rawAge' \in Nat  BY <1>1 DEF Update
<1>3. {pressAge', releaseAge'} \subseteq Nat
  <2>1. pressAge' \in {0, PressAge(step)} /\ releaseAge' \in {0, ReleaseAge(step)}
    BY DEF Update, NoEdge, Press, Release
  <2> QED  BY <1>1, <2>1
<1>4. /\ StillWaiting(shift, disturb, step) \in BOOLEAN
      /\ Suppressed(shift, disturb) \in BOOLEAN
  BY DEF StillWaiting, Suppressed
<1>5. {debounced', waiting', isSecond', invalid', suppress', toggled'} \subseteq BOOLEAN
  <2>1. CASE NoEdge(shift, disturb, step)  BY <1>4, <2>1 DEF NoEdge
  <2>2. CASE Press(shift, disturb, step)  BY <1>4, <2>2 DEF Press
  <2>3. CASE Release(shift, disturb, step)  BY <2>3 DEF Release
  <2> QED  BY <2>1, <2>2, <2>3 DEF Update
<1>6. clicks' \in [clean: BOOLEAN, inTime: BOOLEAN, since: Nat, counted: BOOLEAN,
                   double: BOOLEAN, isolated: BOOLEAN, quiet: Nat]
  <2> DEFINE begins  == shift /\ ~raw /\ ~debounced
             clean   == ~disturb /\ (begins \/ clicks.clean)
             pressed == debounced' /\ ~debounced
             ended   == debounced /\ ~debounced'
             since   == AtMost(ReleaseBound, clicks.since + step)
             click   == ended /\ clean /\ PressAge(step) <= MaxPress
             double  == click /\ clicks.counted /\ clicks.inTime
             in      == IF pressed THEN since - RawAge(shift, step) <= Gap
                        ELSE clicks.inTime
             si      == IF ended THEN 0 ELSE since
             co      == IF ended THEN click /\ ~toggled'
                        ELSE clicks.counted /\ ~disturb
             is      == IF begins /\ ~clicks.counted THEN clicks.quiet > Gap
                        ELSE clicks.isolated
             qu      == IF shift \/ disturb THEN 0
                        ELSE AtMost(Gap + 1, clicks.quiet + step)
  <2>1. clicks' = [clean |-> clean, inTime |-> in, since |-> si, counted |-> co,
                   double |-> double, isolated |-> is, quiet |-> qu]
    BY DEF Update, FollowClicks
  <2>2. clean \in BOOLEAN /\ double \in BOOLEAN  OBVIOUS
  <2>3. in \in BOOLEAN
    <3>1. (since - RawAge(shift, step) <= Gap) \in BOOLEAN  OBVIOUS
    <3> QED  BY <3>1
  <2>4. co \in BOOLEAN
    <3>1. /\ (click /\ ~toggled') \in BOOLEAN
          /\ (clicks.counted /\ ~disturb) \in BOOLEAN
      OBVIOUS
    <3> QED  BY <3>1
  <2>5. is \in BOOLEAN
    <3>1. (clicks.quiet > Gap) \in BOOLEAN  OBVIOUS
    <3> QED  BY <3>1
  <2>6. si \in Nat /\ qu \in Nat  BY <1>1
  <2> HIDE DEF clean, in, co, double, is, si, qu
  <2> QED  BY <2>1, <2>2, <2>3, <2>4, <2>5, <2>6
<1> QED  BY <1>2, <1>3, <1>5, <1>6

LEMMA GestureStep ==
  ASSUME GestureInv, NEW shift \in BOOLEAN, NEW disturb \in BOOLEAN,
         NEW step \in 1 .. MaxStep, Update(shift, disturb, step)
  PROVE  GestureInv' /\ (toggled' => ~shift /\ ~disturb)
<1> USE DEF GestureInv, FlagsTyped
<1>1. FlagsTyped'  BY FlagsStayTyped
<1>2. raw' = shift  BY DEF Update
<1>3. /\ clicks'.clean = (~disturb /\ ((shift /\ ~raw /\ ~debounced) \/ clicks.clean))
      /\ clicks'.inTime = IF debounced' /\ ~debounced
                          THEN AtMost(ReleaseBound, clicks.since + step)
                                 - RawAge(shift, step) <= Gap
                          ELSE clicks.inTime
      /\ clicks'.since = IF debounced /\ ~debounced' THEN 0
                         ELSE AtMost(ReleaseBound, clicks.since + step)
  BY DEF Update, FollowClicks
<1>4. /\ ~(debounced /\ ~debounced') => clicks'.counted = (clicks.counted /\ ~disturb)
      /\ debounced /\ ~debounced' /\ ~disturb /\ clicks.clean /\ PressAge(step) <= MaxPress
           => /\ clicks'.counted = ~toggled'
              /\ clicks'.double = (clicks.counted /\ clicks.inTime)
  BY DEF Update, FollowClicks
<1>5. waiting => AtMost(ReleaseBound, clicks.since + step) = ReleaseAge(step)
  BY DEF ReleaseAge
<1>6. CASE NoEdge(shift, disturb, step)
  <2>1. debounced' = debounced /\ toggled' = FALSE  BY <1>6 DEF NoEdge
  <2>2. (raw' \/ debounced') /\ ~suppress' => clicks'.clean
    <3> SUFFICES ASSUME shift \/ debounced, ~suppress'  PROVE clicks'.clean
      BY <1>2, <2>1
    <3>1. ~suppress /\ ~disturb  BY <1>6 DEF NoEdge, Suppressed
    <3> QED  BY <1>3, <3>1
  <2>3. waiting' => waiting /\ ~disturb  BY <1>6 DEF NoEdge, StillWaiting
  <2>4. waiting' => clicks'.counted /\ clicks'.since = releaseAge'
    BY <1>3, <1>4, <1>5, <1>6, <2>1, <2>3 DEF NoEdge
  <2>5. isSecond' => clicks'.counted /\ clicks'.inTime
    BY <1>3, <1>4, <1>6, <2>1 DEF NoEdge
  <2> QED  BY <1>1, <2>1, <2>2, <2>4, <2>5 DEF OnlyDoubleClicks
<1>7. CASE Press(shift, disturb, step)
  <2>1. shift /\ ~debounced /\ debounced' /\ toggled' = FALSE
    BY <1>7 DEF Press, LevelAccepted
  <2>2. (raw' \/ debounced') /\ ~suppress' => clicks'.clean
    <3> SUFFICES ASSUME ~suppress'  PROVE clicks'.clean
      OBVIOUS
    <3>1. ~suppress /\ ~disturb  BY <1>7, <2>1 DEF Press, Suppressed
    <3> QED  BY <1>3, <2>1, <3>1
  <2>3. isSecond' => /\ waiting /\ ~disturb
                     /\ ReleaseAge(step) - RawAge(shift, step) <= Gap
    BY <1>7 DEF Press, StillWaiting
  <2>4. isSecond' => clicks'.counted /\ clicks'.inTime /\ clicks'.since = releaseAge'
    BY <1>3, <1>4, <1>5, <1>7, <2>1, <2>3 DEF Press
  <2>5. waiting' = isSecond'  BY <1>7 DEF Press
  <2> QED  BY <1>1, <2>1, <2>2, <2>4, <2>5 DEF OnlyDoubleClicks
<1>8. CASE Release(shift, disturb, step)
  <2>1. ~shift /\ debounced /\ debounced' = FALSE /\ isSecond' = FALSE
    BY <1>8 DEF Release, LevelAccepted
  <2> DEFINE click == /\ ~Suppressed(shift, disturb) /\ ~invalid
                      /\ PressAge(step) <= MaxPress
  <2>2. /\ toggled' = (click /\ isSecond) /\ waiting' = (click /\ ~isSecond)
        /\ click /\ ~isSecond => releaseAge' = 0
    BY <1>8 DEF Release
  <2>3. click => ~disturb /\ clicks.clean /\ PressAge(step) <= MaxPress
    BY <2>1 DEF Suppressed
  <2> HIDE DEF click
  <2>4. toggled' => click /\ isSecond  BY <2>2
  <2>5. toggled' => clicks'.double  BY <1>4, <2>1, <2>3, <2>4
  <2>6. waiting' => click /\ ~toggled'  BY <2>2
  <2>7. waiting' => clicks'.counted /\ clicks'.since = releaseAge'
    BY <1>3, <1>4, <2>1, <2>2, <2>3, <2>6
  <2> QED  BY <1>1, <1>2, <2>1, <2>3, <2>4, <2>5, <2>7 DEF OnlyDoubleClicks
<1> QED  BY <1>6, <1>7, <1>8 DEF Update

-----------------------------------------------------------------------------
(***************************************************************************)
(* The three together                                                      *)
(***************************************************************************)

InputInv ==
  /\ LadderInv /\ ContactInv /\ ReportInv /\ GestureInv
  /\ GestureIsDeliberate

LEMMA InputInvInit == InputInit => InputInv
<1> SUFFICES ASSUME InputInit  PROVE InputInv
  OBVIOUS
<1> USE DEF InputInit
<1>1. LadderInv
  <2>1. {keyAge, keyStable} \subseteq Nat /\ keyDebouncing = FALSE
    BY DEF Ladder!DebouncerInit
  <2> QED  BY <2>1 DEF LadderInv, Ladder!DebouncerInit, Ladder!KeyDownAfter
<1>2. ContactInv
  <2>1. {buttonAge, buttonStable} \subseteq Nat /\ buttonDebouncing = FALSE
    BY DEF Button!Init, Button!DebouncerInit
  <2> QED
    BY <2>1 DEF ContactInv, Button!Init, Button!DebouncerInit, Button!KeyDownAfter
<1>3. ReportInv
  BY DEF ReportInv, Button!Init, Button!DebouncerInit
<1>4. /\ FlagsTyped /\ toggled = FALSE /\ waiting = FALSE /\ isSecond = FALSE
      /\ raw = FALSE /\ debounced = FALSE
  <2>1. RawBound \in Nat /\ ReleaseBound \in Nat /\ 0 \in Nat
    BY GestureAssumption DEF RawBound, ReleaseBound
  <2> QED  BY <2>1 DEF Init, FlagsTyped
<1>5. GestureInv /\ GestureIsDeliberate
  BY <1>4 DEF GestureInv, GestureIsDeliberate, OnlyDoubleClicks
<1> QED  BY <1>1, <1>2, <1>3, <1>5 DEF InputInv

(* What a sample does to all of them. *)
LEMMA InputStep ==
  ASSUME InputInv, InputNext
  PROVE  /\ InputInv'
         /\ keyDebounced' # keyDebounced => keyStable' > LadderWindow
         /\ buttonDebounced' # buttonDebounced => buttonStable' > ButtonWindow
         /\ keyEvent' \in Ladder!KeyEvents(Ladder!KeyDownAfter(keyEvent))
         /\ Button!AsRead(report') \in Button!Reports(Button!After(Button!AsRead(report)))
         /\ report' = "clickedLong" => report \in {"justDown", "heldShort"}
<1>1. PICK code \in Readings, level \in {"up", "down"}, shift \in BOOLEAN,
           step \in 1 .. MaxStep : Sample(code, level, shift, step)
  BY DEF InputNext
<1>2. PICK disturb \in BOOLEAN : (CompanionActive' => disturb) /\ Update(shift, disturb, step)
  BY <1>1 DEF Sample
<1>3. Ladder!Sample(KeyRead[code], step) /\ Button!SampleButton(level, step)
  BY <1>1 DEF Sample
<1>4. Button!Sample(level, step)  BY <1>3 DEF Button!SampleButton
<1>5. GestureInv' /\ (toggled' => ~shift /\ ~disturb)
  BY <1>2, GestureStep DEF InputInv
<1>6. GestureIsDeliberate'
  <2> SUFFICES ASSUME toggled'
               PROVE  ~raw' /\ keyEvent' # "pressed" /\ Button!AsRead(report') = "up"
    BY <1>5 DEF GestureInv, GestureIsDeliberate
  <2>1. ~raw'  BY <1>2, <1>5 DEF Update
  <2>2. keyCandidate' = NoKey /\ Button!AsRead(report') = "up"
    BY <1>2, <1>5 DEF CompanionActive
  <2>3. keyEvent' # "pressed"
    BY <1>3, <2>2
       DEF Ladder!Sample, Ladder!Changed, Ladder!Waiting, Ladder!Accepted, Ladder!Steady
  <2> QED  BY <2>1, <2>2, <2>3
<1> QED
  BY <1>3, <1>4, <1>5, <1>6, LadderSample, ContactSample, ReportSample DEF InputInv

LEMMA InputInvAlways == InputSpec => []InputInv
<1>1. InputInv /\ UNCHANGED inputVars => InputInv'
  <2> SUFFICES ASSUME InputInv, UNCHANGED inputVars  PROVE InputInv'
    OBVIOUS
  <2>1. LadderInv'
    BY DEF InputInv, LadderInv, inputVars, Ladder!debouncerVars, Ladder!KeyDownAfter
  <2>2. ContactInv' /\ ReportInv'
    BY DEF InputInv, ContactInv, ReportInv, inputVars, Button!buttonVars,
           Button!debouncerVars, Button!KeyDownAfter
  <2>3. UNCHANGED vars /\ UNCHANGED <<keyEvent, report>>
    BY DEF inputVars, Ladder!debouncerVars, Button!buttonVars
  <2>4. GestureInv'
    BY <2>3 DEF InputInv, GestureInv, FlagsTyped, OnlyDoubleClicks, vars
  <2>5. GestureIsDeliberate'
    BY <2>3 DEF InputInv, GestureIsDeliberate, OnlyDoubleClicks, vars, Button!AsRead
  <2> QED  BY <2>1, <2>2, <2>4, <2>5 DEF InputInv
<1> QED  BY <1>1, InputInvInit, InputStep, PTL DEF InputSpec

(* The layer changes in a quiet tick that ends a clean double-click and in no
   other, whatever the ladder, the button and SHIFT do and however long the
   windows are. *)
THEOREM GestureAlwaysDeliberate == InputSpec => []GestureIsDeliberate
<1>1. InputInv => GestureIsDeliberate  BY DEF InputInv
<1> QED  BY <1>1, InputInvAlways, PTL

(* A level is taken over when all samples of more than the window have read it, and
   neither before nor later, for windows of any length and ticks of any distance. *)
THEOREM OnlyStableLevels == InputSpec => StableLevelsOnly
<1>1. InputInv => Button!StableLevelIsAccepted /\ Ladder!StableLevelIsAccepted
  BY InputAssumption
     DEF InputInv, LadderInv, ContactInv, Button!StableLevelIsAccepted,
         Ladder!StableLevelIsAccepted
<1>2. InputInv /\ [InputNext]_inputVars =>
        /\ [buttonDebounced' # buttonDebounced => buttonStable' > ButtonWindow]_(
              Button!debouncerVars)
        /\ [keyDebounced' # keyDebounced => keyStable' > LadderWindow]_(
              Ladder!debouncerVars)
  BY InputStep DEF inputVars, Ladder!debouncerVars, Button!buttonVars
<1> QED
  BY <1>1, <1>2, InputInvAlways, PTL
     DEF InputSpec, StableLevelsOnly, Button!AcceptsStableLevels,
         Ladder!AcceptsStableLevels

(* The menu is never told of a button or a key what could not follow from what it
   was told before. *)
THEOREM ReportsAlwaysFollow == InputSpec => ReportsFollow
<1>1. InputInv /\ [InputNext]_inputVars =>
        /\ [Button!AsRead(report)' \in
              Button!Reports(Button!After(Button!AsRead(report)))]_(Button!buttonVars)
        /\ [report' = "clickedLong" => report \in {"justDown", "heldShort"}]_(
              Button!buttonVars)
        /\ [keyEvent' \in Ladder!KeyEvents(Ladder!KeyDownAfter(keyEvent))]_(
              Ladder!debouncerVars)
  BY InputStep DEF inputVars, Ladder!debouncerVars, Button!buttonVars
<1> QED
  BY <1>1, InputInvAlways, PTL
     DEF InputSpec, ReportsFollow, Button!ReportsFollow, Button!LongPressFiresOnce,
         Ladder!EventsFollow
=============================================================================
