--------------------------- MODULE LongPressButton ---------------------------
(***************************************************************************)
(* SAVE and LOAD: a debounced push button that tells short clicks from     *)
(* long presses (ButtonWithLongPress::sample).                             *)
(***************************************************************************)
EXTENDS Debouncer

CONSTANT LongPress  \* longPressTimeMs_

VARIABLES
  waiting,  \* waiting_
  held,     \* now - pressStartTime_, while waiting
  report    \* the state returned

buttonVars == <<debouncerVars, waiting, held, report>>

Init ==
  /\ DebouncerInit
  /\ waiting = FALSE /\ held = 0 /\ report = "isUp"

HeldDown(gap) ==
  /\ event' = "held"
  /\ IF waiting /\ held + gap > LongPress
       THEN report' = "clickedLong" /\ waiting' = FALSE /\ held' = 0
       ELSE /\ report' = IF waiting THEN "heldShort" ELSE "heldLong"
            /\ held' = IF waiting THEN held + gap ELSE 0
            /\ UNCHANGED waiting

JustPressed ==
  /\ event' = "pressed"
  /\ waiting' = TRUE /\ held' = 0 /\ report' = "justDown"

(* waiting_ is left as it is, also after a click. *)
JustReleased ==
  /\ event' = "released"
  /\ report' = IF waiting THEN "clickedShort" ELSE "releasedLong"
  /\ held' = 0
  /\ UNCHANGED waiting

IsUp ==
  /\ event' = "none"
  /\ report' = "isUp" /\ held' = 0
  /\ UNCHANGED waiting

SampleButton(level, gap) ==
  /\ Sample(level, gap)
  /\ HeldDown(gap) \/ JustPressed \/ JustReleased \/ IsUp

-----------------------------------------------------------------------------
(* The report as the menu reads it: isButtonDown() and the long states. *)
AsRead(r) ==
  CASE r \in {"isUp", "clickedShort", "releasedLong"} -> "up"
    [] r \in {"clickedLong", "heldLong"}              -> "long"
    [] r = "heldShort"                                -> "short"
    [] OTHER                                          -> r

(* The reports come in an order the menu is ready for: held only after a press,
   long only after short. *)
ReportsFollow == [][AsRead(report)' \in Reports(After(AsRead(report)))]_buttonVars

(* One press gives one long-press event, however long it lasts and whatever
   bounces the debouncer lets through. *)
LongPressFiresOnce ==
  [][report' = "clickedLong" => report \in {"justDown", "heldShort"}]_buttonVars
=============================================================================
