---------------------------- MODULE ButtonReports ----------------------------
(***************************************************************************)
(* What the menu hears of the buttons from one tick to the next: the       *)
(* contract between the debouncers, which are shown to keep it (modules    *)
(* LongPressButton and Debouncer), and the menu, whose inputs it gives     *)
(* (module Menu).                                                          *)
(***************************************************************************)

(* ButtonWithLongPress::sample() as the menu tells its reports apart: "up" for
   a button that is up or comes up, "long" once kLongPressMs are over.  A
   contact that opens for less than the debounce time is reported as a second
   press. *)
Reports(button) ==
  {"justDown"} \cup (CASE button = "up"    -> {"up"}
                      [] button = "short" -> {"up", "short", "long"}
                      [] button = "long"  -> {"up", "long"})

After(report) == IF report = "justDown" THEN "short" ELSE report

IsDown(report) == report # "up"
IsLong(report) == report = "long"

(* ButtonLadder::sample(): a second press may follow without a release, and a
   release without a press. *)
KeyEvents(down) == {"pressed", "released", IF down THEN "held" ELSE "none"}
KeyDownAfter(event) == event \in {"pressed", "held"}
=============================================================================
