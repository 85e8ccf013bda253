-------------------------------- MODULE Menu --------------------------------
(***************************************************************************)
(* The pages of the front panel (Menu::update and handleCalibration) over  *)
(* the configuration they edit.  A Tick is one call of update() with the   *)
(* inputs of that millisecond: SHIFT as it is read, SAVE and LOAD as       *)
(* ButtonWithLongPress reports them, the debounced event of the note keys. *)
(* A GestureTick is the tick in which UiLayerGesture has recognised a      *)
(* double-click.                                                           *)
(*                                                                         *)
(* A note key is not numbered: what a press means on the current page is   *)
(* chosen.  Times are not counted: a duration that runs may end in any     *)
(* tick after the one that started it.                                     *)
(***************************************************************************)
EXTENDS PanelConfiguration, ButtonReports

Page == {"main", "scalar", "changed", "selectSave", "selectLoad", "confirmSave",
         "confirmErase", "calEntering", "calActive", "calSaving"}
FeedbackPage    == {"changed", "confirmSave", "confirmErase"}
CalibrationPage == {"calEntering", "calActive", "calSaving"}
SubMenuStatus   == {"awaitingInput", "exitOnShiftRelease", "exitOnButtonRelease"}

(* A page with what update() reads of the other page variables while it is
   shown.  The code leaves their old values on the other pages and sets them
   again on the way to a page that reads them. *)
MenuState ==
  [page : Page \ {"scalar", "selectSave", "selectLoad"}]
    \cup [page : {"scalar"}, which : ChannelScalar \cup ArpScalar,
          status : SubMenuStatus]
    \cup [page : {"selectSave", "selectLoad"}, slots : {"scale", "full"}]

Plain(page) == [page |-> page]

VARIABLES
  menu,               \* page_, subMenuStatus_, subMenuWhich_, slotType_
  shiftWasPressed,    \* shiftWasPressed_
  comboTimed,         \* comboEntryStart_ # kNoTime
  shiftAloneTimed,    \* shiftAloneStart_ # kNoTime
  workingBrightness,  \* workingBrightness_
  saveButton,         \* save_ and load_ of ControlInputProcessor
  loadButton,
  keyDown             \* ladder_ has debounced a note key as down

calVars   == <<comboTimed, shiftAloneTimed, workingBrightness>>
inputVars == <<saveButton, loadButton, keyDown>>
menuVars  == <<menu, shiftWasPressed, calVars, inputVars>>
vars      == <<panelVars, menuVars>>

MenuInit ==
  /\ menu = Plain("main")
  /\ shiftWasPressed = FALSE
  /\ comboTimed = FALSE /\ shiftAloneTimed = FALSE
  /\ workingBrightness = DefaultBrightness
  /\ saveButton = "up" /\ loadButton = "up" /\ keyDown = FALSE

Init == PanelInit /\ MenuInit

-----------------------------------------------------------------------------
(* Inputs *)

(* The inputs of a tick *)
Inputs ==
  [shift : BOOLEAN, save : Reports(saveButton), load : Reports(loadButton),
   key : KeyEvents(keyDown)]

Sampled(in) ==
  /\ saveButton' = After(in.save) /\ loadButton' = After(in.load)
  /\ keyDown' = KeyDownAfter(in.key)
  /\ shiftWasPressed' = in.shift

ComboActive(in) == in.shift /\ IsDown(in.save) /\ IsDown(in.load)

-----------------------------------------------------------------------------
(* The pages before the note key is looked at *)

AfterShift(in) ==
  IF shiftWasPressed /\ ~in.shift /\ menu.page = "scalar"
    THEN CASE menu.status = "awaitingInput" ->
                [menu EXCEPT !.status = "exitOnShiftRelease"]
           [] menu.status = "exitOnShiftRelease" -> Plain("main")
           [] OTHER -> menu
    ELSE menu

(* SAVE or LOAD went down. *)
SlotPage(m, page, shift) ==
  IF m.page \in {"selectSave", "selectLoad"} THEN Plain("main")
  ELSE IF m.page = "confirmSave" THEN m
  ELSE [page |-> page, slots |-> IF shift THEN "full" ELSE "scale"]

EraseChord(in) == ~in.shift /\ IsLong(in.save) /\ IsLong(in.load)

AfterButtons(m, in, erased) ==
  IF in.save = "justDown" THEN SlotPage(m, "selectSave", in.shift)
  ELSE IF in.load = "justDown" THEN SlotPage(m, "selectLoad", in.shift)
  ELSE IF erased THEN Plain("confirmErase")
  ELSE m

-----------------------------------------------------------------------------
(* A note key was pressed on the page of m *)

ShowFeedback == menu' = Plain("changed")
OpenSubMenu(s) ==
  /\ menu' = [page |-> "scalar", which |-> s, status |-> "awaitingInput"]
  /\ UNCHANGED panelVars

(* An index that is no pattern, shape, range or sync mode changes nothing,
   which is also what selecting the current value does. *)
SelectValue(m, in) ==
  /\ m.page = "scalar"
  /\ \E v \in Value : \/ m.which \in ChannelScalar /\ SelectScalar(m.which, v)
                      \/ m.which \in ArpScalar /\ SelectArpScalar(m.which, v)
  /\ menu' = IF m.status = "exitOnButtonRelease" THEN Plain("main")
             ELSE [m EXCEPT !.status = IF in.shift THEN "exitOnShiftRelease"
                                       ELSE "exitOnButtonRelease"]

QuantizerShiftKey(m) ==
  /\ layer = "quantizer"
  /\ \/ \E by \in {1, NoteCount - 1} : RotateScale(by) /\ menu' = m
     \/ \E s \in ChannelScalar : OpenSubMenu(s)
     \/ ToggleSampleMode /\ ShowFeedback
     \/ ToggleChannelBMode /\ ShowFeedback

ArpeggiatorShiftKey(m) ==
  /\ layer = "arpeggiator"
  /\ \/ ToggleArp /\ ShowFeedback
     \/ \E s \in ArpScalar : OpenSubMenu(s)
     \/ ToggleStepTrigger /\ ShowFeedback

ShiftKey(m, in) ==
  /\ m.page = "main" /\ in.shift
  /\ \/ QuantizerShiftKey(m)
     \/ ArpeggiatorShiftKey(m)
     \/ ToggleLink /\ ShowFeedback
     \/ \E c \in Channel : SelectChannel(c) /\ menu' = m

NoteKey(m, in) ==
  /\ m.page = "main" /\ ~in.shift
  /\ \E n \in Note : ToggleNote(n)
  /\ menu' = m

(* writeScale() or writeConfig() is refused while the writer is busy. *)
SaveKey(m) ==
  /\ m.page = "selectSave"
  /\ \/ menu' = Plain("confirmSave")
     \/ menu' = m
  /\ UNCHANGED panelVars

LoadSlot(m) ==
  \/ m.slots = "scale" /\ \E stored \in SUBSET Note : LoadScale(stored)
  \/ m.slots = "scale" /\ UNCHANGED panelVars
  \/ m.slots = "full" /\ \E r \in StoredRecords : LoadConfiguration(r)
  \/ m.slots = "full" /\ \E notes \in FactoryScales : LoadFactoryPreset(notes)

LoadKey(m) ==
  /\ m.page = "selectLoad"
  /\ \/ LoadSlot(m) /\ menu' = Plain("main")
     \/ menu' = m /\ UNCHANGED panelVars

(* No press, or one that the page ignores. *)
OtherKey(m, in) ==
  /\ in.key = "pressed" => m.page \in FeedbackPage
  /\ menu' = IF /\ in.key = "released" /\ m.page = "scalar"
                /\ m.status = "exitOnButtonRelease"
               THEN Plain("main") ELSE m
  /\ UNCHANGED panelVars

(* The time of a feedback page is over; an erase starts it again. *)
FeedbackEnds(m, erased) ==
  /\ m.page \in FeedbackPage /\ m.page = menu.page /\ ~erased
  /\ menu' = Plain("main")
  /\ UNCHANGED panelVars

MenuTick(in) ==
  /\ menu.page \notin CalibrationPage /\ ~ComboActive(in)
  /\ comboTimed' = FALSE
  /\ UNCHANGED <<shiftAloneTimed, workingBrightness>>
  /\ \E erased \in (IF EraseChord(in) THEN BOOLEAN ELSE {FALSE}) :
       LET m == AfterButtons(AfterShift(in), in, erased)
       IN  \/ /\ in.key = "pressed"
              /\ \/ SelectValue(m, in) \/ ShiftKey(m, in) \/ NoteKey(m, in)
                 \/ SaveKey(m) \/ LoadKey(m)
           \/ OtherKey(m, in)
           \/ FeedbackEnds(m, erased)

-----------------------------------------------------------------------------
(* SHIFT + SAVE + LOAD, and the brightness calibration it leads to *)

ComboTick(in) ==
  /\ menu.page \notin CalibrationPage /\ ComboActive(in)
  /\ \/ /\ ~comboTimed /\ comboTimed' = TRUE
        /\ menu' = Plain("main")
        /\ UNCHANGED <<shiftAloneTimed, workingBrightness>>
     \/ comboTimed /\ UNCHANGED <<menu, calVars>>
     \/ /\ comboTimed /\ comboTimed' = FALSE
        /\ menu' = Plain("calEntering")
        /\ workingBrightness' = brightness /\ shiftAloneTimed' = FALSE
  /\ UNCHANGED panelVars

(* CalibrationActive: a key sets a step, SHIFT alone for long enough saves. *)
EditBrightness(in) ==
  /\ ~(in.shift /\ ~KeyDownAfter(in.key))
  /\ IF in.key = "pressed" /\ ~in.shift THEN workingBrightness' \in Brightness
     ELSE UNCHANGED workingBrightness
  /\ shiftAloneTimed' = FALSE
  /\ UNCHANGED <<panelVars, menu>>

HoldShiftAlone(in) ==
  /\ in.shift /\ ~KeyDownAfter(in.key)
  /\ UNCHANGED workingBrightness
  /\ \/ shiftAloneTimed' = TRUE /\ UNCHANGED <<panelVars, menu>>
     \/ /\ shiftAloneTimed /\ shiftAloneTimed' = FALSE
        /\ SaveBrightness(workingBrightness)
        /\ menu' = Plain("calSaving")

(* The blinking at either end of the calibration lasts, or is over. *)
CalibrationBlink(from, to) ==
  /\ menu.page = from
  /\ menu' \in {menu, Plain(to)}
  /\ UNCHANGED <<panelVars, shiftAloneTimed, workingBrightness>>

CalibrationTick(in) ==
  /\ menu.page \in CalibrationPage
  /\ \/ CalibrationBlink("calEntering", "calActive")
     \/ menu.page = "calActive" /\ (EditBrightness(in) \/ HoldShiftAlone(in))
     \/ CalibrationBlink("calSaving", "main")
  /\ UNCHANGED comboTimed

-----------------------------------------------------------------------------
Tick ==
  \E in \in Inputs :
    Sampled(in) /\ (MenuTick(in) \/ ComboTick(in) \/ CalibrationTick(in))

(* Mutant of GestureTick: the layer may change on any page. *)
GestureTickAnyPage ==
  /\ menu.page \notin CalibrationPage
  /\ \E in \in Inputs :
       /\ ~in.shift /\ ~IsDown(in.save) /\ ~IsDown(in.load) /\ in.key # "pressed"
       /\ Sampled(in)
  /\ ToggleLayer
  /\ menu' = menu
  /\ comboTimed' = FALSE
  /\ UNCHANGED <<shiftAloneTimed, workingBrightness>>

(* Mutant of GestureTick: the layer is set as restoreLayer() does. *)
GestureTickRestoresLayer ==
  /\ menu.page = "main"
  /\ \E in \in Inputs :
       /\ ~in.shift /\ ~IsDown(in.save) /\ ~IsDown(in.load) /\ in.key # "pressed"
       /\ Sampled(in)
  /\ layer' = IF layer = "quantizer" THEN "arpeggiator" ELSE "quantizer"
  /\ liveDirty' = TRUE
  /\ UNCHANGED <<linked, channelBMode, channel, arp, selectedChannel, brightness>>
  /\ menu' = Plain("changed")
  /\ comboTimed' = FALSE
  /\ UNCHANGED <<shiftAloneTimed, workingBrightness>>

(* layerToggleAllowed(), and the gesture's own rule: it ends with SHIFT
   released and no other control touched.  toggleLayer(), then update(). *)
GestureTick ==
  /\ menu.page = "main"
  /\ \E in \in Inputs :
       /\ ~in.shift /\ ~IsDown(in.save) /\ ~IsDown(in.load) /\ in.key # "pressed"
       /\ Sampled(in)
  /\ ToggleLayer
  /\ menu' = Plain("changed")
  /\ comboTimed' = FALSE
  /\ UNCHANGED <<shiftAloneTimed, workingBrightness>>

AutosaveTick == Autosave /\ UNCHANGED menuVars

RestartTick ==
  /\ Restart
  /\ menu' = Plain("main") /\ shiftWasPressed' = FALSE
  /\ comboTimed' = FALSE /\ shiftAloneTimed' = FALSE
  /\ workingBrightness' = DefaultBrightness
  /\ saveButton' = "up" /\ loadButton' = "up" /\ keyDown' = FALSE

Next == Tick \/ GestureTick \/ AutosaveTick \/ RestartTick

Spec == Init /\ [][Next]_vars

-----------------------------------------------------------------------------
(* Every variable has its type. *)
MenuTypeOK ==
  /\ PanelTypeOK
  /\ menu \in MenuState
  /\ workingBrightness \in Brightness
  /\ {shiftWasPressed, comboTimed, shiftAloneTimed, keyDown} \subseteq BOOLEAN
  /\ {saveButton, loadButton} \subseteq {"up", "short", "long"}

(* A scalar page that waits for the release of the key has a key to wait for,
   whatever SHIFT, SAVE, LOAD and the three-button chord did since: the page
   that ignores SHIFT cannot be left hanging. *)
SubMenuCanClose ==
  menu.page = "scalar" /\ menu.status = "exitOnButtonRelease" => keyDown

(* The value keys edit a setting of the layer that is shown: no gesture
   changes the layer under an open scalar page. *)
SubMenuInItsLayer ==
  menu.page = "scalar" =>
    menu.which \in (IF layer = "quantizer" THEN ChannelScalar ELSE ArpScalar)

(* The pages the chord was pressed on do not survive it: while its five
   seconds run, and when it is let go before, no slot waits to be chosen. *)
ChordClosesPages == comboTimed => menu.page = "main"

(* The pages are consistent with what is held down and with the layer shown. *)
PagesConsistent ==
  MenuTypeOK /\ SubMenuCanClose /\ SubMenuInItsLayer /\ ChordClosesPages

(* Every tick, gesture and restart is one operation of the panel or none, in
   the layer that has it: Menu implements PanelConfiguration. *)
ImplementsPanel == PanelSpec
=============================================================================
