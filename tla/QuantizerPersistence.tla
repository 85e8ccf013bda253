------------------------ MODULE QuantizerPersistence ------------------------
(***************************************************************************)
(* The persistence side of FirmwareController.cpp: power-up, the control   *)
(* loop with its user operations, the shared writer, the autosave, and a   *)
(* power loss between any two bytes.  The other firmware image             *)
(* (CalibrationFirmwareController.cpp) appears with what it does to the    *)
(* live ring: its boot-time migration, then the reuse of the cells of the  *)
(* former twelfth slot.                                                    *)
(***************************************************************************)
EXTENDS LiveStateStore, SaveSlotStore

CONSTANTS
  Memories,       \* EEPROM contents a device may be switched on with
  FactoryPreset,  \* makeFactoryConfigPreset(): content of an empty config slot
  MaxOperations   \* bound: user operations in a behaviour

(* One valid live record carries a higher sequence number than all others. *)
HasNewest(m) ==
  ValidSlots(m) # {} => \E s \in ValidSlots(m) : IsNewest(m, s)

(* A record marked as written is complete: the CRC is the second line of
   defence, never the only one. *)
MarkedRecordsComplete(m) ==
  \A r \in Record \ {LegacySlot} : m[<<r, 0>>] = Marked => Complete(m, r)

ASSUME MemoryAssumption ==
  /\ Preset \subseteq Record \ LiveSlot
  /\ \A m \in Memories :
       /\ m \in [Cell -> Byte]
       /\ HasNewest(m)
       /\ MarkedRecordsComplete(m)
  /\ FactoryPreset \in [ConfigSlot -> Content]
  /\ MaxOperations \in Nat

VARIABLES
  power,     \* "off", "boot" and "running" (quantizer), "mboot" and "panel" (calibration)
  phase,     \* where in a control tick the loop is: "menu", "writer", "autosave"
  live,      \* the configuration being played
  dirty,     \* g_liveDirty
  quiet,     \* now - g_lastChangeMs >= kLiveAutosaveQuiescenceMs
  occupied,  \* scaleSlotsInUse_ and configSlotsInUse_ of the menu
  operations \* user operations so far

loopVars == <<power, phase, live, dirty, quiet, occupied, operations>>
vars == <<writerVars, liveVars, loopVars>>

Init ==
  /\ eeprom \in Memories
  /\ writing = {} /\ queue = <<>> /\ pos = 0 /\ active = FALSE
  /\ head = 0 /\ seq = 0
  /\ pendingCommit = FALSE /\ pendingHead = 0 /\ pendingSeq = 0
  /\ power = "off" /\ phase = "menu"
  /\ live = Factory
  /\ dirty = FALSE /\ quiet = FALSE
  /\ occupied = {}
  /\ operations = 0

-----------------------------------------------------------------------------
(* Power-up *)

PowerOn(image) ==
  /\ power = "off"
  /\ power' = image
  /\ Load
  /\ live' = Restored(eeprom)
  /\ UNCHANGED <<phase, dirty, quiet, occupied, operations>>

(* while (busy()) service(): the migration is finished before anything else. *)
BootService ==
  /\ power \in {"boot", "mboot"}
  /\ active
  /\ Service
  /\ UNCHANGED <<liveVars, loopVars>>

BootDone ==
  /\ power = "boot" /\ ~active
  /\ ObserveWriter(active)
  /\ occupied' = Scan
  /\ power' = "running"
  /\ UNCHANGED <<writerVars, phase, live, dirty, quiet, operations>>

MaintenanceBootDone ==
  /\ power = "mboot" /\ ~active
  /\ ObserveWriter(active)
  /\ power' = "panel"
  /\ UNCHANGED <<writerVars, phase, live, dirty, quiet, occupied, operations>>

(* Calibration records and the qualification marker overlay the old slot. *)
ReuseLegacyCell(o) ==
  /\ power = "panel"
  /\ eeprom' = [eeprom EXCEPT ![<<LegacySlot, o>>] = Torn]
  /\ UNCHANGED <<writing, queue, pos, active, liveVars, loopVars>>

-----------------------------------------------------------------------------
(* The menu's part of a control tick: at most one user operation. *)

InMenu == power = "running" /\ phase = "menu"

Operation ==
  /\ power = "running" /\ phase = "menu"
  /\ operations < MaxOperations
  /\ operations' = operations + 1
  /\ phase' = "writer"
  /\ UNCHANGED power

(* persistentStateChanged: the encoded configuration differs. *)
Become(content) ==
  /\ live' = content
  /\ IF content # live THEN dirty' = TRUE /\ quiet' = FALSE
                       ELSE UNCHANGED <<dirty, quiet>>

NoInput ==
  /\ InMenu
  /\ phase' = "writer"
  /\ UNCHANGED <<writerVars, liveVars, power, live, dirty, quiet, occupied, operations>>

Edit(content) ==
  /\ Operation
  /\ content # live
  /\ Become(content)
  /\ UNCHANGED <<writerVars, liveVars, occupied>>

(* Mutant of SavePreset: occupied although the writer refused the job. *)
SavePresetUnchecked(r) ==
  /\ Operation
  /\ IF active THEN UNCHANGED writerVars ELSE WritePreset(r, live)
  /\ occupied' = occupied \cup {r}
  /\ UNCHANGED <<liveVars, live, dirty, quiet>>

SavePreset(r) ==
  /\ Operation
  /\ WritePreset(r, live)
  /\ occupied' = occupied \cup {r}
  /\ UNCHANGED <<liveVars, live, dirty, quiet>>

LoadPreset(r) ==
  /\ Operation
  /\ ~active
  /\ Become(IF r \in ScaleSlot THEN LoadedScale(r, live)
                               ELSE LoadedConfig(r, FactoryPreset))
  /\ UNCHANGED <<writerVars, liveVars, occupied>>

EraseAllPresets ==
  /\ Operation
  /\ EraseAll
  /\ occupied' = {}
  /\ UNCHANGED <<liveVars, live, dirty, quiet>>

-----------------------------------------------------------------------------
(* The rest of the tick, and the polls between ticks. *)

ServiceAndObserve ==
  /\ Service
  /\ ObserveWriter(active')

WriterTurn ==
  /\ power = "running" /\ phase = "writer"
  /\ ServiceAndObserve
  /\ phase' = "autosave"
  /\ UNCHANGED <<power, live, dirty, quiet, occupied, operations>>

(* pending == 0: no tick is due. *)
IdlePoll ==
  /\ InMenu
  /\ ServiceAndObserve
  /\ UNCHANGED loopVars

(* Mutant of AutosaveDue: the comparison with the quiescence time inverted. *)
AutosaveDueEarly == dirty /\ ~active /\ ~quiet

AutosaveDue == dirty /\ ~active /\ quiet

Autosave ==
  /\ power = "running" /\ phase = "autosave"
  /\ AutosaveDue
  /\ Commit(live)
  /\ dirty' = FALSE
  /\ phase' = "menu"
  /\ UNCHANGED <<power, live, quiet, occupied, operations>>

NoAutosave ==
  /\ power = "running" /\ phase = "autosave"
  /\ ~AutosaveDue
  /\ phase' = "menu"
  /\ UNCHANGED <<writerVars, liveVars, power, live, dirty, quiet, occupied, operations>>

(* Three seconds pass without an edit; a tick reads the clock once. *)
Quiesce ==
  /\ InMenu
  /\ ~quiet
  /\ quiet' = TRUE
  /\ UNCHANGED <<writerVars, liveVars, power, phase, live, dirty, occupied, operations>>

-----------------------------------------------------------------------------
ByteProgrammed ==
  /\ Programmed
  /\ UNCHANGED <<liveVars, loopVars>>

(* RAM is lost; head_ and its companions are set again by the next load(). *)
PowerLoss ==
  /\ power # "off"
  /\ power' = "off"
  /\ LosePower
  /\ pendingCommit' = FALSE
  /\ phase' = "menu" /\ dirty' = FALSE /\ quiet' = FALSE /\ occupied' = {}
  /\ UNCHANGED <<head, seq, pendingHead, pendingSeq, live, operations>>

Next ==
  \/ \E image \in {"boot", "mboot"} : PowerOn(image)
  \/ BootService
  \/ BootDone
  \/ MaintenanceBootDone
  \/ \E o \in Offset : ReuseLegacyCell(o)
  \/ NoInput
  \/ \E c \in Content : Edit(c)
  \/ \E r \in Preset : SavePreset(r)
  \/ \E r \in Preset : LoadPreset(r)
  \/ EraseAllPresets
  \/ WriterTurn
  \/ IdlePoll
  \/ Autosave
  \/ NoAutosave
  \/ Quiesce
  \/ ByteProgrammed
  \/ PowerLoss

Spec == Init /\ [][Next]_vars

(* The loop keeps running while the device is powered, the EEPROM controller
   finishes what it programs, and time passes.  The user owes nothing. *)
Fairness ==
  /\ WF_vars(BootService) /\ WF_vars(BootDone)
  /\ WF_vars(NoInput)
  /\ WF_vars(WriterTurn)
  /\ WF_vars(Autosave \/ NoAutosave)
  /\ WF_vars(ByteProgrammed)
  /\ SF_vars(Quiesce)

FairSpec == Spec /\ Fairness

-----------------------------------------------------------------------------
(* Properties *)

(* Every variable stays in its type; the queue is never read past its end. *)
TypeOK ==
  /\ WriterTypeOK /\ LiveTypeOK
  /\ power \in {"off", "boot", "running", "mboot", "panel"}
  /\ phase \in {"menu", "writer", "autosave"}
  /\ live \in Content
  /\ dirty \in BOOLEAN /\ quiet \in BOOLEAN
  /\ occupied \in SUBSET Preset
  /\ operations \in 0 .. MaxOperations

(* In every state, between any two bytes and after any power loss, a record
   whose marker reads as written carries one complete body: the order
   invalidate / body / marker of commit() and queueRecord(). *)
MarkerDiscipline == MarkedRecordsComplete(eeprom)

(* Once the writer is done, head_ and seq_ describe the record a power-up
   would pick, so the next commit goes to the slot after the newest one with
   the next sequence number (observeWriter(), load()). *)
HeadTracksNewest ==
  power \in {"running", "panel"} /\ ~pendingCommit =>
    IF ValidSlots(eeprom) = {}
      THEN head = SlotCount - 1 /\ seq = 0
      ELSE head = Newest(eeprom) /\ seq = BodyOf(eeprom, head).seq

(* A commit whose marker is not yet programmed. *)
CommitOpen == pendingCommit /\ (pos < Len(queue) \/ ~Ready)

(* The content of the commit in progress, until its marker is programmed. *)
InFlight ==
  IF CommitOpen
    THEN {queue[2].byte.content} ELSE {}

Kept == Restored(eeprom)

(* A configuration the loop does not hold as changed is already kept, or is
   the one in the writer: clearing g_liveDirty when a commit is accepted
   never loses an edit made while that commit is being written. *)
CleanMeansKept ==
  power = "running" /\ ~dirty =>
    IF InFlight = {} THEN live = Kept ELSE live \in InFlight

(* While the writer is idle, the menu's occupancy bits are what a scan of the
   EEPROM would find, although saves and erases set them in advance. *)
OccupancyExact ==
  power = "running" /\ ~active => occupied = Scan

(* What the running image remembers about the EEPROM, instead of reading it
   again, is true: that nothing is left to save, and which slots hold a preset. *)
CachesAreTrue == CleanMeansKept /\ OccupancyExact

Register == INSTANCE DurableRegister
              WITH stored <- Kept, requested <- InFlight

(* The ring with its queue, migration, power losses and slot reuse implements
   a register: what a power-up restores changes only from the last completed
   commit to the next one. *)
ImplementsRegister == Register!Spec

-----------------------------------------------------------------------------
(* The inductive invariant: what holds between any two bytes of a job. *)

(* Bytes of the job that have reached the cells. *)
Done == IF Ready THEN pos ELSE pos - 1

RecordJob(r, image) ==
  /\ queue = RecordOps(r, image)
  /\ Done \in 1 .. BodyLen + 1 => eeprom[<<r, 0>>] = Erased
  /\ Done = BodyLen + 2 => eeprom[<<r, 0>>] = Marked
  /\ \A o \in 1 .. BodyLen : Done >= o + 1 => eeprom[<<r, o>>] = image

CommitJob ==
  /\ pendingCommit
  /\ \E c \in Content : RecordJob(pendingHead, [seq |-> pendingSeq, content |-> c])

PresetJob ==
  /\ ~pendingCommit
  /\ \/ \E r \in Preset, c \in Content : RecordJob(r, [seq |-> 0, content |-> c])
     \/ queue = EraseOps(ScaleSlots \o ConfigSlots)

WriterInv ==
  /\ active => CommitJob \/ PresetJob
  /\ ~active => writing = {} /\ pos = Len(queue)
  /\ \A op \in writing : pos >= 1 /\ op = queue[pos]
  /\ power \in {"off", "panel"} => ~active
  /\ pendingCommit => active \/ power \in {"boot", "mboot"}

HeadDescribes ==
  \/ ValidSlots(eeprom) = {} /\ head = SlotCount - 1 /\ seq = 0
  \/ IsNewest(eeprom, head) /\ seq = BodyOf(eeprom, head).seq

(* While a commit is open the newest record lies outside its slot. *)
PriorNewest ==
  \/ ValidSlots(eeprom) = {}
  \/ \E s \in LiveSlot \ {pendingHead} :
       IsNewest(eeprom, s) /\ seq = BodyOf(eeprom, s).seq

HeadInv ==
  power # "off" =>
    /\ ~pendingCommit => HeadDescribes
    /\ pendingCommit => pendingSeq = seq + 1
    /\ CommitOpen => PriorNewest
    /\ pendingCommit /\ ~CommitOpen =>
         IsNewest(eeprom, pendingHead) /\ BodyOf(eeprom, pendingHead).seq = pendingSeq

IInv ==
  /\ TypeOK /\ WriterInv /\ HeadInv
  /\ MarkerDiscipline /\ HasNewest(eeprom)

(* A slot counts as occupied from the moment its record is queued, and all
   count as free from the moment the erase is queued; the job in the writer
   makes up the difference to what a scan would find. *)
SaveAhead(r, c) ==
  /\ RecordJob(r, [seq |-> 0, content |-> c])
  /\ r \in occupied
  /\ \A q \in Preset \ {r} : q \in occupied <=> Valid(eeprom, q)

EraseAhead ==
  /\ queue = EraseOps(ScaleSlots \o ConfigSlots)
  /\ occupied = {}
  /\ \A k \in 1 .. Done : eeprom[queue[k].cell] = Erased

OccupancyInv ==
  power = "running" =>
    IF active /\ ~pendingCommit
      THEN (\E r \in Preset, c \in Content : SaveAhead(r, c)) \/ EraseAhead
      ELSE occupied = Scan

(* CleanMeansKept from power-up on, before the loop is entered. *)
CleanInv ==
  power \in {"boot", "running"} /\ ~dirty =>
    IF InFlight = {} THEN live = Kept ELSE live \in InFlight

CachesInv == CleanInv /\ OccupancyInv

(* A changed configuration that is left alone is kept before long, unless
   power fails first, whatever presets were saved meanwhile. *)
EditsEventuallyKept ==
  \A c \in Content :
    power = "running" /\ dirty /\ live = c
      ~> Kept = c \/ live # c \/ power # "running"
=============================================================================
