--------------------------- MODULE LiveStateStore ---------------------------
(***************************************************************************)
(* LiveStateStore.cpp: the wear-levelled ring that keeps the last musical  *)
(* state across power cycles.  Slots 0 .. SlotCount - 1 are the ring;      *)
(* slot SlotCount is the twelfth slot of firmware <= 0.2.1, which is only  *)
(* ever read, and whose cells the calibration region now overlaps.         *)
(***************************************************************************)
EXTENDS EepromWriter

CONSTANTS
  SlotCount,  \* kLiveSlotCount (11 in the firmware)
  Factory     \* StoredConfiguration(): what a device without a record starts with

LegacySlot == SlotCount
LiveSlot   == 0 .. SlotCount

ASSUME LiveAssumption ==
  /\ SlotCount \in Nat /\ SlotCount >= 2
  /\ LiveSlot \subseteq Record
  /\ Factory \in Content

VARIABLES
  head,           \* head_: slot of the newest record
  seq,            \* seq_: its sequence number
  pendingCommit,  \* pendingCommit_
  pendingHead,    \* pendingHead_
  pendingSeq      \* pendingSeq_

liveVars == <<head, seq, pendingCommit, pendingHead, pendingSeq>>

-----------------------------------------------------------------------------
ValidSlots(m) == {s \in LiveSlot : Valid(m, s)}

(* The scan keeps the first slot with the highest sequence number. *)
Newest(m) ==
  CHOOSE s \in ValidSlots(m) :
    \A t \in ValidSlots(m) :
      \/ BodyOf(m, t).seq < BodyOf(m, s).seq
      \/ BodyOf(m, t).seq = BodyOf(m, s).seq /\ s <= t

IsNewest(m, s) ==
  /\ s \in ValidSlots(m)
  /\ \A t \in ValidSlots(m) \ {s} : BodyOf(m, t).seq < BodyOf(m, s).seq

(* What load() restores from a memory. *)
Restored(m) ==
  IF ValidSlots(m) = {} THEN Factory ELSE BodyOf(m, Newest(m)).content

-----------------------------------------------------------------------------
(* Mutants of NextSlot: the ring of the old firmware; no wear levelling. *)
NextSlotPastRing(h) == h + 1
NextSlotInPlace(h) == h

NextSlot(h) == (h + 1) % SlotCount

(* commit() once it is accepted, from the head and sequence number h and n. *)
QueueCommit(h, n, content) ==
  /\ ~active /\ ~pendingCommit
  /\ Begin(RecordOps(NextSlot(h), [seq |-> n + 1, content |-> content]))
  /\ pendingHead' = NextSlot(h)
  /\ pendingSeq' = n + 1
  /\ pendingCommit' = TRUE

Commit(content) ==
  /\ QueueCommit(head, seq, content)
  /\ UNCHANGED <<head, seq>>

(* load() on a store just constructed: no commit pending, writer idle. *)
LoadNothing ==
  /\ ValidSlots(eeprom) = {}
  /\ head' = SlotCount - 1
  /\ seq' = 0
  /\ UNCHANGED <<writerVars, pendingCommit, pendingHead, pendingSeq>>

LoadFromRing ==
  /\ ValidSlots(eeprom) # {}
  /\ Newest(eeprom) # LegacySlot
  /\ head' = Newest(eeprom)
  /\ seq' = BodyOf(eeprom, Newest(eeprom)).seq
  /\ UNCHANGED <<writerVars, pendingCommit, pendingHead, pendingSeq>>

(* A newest record in the former twelfth slot is copied into the ring. *)
LoadAndMigrate ==
  /\ ValidSlots(eeprom) # {}
  /\ Newest(eeprom) = LegacySlot
  /\ head' = SlotCount - 1
  /\ seq' = BodyOf(eeprom, LegacySlot).seq
  /\ QueueCommit(SlotCount - 1, BodyOf(eeprom, LegacySlot).seq, Restored(eeprom))

Load == LoadNothing \/ LoadFromRing \/ LoadAndMigrate

(* Mutant of ObserveWriter: the head advances before the record is written. *)
ObserveWriterEarly(a) ==
  IF pendingCommit
    THEN /\ head' = pendingHead
         /\ seq' = pendingSeq
         /\ pendingCommit' = FALSE
         /\ UNCHANGED <<pendingHead, pendingSeq>>
    ELSE UNCHANGED liveVars

(* observeWriter(), called with the writer's state a as service() left it. *)
ObserveWriter(a) ==
  IF pendingCommit /\ ~a
    THEN /\ head' = pendingHead
         /\ seq' = pendingSeq
         /\ pendingCommit' = FALSE
         /\ UNCHANGED <<pendingHead, pendingSeq>>
    ELSE UNCHANGED liveVars

LiveTypeOK ==
  /\ head \in 0 .. SlotCount - 1
  /\ seq \in Nat
  /\ pendingCommit \in BOOLEAN
  /\ pendingHead \in 0 .. SlotCount - 1
  /\ pendingSeq \in Nat
=============================================================================
