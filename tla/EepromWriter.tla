---------------------------- MODULE EepromWriter ----------------------------
(***************************************************************************)
(* The EEPROM of the ATmega328P (AvrEeprom.h) and the non-blocking write   *)
(* queue in front of it (AsyncEepromWriter.h).                             *)
(*                                                                         *)
(* Every persistent structure of the firmware (live-state slot, scale and  *)
(* configuration preset, calibration record) is a framed record: a marker  *)
(* cell followed by body cells under a CRC.  A record is modelled as one   *)
(* marker cell, offset 0, and BodyLen body cells.  A body cell holds the   *)
(* image it was written from, so a body is complete exactly when all of    *)
(* its cells come from one image; that the CRC tells a complete body from  *)
(* a mixed or torn one is the abstraction of Crc16.h.                      *)
(***************************************************************************)
EXTENDS Integers, Sequences

CONSTANTS
  Record,   \* the framed records of the address map (PersistenceLayout.h)
  BodyLen,  \* number of cells behind the marker cell of a record
  Content,  \* payloads a record may carry
  Marked,   \* kRecordMarker
  Erased,   \* kErasedByte
  Torn      \* any other byte: a write cut short by a power loss, foreign data

(* A record's body: its payload and, for the live ring, its sequence number. *)
Image == [seq : Nat, content : Content]

Offset == 0 .. BodyLen
Cell   == Record \X Offset
Byte   == Image \cup {Marked, Erased, Torn}
Op     == [cell : Cell, byte : Byte]

ASSUME WriterAssumption ==
  /\ BodyLen \in Nat \ {0}
  /\ Marked \notin Image /\ Erased \notin Image /\ Torn \notin Image
  /\ Marked # Erased /\ Marked # Torn /\ Erased # Torn

VARIABLES
  eeprom,   \* what the cells hold
  writing,  \* the byte being programmed, as a set of at most one operation
  queue,    \* addresses_ and values_ of the queued job
  pos,      \* pos_: bytes submitted so far
  active    \* active_

deviceVars == <<eeprom, writing>>
writerVars == <<eeprom, writing, queue, pos, active>>

-----------------------------------------------------------------------------
(* Records *)

Complete(m, r) ==
  /\ m[<<r, 1>>] \in Image
  /\ \A o \in 1 .. BodyLen : m[<<r, o>>] = m[<<r, 1>>]

(* readRecord / readValidatedRecord: marker, version and CRC match. *)
Valid(m, r) == m[<<r, 0>>] = Marked /\ Complete(m, r)

BodyOf(m, r) == m[<<r, 1>>]

(* Mutant of RecordOps: the old marker is not invalidated first. *)
RecordOpsOverMarker(r, image) ==
  [k \in 1 .. BodyLen + 2 |->
     [cell |-> <<r, IF k = BodyLen + 2 THEN 0 ELSE k - 1>>,
      byte |-> IF k \in {1, BodyLen + 2} THEN Marked ELSE image]]

(* The queue of one record write: invalidate, body, marker last. *)
RecordOps(r, image) ==
  [k \in 1 .. BodyLen + 2 |->
     [cell |-> <<r, IF k = BodyLen + 2 THEN 0 ELSE k - 1>>,
      byte |-> IF k = 1 THEN Erased
               ELSE IF k = BodyLen + 2 THEN Marked ELSE image]]

(* The queue that invalidates the records of a sequence. *)
EraseOps(records) ==
  [k \in 1 .. Len(records) |-> [cell |-> <<records[k], 0>>, byte |-> Erased]]

-----------------------------------------------------------------------------
(* AvrEeprom *)

Ready == writing = {}

(* writeByte(): a byte equal to the stored one is not programmed again.  The
   cell counts as changed when programming ends: a read waits until then. *)
WriteByte(op) ==
  /\ writing' = IF eeprom[op.cell] = op.byte THEN {} ELSE {op}
  /\ UNCHANGED eeprom

(* The controller finishes programming a byte, some 3.4 ms after writeByte. *)
Programmed ==
  /\ \E op \in writing : eeprom' = [eeprom EXCEPT ![op.cell] = op.byte]
  /\ writing' = {}
  /\ UNCHANGED <<queue, pos, active>>

-----------------------------------------------------------------------------
(* AsyncEepromWriter *)

Begin(ops) ==
  /\ ~active
  /\ queue' = ops
  /\ pos' = 0
  /\ active' = TRUE
  /\ UNCHANGED deviceVars

Submit ==
  /\ active /\ pos < Len(queue) /\ Ready
  /\ WriteByte(queue[pos + 1])
  /\ pos' = pos + 1
  /\ UNCHANGED <<queue, active>>

Finish ==
  /\ active /\ pos >= Len(queue) /\ Ready
  /\ active' = FALSE
  /\ UNCHANGED <<eeprom, writing, queue, pos>>

Waiting ==
  /\ ~active \/ ~Ready
  /\ UNCHANGED writerVars

Service == Submit \/ Finish \/ Waiting

-----------------------------------------------------------------------------
(* The byte under programming keeps its old value, takes the new one or
   reads back as neither; the queue is RAM and is lost. *)
LosePower ==
  /\ \/ UNCHANGED eeprom
     \/ \E op \in writing : \E b \in {op.byte, Torn} :
          eeprom' = [eeprom EXCEPT ![op.cell] = b]
  /\ writing' = {}
  /\ queue' = <<>>
  /\ pos' = 0
  /\ active' = FALSE

WriterTypeOK ==
  /\ eeprom \in [Cell -> Byte]
  /\ writing \in SUBSET Op
  /\ queue \in Seq(Op)
  /\ pos \in 0 .. Len(queue)
  /\ active \in BOOLEAN
=============================================================================
