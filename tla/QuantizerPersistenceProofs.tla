---------------------- MODULE QuantizerPersistenceProofs ----------------------
(***************************************************************************)
(* The persistence of the quantizer firmware, proved for every ring size,  *)
(* record length, set of presets and payload: type correctness, the marker *)
(* discipline, the agreement of head_ and seq_ with the EEPROM, that the   *)
(* live-state store implements a register that survives power loss, and    *)
(* that the cached dirty flag and occupancy bits are true.                 *)
(***************************************************************************)
EXTENDS QuantizerPersistence, TLAPS

-----------------------------------------------------------------------------
(* Slots and jobs *)

(* The next slot is a ring slot and never the one it follows. *)
LEMMA NextSlotProperties ==
  ASSUME NEW h \in 0 .. SlotCount - 1
  PROVE  NextSlot(h) \in 0 .. SlotCount - 1 /\ NextSlot(h) # h
<1>1. SlotCount \in Nat /\ SlotCount >= 2  BY LiveAssumption
<1>2. CASE h = SlotCount - 1
  <2>1. (h + 1) % SlotCount = 0  BY <1>1, <1>2
  <2> QED BY <1>1, <1>2, <2>1 DEF NextSlot
<1>3. CASE h # SlotCount - 1
  <2>1. (h + 1) % SlotCount = h + 1  BY <1>1, <1>3
  <2> QED BY <1>1, <1>3, <2>1 DEF NextSlot
<1> QED BY <1>2, <1>3

(* A record write queues one operation per cell and one more marker. *)
LEMMA RecordOpsType ==
  ASSUME NEW r \in Record, NEW image \in Image
  PROVE  /\ RecordOps(r, image) \in Seq(Op)
         /\ Len(RecordOps(r, image)) = BodyLen + 2
         /\ RecordOps(r, image)[1] = [cell |-> <<r, 0>>, byte |-> Erased]
         /\ RecordOps(r, image)[2].byte = image
         /\ \A k \in 2 .. BodyLen + 1 :
              RecordOps(r, image)[k] = [cell |-> <<r, k - 1>>, byte |-> image]
         /\ RecordOps(r, image)[BodyLen + 2] = [cell |-> <<r, 0>>, byte |-> Marked]
<1>1. BodyLen \in Nat \ {0}  BY WriterAssumption
<1>2. RecordOps(r, image)[1] = [cell |-> <<r, 0>>, byte |-> Erased]
  BY <1>1 DEF RecordOps
<1>3. \A k \in 2 .. BodyLen + 1 :
        RecordOps(r, image)[k] = [cell |-> <<r, k - 1>>, byte |-> image]
  BY <1>1 DEF RecordOps
<1>4. RecordOps(r, image)[BodyLen + 2] = [cell |-> <<r, 0>>, byte |-> Marked]
  BY <1>1 DEF RecordOps
<1>5. RecordOps(r, image)[2].byte = image
  <2>1. 2 \in 2 .. BodyLen + 1  BY <1>1
  <2>2. RecordOps(r, image)[2] = [cell |-> <<r, 2 - 1>>, byte |-> image]  BY <2>1, <1>3
  <2> QED BY <2>2
<1>6. \A k \in 1 .. BodyLen + 2 : RecordOps(r, image)[k] \in Op
  <2>1. Erased \in Byte /\ Marked \in Byte /\ image \in Byte  BY DEF Byte
  <2>2. \A o \in Offset : <<r, o>> \in Cell  BY DEF Cell
  <2>3. 0 \in Offset /\ \A k \in 2 .. BodyLen + 1 : k - 1 \in Offset  BY <1>1 DEF Offset
  <2>4. RecordOps(r, image)[1] \in Op  BY <1>2, <2>1, <2>2, <2>3 DEF Op
  <2>5. RecordOps(r, image)[BodyLen + 2] \in Op  BY <1>4, <2>1, <2>2, <2>3 DEF Op
  <2>6. \A k \in 2 .. BodyLen + 1 : RecordOps(r, image)[k] \in Op
    <3> TAKE k \in 2 .. BodyLen + 1
    <3>1. <<r, k - 1>> \in Cell  BY <2>2, <2>3
    <3>2. RecordOps(r, image)[k] = [cell |-> <<r, k - 1>>, byte |-> image]  BY <1>3
    <3> QED BY <2>1, <3>1, <3>2 DEF Op
  <2>7. \A k \in 1 .. BodyLen + 2 : k = 1 \/ k = BodyLen + 2 \/ k \in 2 .. BodyLen + 1
    BY <1>1
  <2> QED BY <2>4, <2>5, <2>6, <2>7
<1>7. RecordOps(r, image) = [k \in 1 .. BodyLen + 2 |-> RecordOps(r, image)[k]]
  BY DEF RecordOps
<1>8. RecordOps(r, image) \in [1 .. BodyLen + 2 -> Op]  BY <1>6, <1>7
<1>9. RecordOps(r, image) \in Seq(Op) /\ Len(RecordOps(r, image)) = BodyLen + 2
  BY <1>1, <1>8
<1> QED BY <1>2, <1>3, <1>4, <1>5, <1>9

(* The erase queue is a sequence of marker invalidations of presets. *)
LEMMA EraseOpsType ==
  /\ EraseOps(ScaleSlots \o ConfigSlots) \in Seq(Op)
  /\ \A k \in 1 .. Len(EraseOps(ScaleSlots \o ConfigSlots)) :
       \E r \in Preset :
         EraseOps(ScaleSlots \o ConfigSlots)[k] = [cell |-> <<r, 0>>, byte |-> Erased]
<1> DEFINE all == ScaleSlots \o ConfigSlots
<1>1. ScaleSlots \in Seq(Record) /\ ConfigSlots \in Seq(Record)  BY PresetAssumption
<1>2. all \in Seq(Record)  BY <1>1
<1>3. \A k \in 1 .. Len(all) : all[k] \in Preset
  BY <1>1 DEF Preset, ScaleSlot, ConfigSlot
<1> HIDE DEF all
<1>4. Len(all) \in Nat /\ \A k \in 1 .. Len(all) : all[k] \in Record  BY <1>2
<1>5. \A k \in 1 .. Len(all) : EraseOps(all)[k] = [cell |-> <<all[k], 0>>, byte |-> Erased]
  BY DEF EraseOps
<1>6. \A k \in 1 .. Len(all) : <<all[k], 0>> \in Cell
  BY <1>4, WriterAssumption DEF Cell, Offset
<1>7. \A k \in 1 .. Len(all) : EraseOps(all)[k] \in Op
  <2> TAKE k \in 1 .. Len(all)
  <2>1. EraseOps(all)[k] = [cell |-> <<all[k], 0>>, byte |-> Erased]  BY <1>5
  <2>2. <<all[k], 0>> \in Cell /\ Erased \in Byte  BY <1>6 DEF Byte
  <2> QED BY <2>1, <2>2 DEF Op
<1>8. EraseOps(all) = [k \in 1 .. Len(all) |-> EraseOps(all)[k]]  BY DEF EraseOps
<1>9. EraseOps(all) \in Seq(Op) /\ Len(EraseOps(all)) = Len(all)  BY <1>4, <1>7, <1>8
<1>10. /\ EraseOps(all) \in Seq(Op)
       /\ \A k \in 1 .. Len(EraseOps(all)) :
            \E r \in Preset : EraseOps(all)[k] = [cell |-> <<r, 0>>, byte |-> Erased]
  BY <1>3, <1>5, <1>9
<1> QED BY <1>10 DEF all

-----------------------------------------------------------------------------
(* Memories that differ in one record *)

(* m2 differs from m only in cells of record r. *)
OnlyIn(m, m2, r) ==
  \A q \in Record \ {r} : \A o \in Offset : m2[<<q, o>>] = m[<<q, o>>]

LEMMA UntouchedRecord ==
  ASSUME NEW m, NEW m2, NEW r, OnlyIn(m, m2, r), NEW q \in Record \ {r}
  PROVE  /\ Complete(m2, q) <=> Complete(m, q)
         /\ Valid(m2, q) <=> Valid(m, q)
         /\ BodyOf(m2, q) = BodyOf(m, q)
         /\ m2[<<q, 0>>] = m[<<q, 0>>]
<1>1. BodyLen \in Nat \ {0}  BY WriterAssumption
<1>2. \A o \in Offset : m2[<<q, o>>] = m[<<q, o>>]  BY DEF OnlyIn
<1>3. 0 \in Offset /\ 1 \in Offset /\ 1 .. BodyLen \subseteq Offset  BY <1>1 DEF Offset
<1> QED BY <1>2, <1>3 DEF Complete, Valid, BodyOf

(* A newest record is the one load() finds. *)
LEMMA NewestUnique ==
  ASSUME NEW m, NEW s, IsNewest(m, s)
  PROVE  /\ Newest(m) = s
         /\ ValidSlots(m) # {}
         /\ s \in LiveSlot
         /\ Restored(m) = BodyOf(m, s).content
         /\ BodyOf(m, s) \in Image
<1>1. s \in ValidSlots(m) /\ s \in LiveSlot  BY DEF IsNewest, ValidSlots
<1>2. \A t \in ValidSlots(m) : BodyOf(m, t) \in Image /\ BodyOf(m, t).seq \in Nat
  BY DEF ValidSlots, Valid, Complete, BodyOf, Image
<1>3. \A t \in ValidSlots(m) \ {s} : BodyOf(m, t).seq < BodyOf(m, s).seq
  BY DEF IsNewest
<1>4. s <= s  BY <1>1, LiveAssumption DEF LiveSlot
<1> DEFINE Wins(t) == \A u \in ValidSlots(m) :
      \/ BodyOf(m, u).seq < BodyOf(m, t).seq
      \/ BodyOf(m, u).seq = BodyOf(m, t).seq /\ t <= u
<1>5. Wins(s)  BY <1>3, <1>4
<1>6. \A t \in ValidSlots(m) : Wins(t) => t = s
  <2> SUFFICES ASSUME NEW t \in ValidSlots(m), Wins(t), t # s PROVE FALSE  OBVIOUS
  <2>1. BodyOf(m, t).seq < BodyOf(m, s).seq  BY <1>3
  <2>2. BodyOf(m, s).seq <= BodyOf(m, t).seq  BY <1>1, <1>2
  <2> QED BY <1>1, <1>2, <2>1, <2>2
<1>7. Newest(m) = s  BY <1>1, <1>5, <1>6 DEF Newest
<1> QED BY <1>1, <1>2, <1>7 DEF Restored

(* Losing a slot other than the newest, or none, changes nothing restored. *)
LEMMA NewestSurvives ==
  ASSUME NEW m, NEW m2, NEW r, OnlyIn(m, m2, r),
         NEW s, IsNewest(m, s), s # r,
         r \in LiveSlot => ~Valid(m2, r)
  PROVE  /\ IsNewest(m2, s)
         /\ BodyOf(m2, s) = BodyOf(m, s)
         /\ Restored(m2) = Restored(m)
<1>1. LiveSlot \subseteq Record  BY LiveAssumption
<1>2. \A q \in LiveSlot \ {r} : /\ Valid(m2, q) <=> Valid(m, q)
                                /\ BodyOf(m2, q) = BodyOf(m, q)
  BY <1>1, UntouchedRecord
<1>3. s \in LiveSlot \ {r}  BY DEF IsNewest, ValidSlots
<1>4. ValidSlots(m2) \subseteq ValidSlots(m) \ {r}  BY <1>2 DEF ValidSlots
<1>5. s \in ValidSlots(m2)  BY <1>2, <1>3 DEF IsNewest, ValidSlots
<1>6. IsNewest(m2, s)
  BY <1>2, <1>3, <1>4, <1>5 DEF IsNewest, ValidSlots
<1> QED BY <1>2, <1>3, <1>6, NewestUnique

LEMMA NoneSurvives ==
  ASSUME NEW m, NEW m2, NEW r, OnlyIn(m, m2, r), ValidSlots(m) = {},
         r \in LiveSlot => ~Valid(m2, r)
  PROVE  ValidSlots(m2) = {} /\ Restored(m2) = Restored(m)
<1>1. \A q \in LiveSlot \ {r} : Valid(m2, q) <=> Valid(m, q)
  BY LiveAssumption, UntouchedRecord
<1>2. ValidSlots(m2) = {}  BY <1>1 DEF ValidSlots
<1> QED BY <1>2 DEF Restored

(* A record completed with a higher sequence number becomes the newest. *)
LEMMA NewRecordWins ==
  ASSUME NEW m, NEW m2, NEW r \in LiveSlot, OnlyIn(m, m2, r),
         Valid(m2, r), BodyOf(m2, r) \in Image,
         \A q \in ValidSlots(m) \ {r} : BodyOf(m, q).seq < BodyOf(m2, r).seq
  PROVE  IsNewest(m2, r) /\ Restored(m2) = BodyOf(m2, r).content
<1>1. \A q \in LiveSlot \ {r} : /\ Valid(m2, q) <=> Valid(m, q)
                                /\ BodyOf(m2, q) = BodyOf(m, q)
  BY LiveAssumption, UntouchedRecord
<1>2. IsNewest(m2, r)  BY <1>1 DEF IsNewest, ValidSlots
<1> QED BY <1>2, NewestUnique

-----------------------------------------------------------------------------
(* One byte of a job reaches its cell *)

(* A byte b of a record job, the queued one or a torn one, touches only the
   record's own cells, and the record is valid afterwards exactly when b is
   the final marker. *)
LEMMA RecordJobByte ==
  ASSUME eeprom \in [Cell -> Byte],
         NEW r \in Record, NEW image \in Image, RecordJob(r, image),
         NEW op \in writing, op = queue[pos], pos \in 1 .. Len(queue),
         NEW b \in {op.byte, Torn}, NEW m2, m2 = [eeprom EXCEPT ![op.cell] = b]
  PROVE  /\ m2 \in [Cell -> Byte]
         /\ OnlyIn(eeprom, m2, r)
         /\ IF pos = BodyLen + 2 /\ b = op.byte
              THEN Valid(m2, r) /\ BodyOf(m2, r) = image
              ELSE m2[<<r, 0>>] # Marked
<1>1. BodyLen \in Nat \ {0}  BY WriterAssumption
<1>2. Len(queue) = BodyLen + 2 /\ queue = RecordOps(r, image)
  BY RecordOpsType DEF RecordJob
<1>3. pos \in Nat /\ pos >= 1 /\ pos <= BodyLen + 2  BY <1>1, <1>2
<1>4. Done = pos - 1  BY DEF Done, Ready
<1>5. 0 \in Offset /\ 1 .. BodyLen \subseteq Offset  BY <1>1 DEF Offset
<1>6. Erased \in Byte /\ Marked \in Byte /\ Torn \in Byte /\ image \in Byte  BY DEF Byte
<1>a. op = RecordOps(r, image)[pos] /\ m2 = [eeprom EXCEPT ![op.cell] = b]
  BY <1>2
<1>b. /\ RecordOps(r, image)[1] = [cell |-> <<r, 0>>, byte |-> Erased]
      /\ \A k \in 2 .. BodyLen + 1 :
           RecordOps(r, image)[k] = [cell |-> <<r, k - 1>>, byte |-> image]
      /\ RecordOps(r, image)[BodyLen + 2] = [cell |-> <<r, 0>>, byte |-> Marked]
  BY RecordOpsType
<1>7. CASE pos = 1
  <2>1. op.cell = <<r, 0>> /\ op.byte = Erased  BY <1>a, <1>b, <1>7
  <2>2. b \in Byte /\ b # Marked  BY <2>1, <1>6, WriterAssumption
  <2>3. m2 = [eeprom EXCEPT ![<<r, 0>>] = b]  BY <2>1, <1>a
  <2>4. /\ m2 \in [Cell -> Byte]
        /\ OnlyIn(eeprom, m2, r)
        /\ m2[<<r, 0>>] = b
    BY <2>2, <2>3, <1>5 DEF OnlyIn, Cell
  <2>5. pos # BodyLen + 2  BY <1>1, <1>7
  <2> QED BY <2>2, <2>4, <2>5
<1>8. CASE pos \in 2 .. BodyLen + 1
  <2>1. op = [cell |-> <<r, pos - 1>>, byte |-> image]  BY <1>a, <1>b, <1>8
  <2>2. b \in Byte /\ op.cell = <<r, pos - 1>>  BY <2>1, <1>6
  <2>3. m2 = [eeprom EXCEPT ![<<r, pos - 1>>] = b]  BY <2>2, <1>a
  <2>4. pos - 1 \in Offset \ {0}  BY <1>1, <1>8 DEF Offset
  <2>5. /\ m2 \in [Cell -> Byte]
        /\ OnlyIn(eeprom, m2, r)
        /\ m2[<<r, 0>>] = eeprom[<<r, 0>>]
    BY <2>2, <2>3, <2>4, <1>5 DEF OnlyIn, Cell
  <2>6. eeprom[<<r, 0>>] = Erased
    BY <1>1, <1>4, <1>8 DEF RecordJob
  <2>7. pos # BodyLen + 2  BY <1>1, <1>8
  <2> QED BY <2>5, <2>6, <2>7, WriterAssumption
<1>9. CASE pos = BodyLen + 2
  <2>1. op.cell = <<r, 0>> /\ op.byte = Marked  BY <1>a, <1>b, <1>9
  <2>2. b \in Byte /\ m2 = [eeprom EXCEPT ![<<r, 0>>] = b]  BY <2>1, <1>6, <1>a
  <2>3. /\ m2 \in [Cell -> Byte]
        /\ OnlyIn(eeprom, m2, r)
        /\ m2[<<r, 0>>] = b
        /\ \A o \in Offset \ {0} : m2[<<r, o>>] = eeprom[<<r, o>>]
    BY <2>2, <1>5 DEF OnlyIn, Cell
  <2>4. \A o \in 1 .. BodyLen : eeprom[<<r, o>>] = image
    BY <1>1, <1>4, <1>9 DEF RecordJob
  <2>5. \A o \in 1 .. BodyLen : o \in Offset \ {0}  BY <1>1, <1>5
  <2>6. \A o \in 1 .. BodyLen : m2[<<r, o>>] = image  BY <2>3, <2>4, <2>5
  <2>7. m2[<<r, 1>>] = image  BY <2>6, <1>1
  <2>8. b = op.byte => Valid(m2, r) /\ BodyOf(m2, r) = image
    BY <2>1, <2>3, <2>6, <2>7 DEF Valid, Complete, BodyOf
  <2>9. b # op.byte => m2[<<r, 0>>] # Marked  BY <2>1, <2>3
  <2> QED BY <2>3, <2>8, <2>9, <1>9
<1>10. pos = 1 \/ pos \in 2 .. BodyLen + 1 \/ pos = BodyLen + 2  BY <1>1, <1>3
<1> QED BY <1>7, <1>8, <1>9, <1>10

(* A byte of an erase job clears or tears the marker of one preset. *)
LEMMA EraseJobByte ==
  ASSUME eeprom \in [Cell -> Byte], queue = EraseOps(ScaleSlots \o ConfigSlots),
         NEW op, op = queue[pos], pos \in 1 .. Len(queue),
         NEW b \in {op.byte, Torn}, NEW m2, m2 = [eeprom EXCEPT ![op.cell] = b]
  PROVE  /\ m2 \in [Cell -> Byte]
         /\ \E r \in Preset : OnlyIn(eeprom, m2, r) /\ m2[<<r, 0>>] # Marked
<1>1. PICK r \in Preset : op = [cell |-> <<r, 0>>, byte |-> Erased]
  BY EraseOpsType
<1>2. r \in Record  BY MemoryAssumption
<1>3. 0 \in Offset  BY WriterAssumption DEF Offset
<1>4. op.cell = <<r, 0>> /\ b \in Byte /\ b # Marked
  BY <1>1, WriterAssumption DEF Byte
<1>5. m2 = [eeprom EXCEPT ![<<r, 0>>] = b]  BY <1>4
<1>6. /\ m2 \in [Cell -> Byte]
      /\ OnlyIn(eeprom, m2, r)
      /\ m2[<<r, 0>>] = b
  BY <1>2, <1>3, <1>4, <1>5 DEF OnlyIn, Cell
<1> QED BY <1>4, <1>6

(* A record outside the live ring leaves the ring as it was. *)
LEMMA RingUntouched ==
  ASSUME NEW m, NEW m2, NEW r, OnlyIn(m, m2, r), r \notin LiveSlot
  PROVE  /\ ValidSlots(m2) = ValidSlots(m)
         /\ \A s \in LiveSlot : BodyOf(m2, s) = BodyOf(m, s)
         /\ \A s : IsNewest(m2, s) <=> IsNewest(m, s)
         /\ HasNewest(m) => HasNewest(m2)
         /\ HasNewest(m) => Restored(m2) = Restored(m)
<1>1. \A q \in LiveSlot : /\ Valid(m2, q) <=> Valid(m, q)
                          /\ BodyOf(m2, q) = BodyOf(m, q)
  <2> TAKE q \in LiveSlot
  <2>1. q \in Record \ {r}  BY LiveAssumption
  <2> QED BY <2>1, UntouchedRecord
<1>2. ValidSlots(m2) = ValidSlots(m)  BY <1>1 DEF ValidSlots
<1>3. \A s : IsNewest(m2, s) <=> IsNewest(m, s)
  <2>1. \A t \in ValidSlots(m) : BodyOf(m2, t) = BodyOf(m, t)
    BY <1>1 DEF ValidSlots
  <2> QED BY <1>2, <2>1 DEF IsNewest
<1>4. HasNewest(m) => HasNewest(m2)  BY <1>2, <1>3 DEF HasNewest
<1>5. ASSUME HasNewest(m) PROVE Restored(m2) = Restored(m)
  <2>1. CASE ValidSlots(m) = {}  BY <2>1, <1>2 DEF Restored
  <2>2. CASE ValidSlots(m) # {}
    <3>1. PICK s \in ValidSlots(m) : IsNewest(m, s)  BY <2>2, <1>5 DEF HasNewest
    <3>2. s \in LiveSlot  BY DEF ValidSlots
    <3> QED BY <1>1, <1>3, <3>1, <3>2, NewestUnique
  <2> QED BY <2>1, <2>2
<1> QED BY <1>1, <1>2, <1>3, <1>4, <1>5

(* The marker discipline survives a step that touches one record and leaves it
   complete or unmarked. *)
LEMMA DisciplineKept ==
  ASSUME NEW m, NEW m2, NEW r, OnlyIn(m, m2, r), MarkedRecordsComplete(m),
         m2[<<r, 0>>] # Marked \/ Complete(m2, r)
  PROVE  MarkedRecordsComplete(m2)
<1> SUFFICES ASSUME NEW q \in Record \ {LegacySlot}, m2[<<q, 0>>] = Marked
             PROVE  Complete(m2, q)
  BY DEF MarkedRecordsComplete
<1>1. CASE q = r  BY <1>1
<1>2. CASE q # r
  <2>1. (Complete(m2, q) <=> Complete(m, q)) /\ m2[<<q, 0>>] = m[<<q, 0>>]
    BY <1>2, UntouchedRecord
  <2> QED BY <2>1 DEF MarkedRecordsComplete
<1> QED BY <1>1, <1>2

(* What the byte under programming belongs to. *)
LEMMA WritingInJob ==
  ASSUME TypeOK, WriterInv, NEW op \in writing
  PROVE  /\ active /\ ~Ready
         /\ op = queue[pos] /\ pos \in 1 .. Len(queue) /\ Len(queue) \in Nat
         /\ CommitJob \/ PresetJob
<1>1. active /\ ~Ready  BY DEF WriterInv, Ready
<1>2. op = queue[pos] /\ pos >= 1  BY DEF WriterInv
<1>3. queue \in Seq(Op) /\ pos \in 0 .. Len(queue)  BY DEF TypeOK, WriterTypeOK
<1>4. Len(queue) \in Nat  BY <1>3
<1> QED BY <1>1, <1>2, <1>3, <1>4 DEF WriterInv

(* What one byte of the job does to the records: the marker discipline is
   kept, some record stays the newest, and what a power-up restores is either
   what it was or the content of the open commit.

   A byte of a commit: its slot becomes the newest record with the final
   marker, and until then the prior newest record stays what it was. *)
LEMMA CommitByte ==
  ASSUME IInv, CommitJob, power # "off",
         NEW op \in writing, NEW b \in {op.byte, Torn},
         NEW m2, m2 = [eeprom EXCEPT ![op.cell] = b]
  PROVE  /\ m2 \in [Cell -> Byte]
         /\ OnlyIn(eeprom, m2, pendingHead)
         /\ MarkedRecordsComplete(m2)
         /\ IF pos = BodyLen + 2 /\ b = op.byte
              THEN /\ IsNewest(m2, pendingHead)
                   /\ BodyOf(m2, pendingHead).seq = pendingSeq
                   /\ InFlight = {Restored(m2)}
              ELSE /\ Restored(m2) = Restored(eeprom)
                   /\ \/ ValidSlots(eeprom) = {} /\ ValidSlots(m2) = {}
                      \/ \E s \in LiveSlot \ {pendingHead} :
                           /\ IsNewest(m2, s)
                           /\ seq = BodyOf(m2, s).seq
         /\ HasNewest(m2)
<1>1. PICK c \in Content : RecordJob(pendingHead, [seq |-> pendingSeq, content |-> c])
  BY DEF CommitJob
<1> DEFINE image == [seq |-> pendingSeq, content |-> c]
<1>2. /\ eeprom \in [Cell -> Byte] /\ pendingHead \in 0 .. SlotCount - 1
      /\ pendingSeq \in Nat /\ seq \in Nat
  BY DEF IInv, TypeOK, WriterTypeOK, LiveTypeOK
<1>3. pendingHead \in LiveSlot /\ pendingHead \in Record
  BY <1>2, LiveAssumption DEF LiveSlot
<1>4. image \in Image /\ image.content = c /\ image.seq = pendingSeq  BY <1>2 DEF Image
<1>5. op = queue[pos] /\ pos \in 1 .. Len(queue) /\ ~Ready
  BY WritingInJob DEF IInv
<1>6. RecordJob(pendingHead, image)  BY <1>1
<1> HIDE DEF image
<1>7. /\ m2 \in [Cell -> Byte]
      /\ OnlyIn(eeprom, m2, pendingHead)
      /\ IF pos = BodyLen + 2 /\ b = op.byte
           THEN Valid(m2, pendingHead) /\ BodyOf(m2, pendingHead) = image
           ELSE m2[<<pendingHead, 0>>] # Marked
  BY <1>2, <1>3, <1>4, <1>5, <1>6, RecordJobByte
<1>8. MarkedRecordsComplete(m2)
  BY <1>7, DisciplineKept DEF IInv, MarkerDiscipline, Valid
<1>9. CommitOpen /\ PriorNewest /\ pendingSeq = seq + 1
  BY <1>5 DEF IInv, HeadInv, CommitOpen, CommitJob
<1>10. CASE pos = BodyLen + 2 /\ b = op.byte
  <2>1. \A q \in ValidSlots(eeprom) \ {pendingHead} :
          BodyOf(eeprom, q).seq < BodyOf(m2, pendingHead).seq
    <3> TAKE q \in ValidSlots(eeprom) \ {pendingHead}
    <3>1. PICK s \in LiveSlot : IsNewest(eeprom, s) /\ seq = BodyOf(eeprom, s).seq
      BY <1>9 DEF PriorNewest
    <3>2. q = s \/ BodyOf(eeprom, q).seq < seq  BY <3>1 DEF IsNewest
    <3>3. BodyOf(eeprom, q).seq \in Nat
      BY DEF ValidSlots, Valid, Complete, BodyOf, Image
    <3> QED BY <1>2, <1>4, <1>7, <1>9, <1>10, <3>1, <3>2, <3>3
  <2>2. IsNewest(m2, pendingHead) /\ Restored(m2) = BodyOf(m2, pendingHead).content
    BY <1>3, <1>4, <1>7, <1>10, <2>1, NewRecordWins
  <2>3. queue[2].byte = image
    BY <1>3, <1>4, <1>6, RecordOpsType DEF RecordJob
  <2>4. InFlight = {Restored(m2)}  BY <1>4, <1>7, <1>9, <1>10, <2>2, <2>3 DEF InFlight
  <2>5. HasNewest(m2)  BY <2>2 DEF HasNewest, IsNewest
  <2> QED BY <1>4, <1>7, <1>8, <1>10, <2>2, <2>4, <2>5
<1>11. CASE ~(pos = BodyLen + 2 /\ b = op.byte)
  <2>1. ~Valid(m2, pendingHead)  BY <1>7, <1>11 DEF Valid
  <2>2. CASE ValidSlots(eeprom) = {}
    <3>1. ValidSlots(m2) = {} /\ Restored(m2) = Restored(eeprom)
      BY <1>7, <2>1, <2>2, NoneSurvives
    <3> QED BY <1>7, <1>8, <1>11, <2>2, <3>1 DEF HasNewest
  <2>3. CASE \E s \in LiveSlot \ {pendingHead} :
               IsNewest(eeprom, s) /\ seq = BodyOf(eeprom, s).seq
    <3>1. PICK s \in LiveSlot \ {pendingHead} :
            IsNewest(eeprom, s) /\ seq = BodyOf(eeprom, s).seq
      BY <2>3
    <3>2. /\ IsNewest(m2, s)
          /\ BodyOf(m2, s) = BodyOf(eeprom, s)
          /\ Restored(m2) = Restored(eeprom)
      BY <1>7, <2>1, <3>1, NewestSurvives
    <3>3. HasNewest(m2)  BY <3>2 DEF HasNewest, IsNewest
    <3> QED BY <1>7, <1>8, <1>11, <3>1, <3>2, <3>3
  <2> QED BY <1>9, <2>2, <2>3 DEF PriorNewest
<1> QED BY <1>10, <1>11

(* A byte of a preset job leaves the ring and what it restores alone. *)
LEMMA PresetByte ==
  ASSUME IInv, PresetJob,
         NEW op \in writing, NEW b \in {op.byte, Torn},
         NEW m2, m2 = [eeprom EXCEPT ![op.cell] = b]
  PROVE  /\ m2 \in [Cell -> Byte]
         /\ MarkedRecordsComplete(m2)
         /\ HasNewest(m2)
         /\ Restored(m2) = Restored(eeprom)
         /\ ValidSlots(m2) = ValidSlots(eeprom)
         /\ \A s \in LiveSlot : BodyOf(m2, s) = BodyOf(eeprom, s)
         /\ \A s : IsNewest(m2, s) <=> IsNewest(eeprom, s)
<1>1. eeprom \in [Cell -> Byte]  BY DEF IInv, TypeOK, WriterTypeOK
<1>2. op = queue[pos] /\ pos \in 1 .. Len(queue)
  BY WritingInJob DEF IInv
<1>3. m2 \in [Cell -> Byte] /\
      \E r \in Preset : /\ OnlyIn(eeprom, m2, r)
                        /\ m2[<<r, 0>>] # Marked \/ Complete(m2, r)
  <2>1. CASE queue = EraseOps(ScaleSlots \o ConfigSlots)
    BY <1>1, <1>2, <2>1, EraseJobByte
  <2>2. CASE \E r \in Preset, c \in Content : RecordJob(r, [seq |-> 0, content |-> c])
    <3>1. PICK r \in Preset, c \in Content : RecordJob(r, [seq |-> 0, content |-> c])
      BY <2>2
    <3>2. r \in Record  BY MemoryAssumption
    <3>3. [seq |-> 0, content |-> c] \in Image  BY DEF Image
    <3>4. /\ m2 \in [Cell -> Byte]
          /\ OnlyIn(eeprom, m2, r)
          /\ Valid(m2, r) \/ m2[<<r, 0>>] # Marked
      BY <1>1, <1>2, <3>1, <3>2, <3>3, RecordJobByte
    <3> QED BY <3>4 DEF Valid
  <2> QED BY <2>1, <2>2 DEF PresetJob
<1>4. PICK r \in Preset : /\ OnlyIn(eeprom, m2, r)
                          /\ m2[<<r, 0>>] # Marked \/ Complete(m2, r)
  BY <1>3
<1>5. r \notin LiveSlot  BY MemoryAssumption
<1>6. MarkedRecordsComplete(m2)
  BY <1>4, DisciplineKept DEF IInv, MarkerDiscipline
<1> QED BY <1>3, <1>4, <1>5, <1>6, RingUntouched DEF IInv

-----------------------------------------------------------------------------
(* The invariant without the types: what each step below re-establishes. *)

StoreInv ==
  WriterInv /\ HeadInv /\ MarkerDiscipline /\ HasNewest(eeprom)

(* What a power-up restores is a configuration. *)
LEMMA RestoredType ==
  ASSUME NEW m, HasNewest(m)
  PROVE  Restored(m) \in Content
<1>1. CASE ValidSlots(m) = {}  BY <1>1, LiveAssumption DEF Restored
<1>2. CASE ValidSlots(m) # {}
  <2>1. PICK s : IsNewest(m, s)  BY <1>2 DEF HasNewest
  <2> QED BY <2>1, NewestUnique DEF Image
<1> QED BY <1>1, <1>2

(* A step that leaves the stores alone keeps what holds of them. *)
LEMMA StoresUntouched ==
  ASSUME IInv, UNCHANGED <<writerVars, liveVars>>, power' = power
  PROVE  StoreInv'
<1>1. StoreInv  BY DEF IInv, StoreInv
<1> QED BY <1>1 DEF StoreInv, WriterInv, HeadInv, MarkerDiscipline, HeadDescribes,
     PriorNewest, CommitOpen, CommitJob, PresetJob, RecordJob, Done, Ready,
     writerVars, liveVars

(* A finished commit is the newest record, so adopting it describes the ring. *)
LEMMA Observed ==
  ASSUME IInv, power # "off", pendingCommit, ~active,
         UNCHANGED writerVars, ObserveWriter(active)
  PROVE  HeadInv' /\ WriterInv'
<1>1. writing = {} /\ pos = Len(queue)  BY DEF IInv, WriterInv
<1>2. pos \in Nat /\ Len(queue) \in Nat  BY <1>1 DEF IInv, TypeOK, WriterTypeOK
<1>3. ~CommitOpen  BY <1>1, <1>2 DEF CommitOpen, Ready
<1>4. IsNewest(eeprom, pendingHead) /\ BodyOf(eeprom, pendingHead).seq = pendingSeq
  BY <1>3 DEF IInv, HeadInv
<1>5. /\ head' = pendingHead /\ seq' = pendingSeq /\ ~pendingCommit'
      /\ eeprom' = eeprom /\ writing' = writing /\ queue' = queue
      /\ pos' = pos /\ active' = active
  BY DEF ObserveWriter, writerVars
<1>6. HeadDescribes'  BY <1>4, <1>5 DEF HeadDescribes
<1>7. HeadInv'  BY <1>5, <1>6 DEF HeadInv, CommitOpen
<1> QED BY <1>1, <1>5, <1>7 DEF WriterInv

-----------------------------------------------------------------------------
(* The writer's steps *)

(* Submitting a byte, skipped or not, stays inside the job; the final marker
   is never skipped, since the job has erased it first. *)
LEMMA SubmitInRecordJob ==
  ASSUME TypeOK, Submit, NEW r \in Record, NEW image \in Image, RecordJob(r, image)
  PROVE  /\ RecordJob(r, image)'
         /\ pos' = Len(queue) => ~Ready'
<1> DEFINE op == queue[pos + 1]
<1>1. BodyLen \in Nat \ {0}  BY WriterAssumption
<1>2. /\ queue = RecordOps(r, image) /\ Len(queue) = BodyLen + 2
      /\ queue[1] = [cell |-> <<r, 0>>, byte |-> Erased]
      /\ \A k \in 2 .. BodyLen + 1 : queue[k] = [cell |-> <<r, k - 1>>, byte |-> image]
      /\ queue[BodyLen + 2] = [cell |-> <<r, 0>>, byte |-> Marked]
  BY RecordOpsType DEF RecordJob
<1>3. /\ active /\ writing = {} /\ pos \in Nat /\ pos < BodyLen + 2
      /\ queue' = queue /\ eeprom' = eeprom /\ pos' = pos + 1
      /\ writing' = IF eeprom[op.cell] = op.byte THEN {} ELSE {op}
  BY <1>2 DEF Submit, WriteByte, Ready, TypeOK, WriterTypeOK
<1>4. Done = pos  BY <1>3 DEF Done, Ready
<1>5. /\ Done \in 1 .. BodyLen + 1 => eeprom[<<r, 0>>] = Erased
      /\ Done = BodyLen + 2 => eeprom[<<r, 0>>] = Marked
      /\ \A o \in 1 .. BodyLen : Done >= o + 1 => eeprom[<<r, o>>] = image
  BY DEF RecordJob
<1>6. CASE eeprom[op.cell] # op.byte
  <2>1. writing' = {op}  BY <1>3, <1>6
  <2>2. ~Ready'  BY <2>1 DEF Ready
  <2>3. Done' = pos  BY <1>3, <2>2 DEF Done
  <2>4. RecordJob(r, image)'
    BY <1>2, <1>3, <1>4, <1>5, <2>3 DEF RecordJob
  <2> QED BY <2>2, <2>4
<1>7. CASE eeprom[op.cell] = op.byte
  <2>1. writing' = {}  BY <1>3, <1>7
  <2>2. Done' = pos + 1  BY <1>3, <2>1 DEF Done, Ready
  <2>3. CASE pos = 0
    <3>1. eeprom[<<r, 0>>] = Erased  BY <1>2, <1>7, <2>3
    <3>2. Done' = 1 /\ pos' = 1  BY <1>3, <2>2, <2>3
    <3> QED BY <1>1, <1>2, <1>3, <3>1, <3>2 DEF RecordJob
  <2>4. CASE pos \in 1 .. BodyLen
    <3>1. queue[pos + 1] = [cell |-> <<r, pos>>, byte |-> image]
      BY <1>1, <1>2, <2>4
    <3>2. eeprom[<<r, pos>>] = image  BY <1>7, <3>1
    <3>3. eeprom[<<r, 0>>] = Erased  BY <1>4, <1>5, <2>4, <1>1
    <3>4. \A o \in 1 .. BodyLen : pos + 1 >= o + 1 => eeprom[<<r, o>>] = image
      BY <1>1, <1>3, <1>4, <1>5, <3>2
    <3>5. pos' # Len(queue)  BY <1>1, <1>2, <1>3, <2>4
    <3> QED BY <1>1, <1>2, <1>3, <2>2, <2>4, <3>3, <3>4, <3>5 DEF RecordJob
  <2>5. CASE pos = BodyLen + 1
    <3>1. eeprom[<<r, 0>>] = Erased  BY <1>1, <1>4, <1>5, <2>5
    <3>2. eeprom[<<r, 0>>] = Marked  BY <1>1, <1>2, <1>7, <2>5
    <3> QED BY <3>1, <3>2, WriterAssumption
  <2> QED BY <1>1, <1>3, <2>3, <2>4, <2>5
<1> QED BY <1>6, <1>7

LEMMA SubmitKeepsInv ==
  ASSUME IInv, power # "off", Submit, UNCHANGED liveVars, power' = power
  PROVE  StoreInv' /\ (CommitOpen' <=> CommitOpen) /\ queue' = queue
<1>1. /\ active /\ pos \in Nat /\ pos < Len(queue) /\ Ready /\ queue \in Seq(Op)
      /\ queue' = queue /\ active' = active /\ eeprom' = eeprom /\ pos' = pos + 1
      /\ \A op \in writing' : op = queue'[pos']
  BY DEF Submit, WriteByte, IInv, TypeOK, WriterTypeOK
<1>2. /\ head' = head /\ seq' = seq /\ pendingCommit' = pendingCommit
      /\ pendingHead' = pendingHead /\ pendingSeq' = pendingSeq
  BY DEF liveVars
<1>3. CommitJob \/ PresetJob  BY <1>1 DEF IInv, WriterInv
<1>4. MarkerDiscipline' /\ HasNewest(eeprom)'
  BY <1>1 DEF IInv, MarkerDiscipline
<1>5. CASE CommitJob
  <2>1. PICK c, r, image : /\ c \in Content /\ r = pendingHead
                           /\ image = [seq |-> pendingSeq, content |-> c]
                           /\ RecordJob(r, image)
    BY <1>5 DEF CommitJob
  <2>2. r \in Record /\ image \in Image
    BY <2>1, LiveAssumption DEF IInv, TypeOK, LiveTypeOK, LiveSlot, Image
  <2>3. RecordJob(r, image)' /\ (pos' = Len(queue) => ~Ready')
    BY <2>1, <2>2, SubmitInRecordJob DEF IInv
  <2>4. CommitJob'  BY <1>2, <1>5, <2>1, <2>3 DEF CommitJob
  <2>5. WriterInv'  BY <1>1, <1>2, <2>4, <1>5 DEF WriterInv, IInv, CommitJob
  <2>6. CommitOpen /\ CommitOpen'
    BY <1>1, <1>2, <1>5, <2>3 DEF CommitOpen, CommitJob
  <2>7. HeadInv'
    BY <1>1, <1>2, <2>6 DEF IInv, HeadInv, PriorNewest, CommitOpen
  <2> QED BY <1>1, <1>4, <2>5, <2>6, <2>7 DEF StoreInv
<1>6. CASE PresetJob
  <2>1. PresetJob'
    <3>1. CASE queue = EraseOps(ScaleSlots \o ConfigSlots)
      BY <1>1, <1>2, <1>6, <3>1 DEF PresetJob
    <3>2. CASE \E r \in Preset, c \in Content : RecordJob(r, [seq |-> 0, content |-> c])
      <4>1. PICK r \in Preset, c \in Content : RecordJob(r, [seq |-> 0, content |-> c])
        BY <3>2
      <4>2. r \in Record /\ [seq |-> 0, content |-> c] \in Image
        BY MemoryAssumption DEF Image
      <4>3. RecordJob(r, [seq |-> 0, content |-> c])'
        BY <4>1, <4>2, SubmitInRecordJob DEF IInv
      <4> QED BY <1>2, <1>6, <4>3 DEF PresetJob
    <3> QED BY <1>6, <3>1, <3>2 DEF PresetJob
  <2>2. ~pendingCommit /\ ~pendingCommit'  BY <1>2, <1>6 DEF PresetJob
  <2>3. WriterInv'  BY <1>1, <2>1, <2>2 DEF WriterInv, IInv
  <2>4. HeadInv'
    BY <1>1, <1>2, <2>2 DEF IInv, HeadInv, HeadDescribes, CommitOpen
  <2> QED BY <1>1, <1>4, <2>2, <2>3, <2>4 DEF StoreInv, CommitOpen
<1> QED BY <1>3, <1>5, <1>6

(* Closing the job: a commit stays pending until it is observed. *)
LEMMA FinishKeepsInv ==
  ASSUME IInv, power \in {"boot", "mboot"}, Finish, UNCHANGED liveVars, power' = power
  PROVE  StoreInv'
<1>1. /\ pos = Len(queue) /\ writing = {} /\ active' = FALSE
      /\ eeprom' = eeprom /\ writing' = writing /\ queue' = queue /\ pos' = pos
      /\ head' = head /\ seq' = seq /\ pendingCommit' = pendingCommit
      /\ pendingHead' = pendingHead /\ pendingSeq' = pendingSeq
  BY DEF Finish, Ready, liveVars, IInv, TypeOK, WriterTypeOK
<1>2. WriterInv'  BY <1>1 DEF WriterInv, IInv
<1>3. HeadInv'
  BY <1>1 DEF IInv, HeadInv, HeadDescribes, PriorNewest, CommitOpen, Ready
<1> QED BY <1>1, <1>2, <1>3 DEF StoreInv, IInv, MarkerDiscipline

(* Closing the job and observing it at once, as the control loop does. *)
LEMMA FinishAndObserveKeepsInv ==
  ASSUME IInv, power = "running", Finish, ObserveWriter(active'), power' = power
  PROVE  StoreInv'
<1>1. /\ pos = Len(queue) /\ writing = {} /\ active' = FALSE
      /\ eeprom' = eeprom /\ writing' = writing /\ queue' = queue /\ pos' = pos
      /\ pos \in Nat
  BY DEF Finish, Ready, IInv, TypeOK, WriterTypeOK
<1>2. MarkerDiscipline' /\ HasNewest(eeprom)'
  BY <1>1 DEF IInv, MarkerDiscipline
<1>3. CASE pendingCommit
  <2>1. head' = pendingHead /\ seq' = pendingSeq /\ ~pendingCommit'
    BY <1>1, <1>3 DEF ObserveWriter
  <2>2. ~CommitOpen  BY <1>1 DEF CommitOpen, Ready
  <2>3. IsNewest(eeprom, pendingHead) /\ BodyOf(eeprom, pendingHead).seq = pendingSeq
    BY <1>3, <2>2 DEF IInv, HeadInv
  <2>4. HeadDescribes'  BY <1>1, <2>1, <2>3 DEF HeadDescribes
  <2> QED BY <1>1, <1>2, <2>1, <2>4 DEF StoreInv, WriterInv, HeadInv, CommitOpen
<1>4. CASE ~pendingCommit
  <2>1. UNCHANGED liveVars  BY <1>4 DEF ObserveWriter
  <2>2. WriterInv'  BY <1>1, <1>4, <2>1 DEF WriterInv, liveVars
  <2>3. HeadInv'
    BY <1>1, <1>4, <2>1 DEF IInv, HeadInv, HeadDescribes, CommitOpen, liveVars
  <2> QED BY <1>2, <2>2, <2>3 DEF StoreInv
<1> QED BY <1>3, <1>4

(* A poll of the writer followed by observeWriter(). *)
LEMMA ServiceAndObserveKeepsInv ==
  ASSUME IInv, power = "running", ServiceAndObserve, power' = power
  PROVE  StoreInv'
<1>1. ~active => ~pendingCommit  BY DEF IInv, WriterInv
<1>2. CASE Submit
  <2>1. active'  BY <1>2 DEF Submit
  <2>2. UNCHANGED liveVars  BY <2>1 DEF ServiceAndObserve, ObserveWriter
  <2> QED BY <1>2, <2>2, SubmitKeepsInv
<1>3. CASE Finish
  BY <1>3, FinishAndObserveKeepsInv DEF ServiceAndObserve
<1>4. CASE Waiting
  <2>1. UNCHANGED writerVars /\ active' = active  BY <1>4 DEF Waiting, writerVars
  <2>2. UNCHANGED liveVars  BY <1>1, <2>1 DEF ServiceAndObserve, ObserveWriter
  <2>3. UNCHANGED <<writerVars, liveVars>>  BY <2>1, <2>2
  <2> QED BY <2>3, StoresUntouched
<1> QED BY <1>2, <1>3, <1>4 DEF ServiceAndObserve, Service

-----------------------------------------------------------------------------
(* The EEPROM controller's steps *)

(* A byte that is programmed counts as done. *)
LEMMA ProgrammedInRecordJob ==
  ASSUME TypeOK, NEW r \in Record, NEW image \in Image, RecordJob(r, image),
         NEW op \in writing, op = queue[pos], pos \in 1 .. Len(queue),
         eeprom' = [eeprom EXCEPT ![op.cell] = op.byte],
         writing' = {}, queue' = queue, pos' = pos
  PROVE  RecordJob(r, image)'
<1>1. BodyLen \in Nat \ {0}  BY WriterAssumption
<1>2. /\ queue = RecordOps(r, image) /\ Len(queue) = BodyLen + 2
      /\ queue[1] = [cell |-> <<r, 0>>, byte |-> Erased]
      /\ \A k \in 2 .. BodyLen + 1 : queue[k] = [cell |-> <<r, k - 1>>, byte |-> image]
      /\ queue[BodyLen + 2] = [cell |-> <<r, 0>>, byte |-> Marked]
  BY RecordOpsType DEF RecordJob
<1>3. Done = pos - 1 /\ Done' = pos /\ pos \in Nat /\ pos >= 1 /\ pos <= BodyLen + 2
  BY <1>1, <1>2 DEF Done, Ready
<1>4. eeprom \in [Cell -> Byte]  BY DEF TypeOK, WriterTypeOK
<1>5. \A o \in 0 .. BodyLen : <<r, o>> \in Cell  BY <1>1 DEF Cell, Offset
<1>6. /\ Done \in 1 .. BodyLen + 1 => eeprom[<<r, 0>>] = Erased
      /\ \A o \in 1 .. BodyLen : Done >= o + 1 => eeprom[<<r, o>>] = image
  BY DEF RecordJob
<1>7. CASE pos = 1
  <2>b. op.cell = <<r, 0>> /\ op.byte = Erased  BY <1>2, <1>7
  <2>1. eeprom' = [eeprom EXCEPT ![<<r, 0>>] = Erased]  BY <2>b
  <2>2. eeprom'[<<r, 0>>] = Erased  BY <1>1, <1>4, <1>5, <2>1
  <2> QED BY <1>1, <1>2, <1>3, <1>7, <2>2 DEF RecordJob
<1>8. CASE pos \in 2 .. BodyLen + 1
  <2>a. op = [cell |-> <<r, pos - 1>>, byte |-> image]  BY <1>2, <1>8
  <2>b. op.cell = <<r, pos - 1>> /\ op.byte = image  BY <2>a
  <2>1. eeprom' = [eeprom EXCEPT ![<<r, pos - 1>>] = image]  BY <2>b
  <2>2. /\ eeprom'[<<r, pos - 1>>] = image
        /\ \A o \in 0 .. BodyLen \ {pos - 1} : eeprom'[<<r, o>>] = eeprom[<<r, o>>]
    BY <1>1, <1>4, <1>5, <1>8, <2>1
  <2>3. eeprom'[<<r, 0>>] = Erased  BY <1>1, <1>3, <1>6, <1>8, <2>2
  <2>4. \A o \in 1 .. BodyLen : pos >= o + 1 => eeprom'[<<r, o>>] = image
    BY <1>1, <1>3, <1>6, <1>8, <2>2
  <2>5. Done' # BodyLen + 2  BY <1>1, <1>3, <1>8
  <2> QED BY <1>2, <1>3, <2>3, <2>4, <2>5 DEF RecordJob
<1>9. CASE pos = BodyLen + 2
  <2>b. op.cell = <<r, 0>> /\ op.byte = Marked  BY <1>2, <1>9
  <2>1. eeprom' = [eeprom EXCEPT ![<<r, 0>>] = Marked]  BY <2>b
  <2>2. /\ eeprom'[<<r, 0>>] = Marked
        /\ \A o \in 1 .. BodyLen : eeprom'[<<r, o>>] = eeprom[<<r, o>>]
    BY <1>1, <1>4, <1>5, <2>1
  <2>3. \A o \in 1 .. BodyLen : eeprom'[<<r, o>>] = image
    BY <1>1, <1>3, <1>6, <1>9, <2>2
  <2> QED BY <1>1, <1>2, <1>3, <1>9, <2>2, <2>3 DEF RecordJob
<1> QED BY <1>1, <1>3, <1>7, <1>8, <1>9

LEMMA ByteProgrammedKeepsInv ==
  ASSUME IInv, ByteProgrammed
  PROVE  /\ StoreInv' /\ eeprom' \in [Cell -> Byte]
         /\ \/ Restored(eeprom') = Restored(eeprom) /\ (CommitOpen' <=> CommitOpen)
            \/ CommitOpen /\ InFlight = {Restored(eeprom')} /\ ~CommitOpen'
<1>1. PICK op \in writing : eeprom' = [eeprom EXCEPT ![op.cell] = op.byte]
  BY DEF ByteProgrammed, Programmed
<1>2. /\ active /\ ~Ready /\ op = queue[pos] /\ pos \in 1 .. Len(queue)
      /\ Len(queue) \in Nat /\ (CommitJob \/ PresetJob)
  BY WritingInJob DEF IInv
<1>3. /\ writing' = {} /\ queue' = queue /\ pos' = pos /\ active' = active
      /\ power' = power
      /\ head' = head /\ seq' = seq /\ pendingCommit' = pendingCommit
      /\ pendingHead' = pendingHead /\ pendingSeq' = pendingSeq
  BY DEF ByteProgrammed, Programmed, liveVars, loopVars
<1>4. power # "off" /\ power # "panel"  BY <1>2 DEF IInv, WriterInv
<1>5. Ready'  BY <1>3 DEF Ready
<1>6. CASE CommitJob
  <2>1. PICK c, r, image : /\ c \in Content /\ r = pendingHead
                           /\ image = [seq |-> pendingSeq, content |-> c]
                           /\ RecordJob(r, image)
    BY <1>6 DEF CommitJob
  <2>2. r \in Record /\ image \in Image
    BY <2>1, LiveAssumption DEF IInv, TypeOK, LiveTypeOK, LiveSlot, Image
  <2>3. RecordJob(r, image)'
    BY <1>1, <1>2, <1>3, <2>1, <2>2, ProgrammedInRecordJob DEF IInv
  <2>4. CommitJob'  BY <1>3, <1>6, <2>1, <2>3 DEF CommitJob
  <2>5. WriterInv'  BY <1>2, <1>3, <1>4, <2>4 DEF WriterInv
  <2>6. Len(queue) = BodyLen + 2
    BY <2>1, <2>2, RecordOpsType DEF RecordJob
  <2>7. /\ eeprom' \in [Cell -> Byte]
        /\ MarkedRecordsComplete(eeprom') /\ HasNewest(eeprom')
        /\ IF pos = BodyLen + 2
             THEN /\ IsNewest(eeprom', pendingHead)
                  /\ BodyOf(eeprom', pendingHead).seq = pendingSeq
                  /\ InFlight = {Restored(eeprom')}
             ELSE /\ Restored(eeprom') = Restored(eeprom)
                  /\ \/ ValidSlots(eeprom') = {}
                     \/ \E s \in LiveSlot \ {pendingHead} :
                          IsNewest(eeprom', s) /\ seq = BodyOf(eeprom', s).seq
    BY <1>1, <1>4, <1>6, CommitByte
  <2>8. CommitOpen' <=> pos # BodyLen + 2
    BY <1>2, <1>3, <1>5, <1>6, <2>6 DEF CommitOpen, CommitJob
  <2>9. HeadInv'
    <3>1. pendingCommit' /\ pendingSeq' = seq' + 1
      BY <1>3, <1>4, <1>6 DEF IInv, HeadInv, CommitJob
    <3>2. CommitOpen' => PriorNewest'  BY <1>3, <2>7, <2>8 DEF PriorNewest
    <3>3. ~CommitOpen' => /\ IsNewest(eeprom, pendingHead)'
                          /\ (BodyOf(eeprom, pendingHead).seq = pendingSeq)'
      BY <1>3, <2>7, <2>8
    <3> QED BY <3>1, <3>2, <3>3 DEF HeadInv
  <2>10. CommitOpen  BY <1>2, <1>6 DEF CommitOpen, CommitJob
  <2> QED BY <2>5, <2>7, <2>8, <2>9, <2>10 DEF StoreInv, MarkerDiscipline
<1>7. CASE PresetJob
  <2>1. /\ eeprom' \in [Cell -> Byte]
        /\ MarkedRecordsComplete(eeprom') /\ HasNewest(eeprom')
        /\ Restored(eeprom') = Restored(eeprom)
        /\ ValidSlots(eeprom') = ValidSlots(eeprom)
        /\ \A s \in LiveSlot : BodyOf(eeprom', s) = BodyOf(eeprom, s)
        /\ \A s : IsNewest(eeprom', s) <=> IsNewest(eeprom, s)
    BY <1>1, <1>7, PresetByte
  <2>2. PresetJob'
    <3>1. CASE queue = EraseOps(ScaleSlots \o ConfigSlots)
      BY <1>3, <1>7, <3>1 DEF PresetJob
    <3>2. CASE \E r \in Preset, c \in Content : RecordJob(r, [seq |-> 0, content |-> c])
      <4>1. PICK r \in Preset, c \in Content : RecordJob(r, [seq |-> 0, content |-> c])
        BY <3>2
      <4>2. r \in Record /\ [seq |-> 0, content |-> c] \in Image
        BY MemoryAssumption DEF Image
      <4>3. RecordJob(r, [seq |-> 0, content |-> c])'
        BY <1>1, <1>2, <1>3, <4>1, <4>2, ProgrammedInRecordJob DEF IInv
      <4> QED BY <1>3, <1>7, <4>3 DEF PresetJob
    <3> QED BY <1>7, <3>1, <3>2 DEF PresetJob
  <2>3. ~pendingCommit /\ ~pendingCommit'  BY <1>3, <1>7 DEF PresetJob
  <2>4. WriterInv'  BY <1>2, <1>3, <1>4, <2>2, <2>3 DEF WriterInv
  <2>5. HeadDescribes'
    <3>1. HeadDescribes  BY <1>4, <2>3 DEF IInv, HeadInv
    <3>2. IsNewest(eeprom, head) => head \in LiveSlot  BY DEF IsNewest, ValidSlots
    <3> QED BY <1>3, <2>1, <3>1, <3>2 DEF HeadDescribes
  <2>6. HeadInv'  BY <2>3, <2>5 DEF HeadInv, CommitOpen
  <2>7. CommitOpen' <=> CommitOpen  BY <2>3 DEF CommitOpen
  <2> QED BY <2>1, <2>4, <2>6, <2>7 DEF StoreInv, MarkerDiscipline
<1> QED BY <1>2, <1>6, <1>7

-----------------------------------------------------------------------------
(* Jobs are begun *)

(* A job just begun has done nothing yet. *)
LEMMA BeginRecordJob ==
  ASSUME writing = {}, NEW r \in Record, NEW image \in Image,
         Begin(RecordOps(r, image))
  PROVE  /\ RecordJob(r, image)'
         /\ queue' \in Seq(Op) /\ pos' = 0 /\ Len(queue') \in Nat /\ pos' < Len(queue')
         /\ active' /\ eeprom' = eeprom /\ writing' = {}
<1>1. BodyLen \in Nat \ {0}  BY WriterAssumption
<1>2. /\ queue' = RecordOps(r, image) /\ pos' = 0 /\ active' = TRUE
      /\ eeprom' = eeprom /\ writing' = {}
  BY DEF Begin, deviceVars
<1>3. Done' = 0  BY <1>2 DEF Done, Ready
<1>4. RecordJob(r, image)'  BY <1>1, <1>2, <1>3 DEF RecordJob
<1>5. queue' \in Seq(Op) /\ Len(queue') = BodyLen + 2  BY <1>2, RecordOpsType
<1> QED BY <1>1, <1>2, <1>4, <1>5

(* A preset is written or all are erased. *)
LEMMA PresetBegun ==
  ASSUME IInv, power = "running", ~active, power' = power, UNCHANGED liveVars,
         active', pos' = 0, eeprom' = eeprom, writing' = {},
         \/ \E r \in Preset, c \in Content : RecordJob(r, [seq |-> 0, content |-> c])'
         \/ queue' = EraseOps(ScaleSlots \o ConfigSlots)
  PROVE  StoreInv'
<1>1. ~pendingCommit /\ ~pendingCommit' /\ head' = head /\ seq' = seq
  BY DEF IInv, WriterInv, liveVars
<1>2. PresetJob'  BY <1>1 DEF PresetJob
<1>3. WriterInv'  BY <1>1, <1>2 DEF WriterInv
<1>4. HeadInv'  BY <1>1 DEF IInv, HeadInv, HeadDescribes, CommitOpen
<1> QED BY <1>3, <1>4 DEF StoreInv, IInv, MarkerDiscipline

LEMMA SavePresetKeepsInv ==
  ASSUME IInv, NEW r \in Preset, SavePreset(r)
  PROVE  StoreInv' /\ queue' \in Seq(Op) /\ pos' \in 0 .. Len(queue')
<1>1. /\ power = "running" /\ power' = power /\ ~active /\ UNCHANGED liveVars
      /\ Begin(RecordOps(r, [seq |-> 0, content |-> live]))
  BY DEF SavePreset, Operation, WritePreset, Begin
<1>2. writing = {} /\ live \in Content /\ r \in Record
  BY <1>1, MemoryAssumption DEF IInv, WriterInv, TypeOK
<1>3. PICK c, image : /\ c \in Content /\ c = live
                      /\ image = [seq |-> 0, content |-> c]
  BY <1>2
<1>4. image \in Image  BY <1>2, <1>3 DEF Image
<1>5. /\ RecordJob(r, image)'
      /\ queue' \in Seq(Op) /\ pos' = 0 /\ Len(queue') \in Nat /\ pos' < Len(queue')
      /\ active' /\ eeprom' = eeprom /\ writing' = {}
  BY <1>1, <1>2, <1>3, <1>4, BeginRecordJob
<1>6. RecordJob(r, [seq |-> 0, content |-> c])'  BY <1>3, <1>5
<1>7. StoreInv'  BY <1>1, <1>3, <1>5, <1>6, PresetBegun
<1> QED BY <1>5, <1>7

LEMMA EraseAllKeepsInv ==
  ASSUME IInv, EraseAllPresets
  PROVE  StoreInv' /\ queue' \in Seq(Op) /\ pos' \in 0 .. Len(queue')
<1>1. /\ power = "running" /\ power' = power /\ ~active /\ UNCHANGED liveVars
      /\ queue' = EraseOps(ScaleSlots \o ConfigSlots) /\ pos' = 0 /\ active'
      /\ eeprom' = eeprom /\ writing' = writing
  BY DEF EraseAllPresets, Operation, EraseAll, Begin, deviceVars
<1>2. writing' = {}  BY <1>1 DEF IInv, WriterInv
<1>3. queue' \in Seq(Op)  BY <1>1, EraseOpsType
<1>4. pos' \in 0 .. Len(queue')  BY <1>1, <1>3
<1>5. StoreInv'  BY <1>1, <1>2, PresetBegun
<1> QED BY <1>3, <1>4, <1>5

(* A commit is accepted: the slot it will overwrite is not the newest. *)
LEMMA CommitKeepsInv ==
  ASSUME IInv, power = "running", NEW c \in Content, Commit(c), power' = power
  PROVE  /\ StoreInv' /\ LiveTypeOK'
         /\ queue' \in Seq(Op) /\ pos' \in 0 .. Len(queue')
         /\ CommitOpen' /\ queue'[2].byte.content = c /\ eeprom' = eeprom
<1>1. /\ head \in 0 .. SlotCount - 1 /\ seq \in Nat
      /\ NextSlot(head) \in 0 .. SlotCount - 1 /\ NextSlot(head) # head
  BY NextSlotProperties DEF IInv, TypeOK, LiveTypeOK
<1>2. /\ ~active /\ ~pendingCommit /\ head' = head /\ seq' = seq
      /\ pendingHead' = NextSlot(head) /\ pendingSeq' = seq + 1 /\ pendingCommit'
      /\ Begin(RecordOps(NextSlot(head), [seq |-> seq + 1, content |-> c]))
  BY DEF Commit, QueueCommit
<1>3. LiveTypeOK'  BY <1>1, <1>2 DEF LiveTypeOK
<1>4. PICK r, image : r = NextSlot(head) /\ image = [seq |-> seq + 1, content |-> c]
  OBVIOUS
<1>5. r \in Record /\ image \in Image
  BY <1>1, <1>4, LiveAssumption DEF LiveSlot, Image
<1>6. writing = {}  BY <1>2 DEF IInv, WriterInv
<1>7. /\ RecordJob(r, image)'
      /\ queue' \in Seq(Op) /\ pos' = 0 /\ Len(queue') \in Nat /\ pos' < Len(queue')
      /\ active' /\ eeprom' = eeprom /\ writing' = {}
  BY <1>2, <1>4, <1>5, <1>6, BeginRecordJob
<1>8. queue'[2].byte.content = c
  <2>1. queue' = RecordOps(r, image)  BY <1>2, <1>4 DEF Begin
  <2>2. RecordOps(r, image)[2].byte = image  BY <1>5, RecordOpsType
  <2> QED BY <1>4, <2>1, <2>2
<1>9. CommitOpen'  BY <1>2, <1>7 DEF CommitOpen
<1>10. CommitJob'  BY <1>2, <1>4, <1>7 DEF CommitJob
<1>11. WriterInv'  BY <1>7, <1>10 DEF WriterInv
<1>12. PriorNewest'
  <2>1. HeadDescribes  BY <1>2 DEF IInv, HeadInv
  <2>2. IsNewest(eeprom, head) => head \in LiveSlot  BY DEF IsNewest, ValidSlots
  <2> QED BY <1>1, <1>2, <1>7, <2>1, <2>2 DEF HeadDescribes, PriorNewest
<1>13. HeadInv'  BY <1>2, <1>9, <1>12 DEF HeadInv
<1>14. StoreInv'  BY <1>7, <1>11, <1>13 DEF StoreInv, IInv, MarkerDiscipline
<1> QED BY <1>3, <1>7, <1>8, <1>9, <1>14

-----------------------------------------------------------------------------
(* Power-up and power loss *)

(* load() adopts the newest record, or migrates it out of the former slot. *)
LEMMA PowerOnKeepsInv ==
  ASSUME IInv, NEW image \in {"boot", "mboot"}, PowerOn(image)
  PROVE  /\ StoreInv' /\ LiveTypeOK' /\ live' \in Content
         /\ queue' \in Seq(Op) /\ pos' \in 0 .. Len(queue')
         /\ eeprom' = eeprom /\ writing' = writing /\ active' \in BOOLEAN
         /\ \/ UNCHANGED writerVars /\ ~pendingCommit'
            \/ CommitOpen' /\ queue'[2].byte.content = Restored(eeprom)
<1>1. power = "off" /\ power' = image /\ live' = Restored(eeprom)
  BY DEF PowerOn
<1>2. /\ ~active /\ ~pendingCommit /\ writing = {} /\ pos = Len(queue)
      /\ HasNewest(eeprom) /\ SlotCount \in Nat /\ SlotCount >= 2
  BY <1>1, LiveAssumption DEF IInv, WriterInv
<1>3. live' \in Content  BY <1>1, <1>2, RestoredType
<1>4. /\ pos \in 0 .. Len(queue) /\ queue \in Seq(Op) /\ active \in BOOLEAN
      /\ LiveTypeOK
  BY DEF IInv, TypeOK, WriterTypeOK
<1>5. ASSUME LoadNothing \/ LoadFromRing, LiveTypeOK', HeadDescribes'
      PROVE  /\ StoreInv' /\ UNCHANGED writerVars /\ ~pendingCommit'
             /\ queue' \in Seq(Op) /\ pos' \in 0 .. Len(queue')
             /\ eeprom' = eeprom /\ writing' = writing /\ active' \in BOOLEAN
  <2>1. /\ eeprom' = eeprom /\ writing' = writing /\ queue' = queue
        /\ pos' = pos /\ active' = active /\ ~pendingCommit'
    BY <1>2, <1>5 DEF LoadNothing, LoadFromRing, writerVars
  <2>2. WriterInv'  BY <1>1, <1>2, <2>1 DEF WriterInv
  <2>3. HeadInv'  BY <1>5, <2>1 DEF HeadInv, CommitOpen
  <2>4. StoreInv'  BY <2>1, <2>2, <2>3 DEF StoreInv, IInv, MarkerDiscipline
  <2> QED BY <1>4, <2>1, <2>4 DEF writerVars
<1>6. CASE LoadNothing
  <2>1. eeprom' = eeprom /\ head' = SlotCount - 1 /\ seq' = 0
    BY <1>6 DEF LoadNothing, writerVars
  <2>2. LiveTypeOK'  BY <1>2, <1>4, <1>6, <2>1 DEF LoadNothing, LiveTypeOK
  <2>3. HeadDescribes'  BY <1>6, <2>1 DEF LoadNothing, HeadDescribes
  <2> QED BY <1>3, <1>5, <1>6, <2>2, <2>3
<1>7. CASE LoadFromRing
  <2>1. PICK s : IsNewest(eeprom, s)  BY <1>2, <1>7 DEF LoadFromRing, HasNewest
  <2>2. s = Newest(eeprom) /\ s \in LiveSlot /\ BodyOf(eeprom, s).seq \in Nat
    BY <2>1, NewestUnique DEF Image
  <2>3. /\ eeprom' = eeprom /\ head' = s /\ seq' = BodyOf(eeprom, s).seq
        /\ s # LegacySlot
    BY <1>7, <2>2 DEF LoadFromRing, writerVars
  <2>4. LiveTypeOK'
    BY <1>2, <1>4, <1>7, <2>2, <2>3 DEF LoadFromRing, LiveTypeOK, LiveSlot, LegacySlot
  <2>5. HeadDescribes'  BY <2>1, <2>3 DEF HeadDescribes
  <2> QED BY <1>3, <1>5, <1>7, <2>4, <2>5
<1>8. CASE LoadAndMigrate
  <2>1. PICK s : IsNewest(eeprom, s)  BY <1>2, <1>8 DEF LoadAndMigrate, HasNewest
  <2>2. /\ s = LegacySlot /\ IsNewest(eeprom, LegacySlot) /\ LegacySlot \in LiveSlot
        /\ BodyOf(eeprom, LegacySlot).seq \in Nat
    BY <1>8, <2>1, NewestUnique DEF LoadAndMigrate, Image
  <2> DEFINE h == SlotCount - 1
             n == BodyOf(eeprom, LegacySlot).seq
             c == Restored(eeprom)
  <2>3. h \in 0 .. SlotCount - 1 /\ c \in Content  BY <1>2, RestoredType
  <2>4. NextSlot(h) \in 0 .. SlotCount - 1  BY <2>3, NextSlotProperties
  <2>5. /\ head' = h /\ seq' = n /\ pendingCommit'
        /\ pendingHead' = NextSlot(h) /\ pendingSeq' = n + 1
        /\ Begin(RecordOps(NextSlot(h), [seq |-> n + 1, content |-> c]))
    BY <1>8 DEF LoadAndMigrate, QueueCommit
  <2>6. PICK r, body, k : /\ r = NextSlot(h) /\ body = [seq |-> n + 1, content |-> k]
                          /\ k = c /\ k \in Content
    BY <2>3
  <2>7. r \in Record /\ body \in Image
    BY <2>2, <2>3, <2>4, <2>6, LiveAssumption DEF LiveSlot, Image
  <2>8. /\ RecordJob(r, body)'
        /\ queue' \in Seq(Op) /\ pos' = 0 /\ Len(queue') \in Nat /\ pos' < Len(queue')
        /\ active' /\ eeprom' = eeprom /\ writing' = {}
    BY <1>2, <2>5, <2>6, <2>7, BeginRecordJob
  <2>9. LiveTypeOK'  BY <2>2, <2>3, <2>4, <2>5 DEF LiveTypeOK
  <2>10. queue'[2].byte.content = Restored(eeprom)
    <3>1. queue' = RecordOps(r, body)  BY <2>5, <2>6 DEF Begin
    <3>2. RecordOps(r, body)[2].byte = body  BY <2>7, RecordOpsType
    <3> QED BY <2>3, <2>6, <3>1, <3>2
  <2>11. CommitOpen'  BY <2>5, <2>8 DEF CommitOpen
  <2>12. CommitJob'  BY <2>5, <2>6, <2>8 DEF CommitJob
  <2>13. WriterInv'  BY <1>1, <2>8, <2>12 DEF WriterInv
  <2>14. PriorNewest'
    <3>1. LegacySlot # NextSlot(h)  BY <1>2, <2>4 DEF LegacySlot
    <3> QED BY <2>2, <2>5, <2>8, <3>1 DEF PriorNewest
  <2>15. HeadInv'  BY <2>5, <2>11, <2>14 DEF HeadInv
  <2>16. StoreInv'  BY <2>8, <2>13, <2>15 DEF StoreInv, IInv, MarkerDiscipline
  <2>17. active' \in BOOLEAN  BY <2>5 DEF Begin
  <2> QED BY <1>2, <1>3, <2>8, <2>9, <2>10, <2>11, <2>16, <2>17
<1> QED BY <1>3, <1>4, <1>5, <1>6, <1>7, <1>8 DEF PowerOn, Load

(* The boot's end: a migration that was written is adopted. *)
LEMMA BootEndKeepsInv ==
  ASSUME IInv, power \in {"boot", "mboot"}, ~active,
         ObserveWriter(active), UNCHANGED writerVars, power' \in {"running", "panel"}
  PROVE  StoreInv' /\ ~pendingCommit'
<1>1. /\ eeprom' = eeprom /\ writing' = writing /\ queue' = queue
      /\ pos' = pos /\ active' = active
  BY DEF writerVars
<1>2. MarkerDiscipline' /\ HasNewest(eeprom)'
  BY <1>1 DEF IInv, MarkerDiscipline
<1>3. CASE pendingCommit
  <2>1. ~pendingCommit'  BY <1>3 DEF ObserveWriter
  <2> QED BY <1>2, <1>3, <2>1, Observed DEF StoreInv
<1>4. CASE ~pendingCommit
  <2>1. UNCHANGED liveVars  BY <1>4 DEF ObserveWriter
  <2>2. ~pendingCommit' /\ head' = head /\ seq' = seq  BY <1>4, <2>1 DEF liveVars
  <2>3. WriterInv'  BY <1>1, <2>2 DEF IInv, WriterInv
  <2>4. HeadInv'
    BY <1>1, <1>4, <2>2 DEF IInv, HeadInv, HeadDescribes, CommitOpen
  <2> QED BY <1>2, <2>2, <2>3, <2>4 DEF StoreInv
<1> QED BY <1>3, <1>4

(* The former twelfth slot is overwritten: nothing the ring keeps is lost,
   because load() moved a newest record out of it first. *)
LEMMA ReuseKeepsInv ==
  ASSUME IInv, NEW o \in Offset, ReuseLegacyCell(o)
  PROVE  /\ StoreInv' /\ eeprom' \in [Cell -> Byte]
         /\ Restored(eeprom') = Restored(eeprom)
<1>1. /\ power = "panel" /\ power' = power /\ writing' = writing /\ queue' = queue
      /\ pos' = pos /\ active' = active
      /\ head' = head /\ seq' = seq /\ pendingCommit' = pendingCommit
      /\ pendingHead' = pendingHead /\ pendingSeq' = pendingSeq
      /\ eeprom' = [eeprom EXCEPT ![<<LegacySlot, o>>] = Torn]
  BY DEF ReuseLegacyCell, liveVars, loopVars
<1>2. /\ LegacySlot \in LiveSlot /\ LegacySlot \in Record
      /\ SlotCount \in Nat /\ BodyLen \in Nat \ {0}
  BY LiveAssumption, WriterAssumption DEF LegacySlot, LiveSlot
<1>3. /\ eeprom \in [Cell -> Byte] /\ head \in 0 .. SlotCount - 1
      /\ ~active /\ ~pendingCommit
  BY <1>1 DEF IInv, TypeOK, WriterTypeOK, LiveTypeOK, WriterInv
<1>4. <<LegacySlot, o>> \in Cell /\ Torn \in Byte  BY <1>2 DEF Cell, Byte
<1>5. /\ eeprom' \in [Cell -> Byte] /\ eeprom'[<<LegacySlot, o>>] = Torn
      /\ OnlyIn(eeprom, eeprom', LegacySlot)
      /\ \A k \in Offset \ {o} : eeprom'[<<LegacySlot, k>>] = eeprom[<<LegacySlot, k>>]
  BY <1>1, <1>2, <1>3, <1>4 DEF OnlyIn, Cell
<1>6. ~Valid(eeprom', LegacySlot)
  <2>1. o = 0 \/ o \in 1 .. BodyLen  BY <1>2 DEF Offset
  <2>2. CASE o = 0  BY <1>5, <2>2, WriterAssumption DEF Valid
  <2>3. CASE o \in 1 .. BodyLen
    BY <1>5, <2>3, WriterAssumption DEF Valid, Complete
  <2> QED BY <2>1, <2>2, <2>3
<1>7. MarkerDiscipline'
  <2> SUFFICES ASSUME NEW q \in Record \ {LegacySlot}, eeprom'[<<q, 0>>] = Marked
               PROVE  Complete(eeprom', q)
    BY DEF MarkerDiscipline, MarkedRecordsComplete
  <2>1. /\ Complete(eeprom', q) <=> Complete(eeprom, q)
        /\ eeprom'[<<q, 0>>] = eeprom[<<q, 0>>]
    BY <1>2, <1>5, UntouchedRecord
  <2> QED BY <2>1 DEF IInv, MarkerDiscipline, MarkedRecordsComplete
<1>8. HeadDescribes  BY <1>1, <1>3 DEF IInv, HeadInv
<1>9. HeadDescribes' /\ HasNewest(eeprom') /\ Restored(eeprom') = Restored(eeprom)
  <2>1. CASE ValidSlots(eeprom) = {} /\ head = SlotCount - 1 /\ seq = 0
    <3>1. ValidSlots(eeprom') = {} /\ Restored(eeprom') = Restored(eeprom)
      BY <1>5, <1>6, <2>1, NoneSurvives
    <3> QED BY <1>1, <2>1, <3>1 DEF HeadDescribes, HasNewest
  <2>2. CASE IsNewest(eeprom, head) /\ seq = BodyOf(eeprom, head).seq
    <3>1. head # LegacySlot  BY <1>2, <1>3 DEF LegacySlot
    <3>2. /\ IsNewest(eeprom', head) /\ BodyOf(eeprom', head) = BodyOf(eeprom, head)
          /\ Restored(eeprom') = Restored(eeprom)
      BY <1>5, <1>6, <2>2, <3>1, NewestSurvives
    <3> QED BY <1>1, <2>2, <3>2 DEF HeadDescribes, HasNewest, IsNewest
  <2> QED BY <1>8, <2>1, <2>2 DEF HeadDescribes
<1>10. WriterInv'
  BY <1>1, <1>3 DEF IInv, WriterInv
<1>11. HeadInv'  BY <1>1, <1>3, <1>9 DEF HeadInv, CommitOpen
<1> QED BY <1>5, <1>7, <1>9, <1>10, <1>11 DEF StoreInv

(* A power loss leaves the ring with what it restored, or with the commit
   that was one byte short of done. *)
LEMMA PowerLossKeepsInv ==
  ASSUME IInv, PowerLoss
  PROVE  /\ StoreInv' /\ eeprom' \in [Cell -> Byte]
         /\ \/ Restored(eeprom') = Restored(eeprom)
            \/ CommitOpen /\ InFlight = {Restored(eeprom')}
<1>1. /\ power # "off" /\ power' = "off" /\ ~pendingCommit'
      /\ writing' = {} /\ queue' = <<>> /\ pos' = 0 /\ active' = FALSE
  BY DEF PowerLoss, LosePower
<1>2. WriterInv' /\ HeadInv'  BY <1>1 DEF WriterInv, HeadInv
<1>3. CASE UNCHANGED eeprom
  BY <1>2, <1>3 DEF StoreInv, IInv, MarkerDiscipline, TypeOK, WriterTypeOK
<1>4. CASE \E op \in writing : \E b \in {op.byte, Torn} :
              eeprom' = [eeprom EXCEPT ![op.cell] = b]
  <2>1. PICK op \in writing : \E b \in {op.byte, Torn} :
              eeprom' = [eeprom EXCEPT ![op.cell] = b]
    BY <1>4
  <2>2. PICK b \in {op.byte, Torn} : eeprom' = [eeprom EXCEPT ![op.cell] = b]
    BY <2>1
  <2>3. (CommitJob \/ PresetJob) /\ ~Ready  BY WritingInJob DEF IInv
  <2>4. CASE CommitJob
    <3>1. /\ eeprom' \in [Cell -> Byte]
          /\ MarkedRecordsComplete(eeprom') /\ HasNewest(eeprom')
          /\ \/ Restored(eeprom') = Restored(eeprom)
             \/ InFlight = {Restored(eeprom')}
      BY <1>1, <2>2, <2>4, CommitByte
    <3>2. CommitOpen  BY <2>3, <2>4 DEF CommitOpen, CommitJob
    <3> QED BY <1>2, <3>1, <3>2 DEF StoreInv, MarkerDiscipline
  <2>5. CASE PresetJob
    <3>1. /\ eeprom' \in [Cell -> Byte]
          /\ MarkedRecordsComplete(eeprom') /\ HasNewest(eeprom')
          /\ Restored(eeprom') = Restored(eeprom)
      BY <2>2, <2>5, PresetByte
    <3> QED BY <1>2, <3>1 DEF StoreInv, MarkerDiscipline
  <2> QED BY <2>3, <2>4, <2>5
<1> QED BY <1>3, <1>4 DEF PowerLoss, LosePower

-----------------------------------------------------------------------------
(* The invariant *)

LEMMA EmptyQueue ==
  <<>> \in Seq(Op) /\ 0 \in 0 .. Len(<<>>)
<1>1. <<>> \in Seq(Op)  OBVIOUS
<1>2. 0 \in 0 .. Len(<<>>)  OBVIOUS
<1> QED BY <1>1, <1>2

LEMMA InitEstablishesInv ==
  Init => IInv
<1> SUFFICES ASSUME Init PROVE IInv  OBVIOUS
<1>1. /\ eeprom \in [Cell -> Byte] /\ HasNewest(eeprom) /\ MarkedRecordsComplete(eeprom)
      /\ MaxOperations \in Nat
  BY MemoryAssumption DEF Init
<1>2. SlotCount \in Nat /\ SlotCount >= 2 /\ Factory \in Content  BY LiveAssumption
<1>3. WriterTypeOK
  <2>1. queue \in Seq(Op) /\ pos \in 0 .. Len(queue)  BY EmptyQueue DEF Init
  <2>2. writing \in SUBSET Op /\ active \in BOOLEAN  BY DEF Init
  <2> QED BY <1>1, <2>1, <2>2 DEF WriterTypeOK
<1>4. LiveTypeOK
  <2>1. head \in 0 .. SlotCount - 1 /\ pendingHead \in 0 .. SlotCount - 1
        /\ seq \in Nat /\ pendingSeq \in Nat
    BY <1>2 DEF Init
  <2>2. pendingCommit \in BOOLEAN  BY DEF Init
  <2> QED BY <2>1, <2>2 DEF LiveTypeOK
<1>5. TypeOK
  <2>1. operations \in 0 .. MaxOperations  BY <1>1 DEF Init
  <2>2. /\ power \in {"off", "boot", "running", "mboot", "panel"}
        /\ phase \in {"menu", "writer", "autosave"}
        /\ live \in Content /\ occupied \in SUBSET Preset
    BY <1>2 DEF Init
  <2>3. dirty \in BOOLEAN /\ quiet \in BOOLEAN  BY DEF Init
  <2> QED BY <1>3, <1>4, <2>1, <2>2, <2>3 DEF TypeOK
<1>6. WriterInv  BY DEF Init, WriterInv
<1>7. HeadInv  BY DEF Init, HeadInv
<1> QED BY <1>1, <1>5, <1>6, <1>7 DEF IInv, MarkerDiscipline

(* What the control loop's own variables may hold. *)
LoopTypeOK ==
  /\ power \in {"off", "boot", "running", "mboot", "panel"}
  /\ phase \in {"menu", "writer", "autosave"}
  /\ live \in Content
  /\ dirty \in BOOLEAN /\ quiet \in BOOLEAN
  /\ occupied \in SUBSET Preset
  /\ operations \in 0 .. MaxOperations

LEMMA TypeParts ==
  TypeOK <=> WriterTypeOK /\ LiveTypeOK /\ LoopTypeOK
BY DEF TypeOK, LoopTypeOK

(* A poll of the writer, with or without an observation, keeps the types. *)
LEMMA ServiceType ==
  ASSUME TypeOK, Service
  PROVE  WriterTypeOK'
<1>1. /\ eeprom \in [Cell -> Byte] /\ writing \in SUBSET Op /\ queue \in Seq(Op)
      /\ pos \in 0 .. Len(queue) /\ active \in BOOLEAN /\ Len(queue) \in Nat
  BY DEF TypeOK, WriterTypeOK
<1>2. CASE Submit
  <2>1. queue[pos + 1] \in Op  BY <1>1, <1>2 DEF Submit
  <2>2. writing' \in SUBSET Op  BY <1>2, <2>1 DEF Submit, WriteByte
  <2>3. pos' \in 0 .. Len(queue)  BY <1>1, <1>2 DEF Submit
  <2> QED BY <1>1, <1>2, <2>2, <2>3 DEF Submit, WriteByte, WriterTypeOK
<1>3. CASE Finish  BY <1>1, <1>3 DEF Finish, WriterTypeOK
<1>4. CASE Waiting  BY <1>1, <1>4 DEF Waiting, writerVars, WriterTypeOK
<1> QED BY <1>2, <1>3, <1>4 DEF Service

LEMMA ObserveType ==
  ASSUME TypeOK, NEW a, ObserveWriter(a)
  PROVE  LiveTypeOK'
BY DEF TypeOK, LiveTypeOK, ObserveWriter, liveVars

LEMMA StoresTypeUntouched ==
  ASSUME TypeOK, UNCHANGED <<writerVars, liveVars>>
  PROVE  WriterTypeOK' /\ LiveTypeOK'
BY DEF TypeOK, WriterTypeOK, LiveTypeOK, writerVars, liveVars

(* A loaded preset is a configuration. *)
LEMMA LoadedType ==
  ASSUME TypeOK, NEW r \in Preset
  PROVE  /\ r \in ScaleSlot => LoadedScale(r, live) \in Content
         /\ r \notin ScaleSlot => LoadedConfig(r, FactoryPreset) \in Content
<1>1. live \in [notes : Notes, rest : Rest] /\ Content = [notes : Notes, rest : Rest]
  BY PresetAssumption DEF TypeOK
<1>2. Valid(eeprom, r) => BodyOf(eeprom, r).content \in [notes : Notes, rest : Rest]
  BY <1>1 DEF Valid, Complete, BodyOf, Image
<1>3. ASSUME r \in ScaleSlot PROVE LoadedScale(r, live) \in Content
  BY <1>1, <1>2 DEF LoadedScale
<1>4. ASSUME r \notin ScaleSlot PROVE LoadedConfig(r, FactoryPreset) \in Content
  <2>1. FactoryPreset[r] \in Content  BY <1>4, MemoryAssumption DEF Preset
  <2> QED BY <1>1, <1>2, <2>1 DEF LoadedConfig
<1> QED BY <1>3, <1>4

(* Every step of the system keeps the invariant. *)
LEMMA NextKeepsInv ==
  IInv /\ [Next]_vars => IInv'
<1> SUFFICES ASSUME IInv, [Next]_vars PROVE IInv'  OBVIOUS
<1>0. IInv' <=> TypeOK' /\ StoreInv'  BY DEF IInv, StoreInv
<1>1. /\ TypeOK /\ WriterTypeOK /\ LiveTypeOK /\ LoopTypeOK
      /\ TypeOK' <=> WriterTypeOK' /\ LiveTypeOK' /\ LoopTypeOK'
  BY TypeParts DEF IInv, TypeOK, LoopTypeOK
<1>2. ASSUME NEW image \in {"boot", "mboot"}, PowerOn(image) PROVE IInv'
  <2>1. /\ StoreInv' /\ LiveTypeOK' /\ live' \in Content
        /\ queue' \in Seq(Op) /\ pos' \in 0 .. Len(queue')
        /\ eeprom' = eeprom /\ writing' = writing /\ active' \in BOOLEAN
    BY <1>2, PowerOnKeepsInv
  <2>2. WriterTypeOK'  BY <1>1, <2>1 DEF WriterTypeOK
  <2>3. LoopTypeOK'  BY <1>1, <1>2, <2>1 DEF PowerOn, LoopTypeOK
  <2> QED BY <1>0, <1>1, <2>1, <2>2, <2>3
<1>3. CASE BootService
  <2>1. power \in {"boot", "mboot"} /\ active /\ Service /\ UNCHANGED <<liveVars, loopVars>>
    BY <1>3 DEF BootService
  <2>2. power' = power /\ UNCHANGED liveVars  BY <2>1 DEF loopVars
  <2>3. StoreInv'
    <3>1. CASE Submit  BY <2>1, <2>2, <3>1, SubmitKeepsInv
    <3>2. CASE Finish  BY <2>1, <2>2, <3>2, FinishKeepsInv
    <3>3. CASE Waiting
      <4>1. UNCHANGED <<writerVars, liveVars>>  BY <2>2, <3>3 DEF Waiting
      <4> QED BY <2>2, <4>1, StoresUntouched
    <3> QED BY <2>1, <3>1, <3>2, <3>3 DEF Service
  <2>4. WriterTypeOK'  BY <1>1, <2>1, ServiceType
  <2>5. LiveTypeOK' /\ LoopTypeOK'
    BY <1>1, <2>1 DEF LiveTypeOK, liveVars, LoopTypeOK, loopVars
  <2> QED BY <1>0, <1>1, <2>3, <2>4, <2>5
<1>4. CASE BootDone
  <2>1. StoreInv'  BY <1>4, BootEndKeepsInv DEF BootDone
  <2>2. WriterTypeOK'  BY <1>1, <1>4 DEF BootDone, WriterTypeOK, writerVars
  <2>3. LiveTypeOK'  BY <1>1, <1>4, ObserveType DEF BootDone
  <2>4. LoopTypeOK'  BY <1>1, <1>4 DEF BootDone, LoopTypeOK, Scan
  <2> QED BY <1>0, <1>1, <2>1, <2>2, <2>3, <2>4
<1>5. CASE MaintenanceBootDone
  <2>1. StoreInv'  BY <1>5, BootEndKeepsInv DEF MaintenanceBootDone
  <2>2. WriterTypeOK'  BY <1>1, <1>5 DEF MaintenanceBootDone, WriterTypeOK, writerVars
  <2>3. LiveTypeOK'  BY <1>1, <1>5, ObserveType DEF MaintenanceBootDone
  <2>4. LoopTypeOK'  BY <1>1, <1>5 DEF MaintenanceBootDone, LoopTypeOK
  <2> QED BY <1>0, <1>1, <2>1, <2>2, <2>3, <2>4
<1>6. ASSUME NEW o \in Offset, ReuseLegacyCell(o) PROVE IInv'
  <2>1. StoreInv' /\ eeprom' \in [Cell -> Byte]  BY <1>6, ReuseKeepsInv
  <2>2. /\ WriterTypeOK' /\ LiveTypeOK' /\ LoopTypeOK'
    BY <1>1, <1>6, <2>1
    DEF ReuseLegacyCell, WriterTypeOK, LiveTypeOK, liveVars, LoopTypeOK, loopVars
  <2> QED BY <1>0, <1>1, <2>1, <2>2
<1>7. ASSUME UNCHANGED <<writerVars, liveVars>>, power' = power, LoopTypeOK' PROVE IInv'
  BY <1>0, <1>1, <1>7, StoresUntouched, StoresTypeUntouched
<1>8. CASE NoInput
  <2>1. LoopTypeOK'  BY <1>1, <1>8 DEF NoInput, LoopTypeOK
  <2> QED BY <1>7, <1>8, <2>1 DEF NoInput
<1>a. MaxOperations \in Nat  BY MemoryAssumption
<1>9. ASSUME NEW c \in Content, Edit(c) PROVE IInv'
  <2>1. operations' \in 0 .. MaxOperations  BY <1>1, <1>9, <1>a DEF Edit, Operation, LoopTypeOK
  <2>2. dirty' \in BOOLEAN /\ quiet' \in BOOLEAN  BY <1>1, <1>9 DEF Edit, Become, LoopTypeOK
  <2>3. LoopTypeOK'
    BY <1>1, <1>9, <2>1, <2>2 DEF Edit, Operation, Become, LoopTypeOK
  <2> QED BY <1>7, <1>9, <2>3 DEF Edit, Operation
<1>10. ASSUME NEW r \in Preset, SavePreset(r) PROVE IInv'
  <2>1. StoreInv' /\ queue' \in Seq(Op) /\ pos' \in 0 .. Len(queue')
    BY <1>10, SavePresetKeepsInv
  <2>2. WriterTypeOK'
    BY <1>1, <1>10, <2>1 DEF SavePreset, WritePreset, Begin, deviceVars, WriterTypeOK
  <2>3. LiveTypeOK'  BY <1>1, <1>10 DEF SavePreset, LiveTypeOK, liveVars
  <2>4. LoopTypeOK'  BY <1>1, <1>10, <1>a DEF SavePreset, Operation, LoopTypeOK
  <2> QED BY <1>0, <1>1, <2>1, <2>2, <2>3, <2>4
<1>11. ASSUME NEW r \in Preset, LoadPreset(r) PROVE IInv'
  <2>1. live' \in Content
    BY <1>1, <1>11, LoadedType DEF LoadPreset, Become
  <2>2. operations' \in 0 .. MaxOperations
    BY <1>1, <1>11, <1>a DEF LoadPreset, Operation, LoopTypeOK
  <2>3. dirty' \in BOOLEAN /\ quiet' \in BOOLEAN
    BY <1>1, <1>11 DEF LoadPreset, Become, LoopTypeOK
  <2>4. LoopTypeOK'
    BY <1>1, <1>11, <2>1, <2>2, <2>3 DEF LoadPreset, Operation, LoopTypeOK
  <2> QED BY <1>7, <1>11, <2>4 DEF LoadPreset, Operation
<1>12. CASE EraseAllPresets
  <2>1. StoreInv' /\ queue' \in Seq(Op) /\ pos' \in 0 .. Len(queue')
    BY <1>12, EraseAllKeepsInv
  <2>2. WriterTypeOK'
    BY <1>1, <1>12, <2>1 DEF EraseAllPresets, EraseAll, Begin, deviceVars, WriterTypeOK
  <2>3. LiveTypeOK'  BY <1>1, <1>12 DEF EraseAllPresets, LiveTypeOK, liveVars
  <2>4. LoopTypeOK'
    BY <1>1, <1>12, <1>a DEF EraseAllPresets, Operation, LoopTypeOK
  <2> QED BY <1>0, <1>1, <2>1, <2>2, <2>3, <2>4
<1>13. ASSUME ServiceAndObserve, power = "running", power' = power, LoopTypeOK' PROVE IInv'
  <2>1. StoreInv'  BY <1>13, ServiceAndObserveKeepsInv
  <2>2. WriterTypeOK'  BY <1>1, <1>13, ServiceType DEF ServiceAndObserve
  <2>3. LiveTypeOK'  BY <1>1, <1>13, ObserveType DEF ServiceAndObserve
  <2> QED BY <1>0, <1>1, <1>13, <2>1, <2>2, <2>3
<1>14. CASE WriterTurn
  <2>1. LoopTypeOK'  BY <1>1, <1>14 DEF WriterTurn, LoopTypeOK
  <2> QED BY <1>13, <1>14, <2>1 DEF WriterTurn
<1>15. CASE IdlePoll
  <2>1. power' = power /\ LoopTypeOK'  BY <1>1, <1>15 DEF IdlePoll, loopVars, LoopTypeOK
  <2> QED BY <1>13, <1>15, <2>1 DEF IdlePoll, InMenu
<1>16. CASE Autosave
  <2>1. live \in Content  BY <1>1 DEF LoopTypeOK
  <2>2. /\ StoreInv' /\ LiveTypeOK'
        /\ queue' \in Seq(Op) /\ pos' \in 0 .. Len(queue')
    BY <1>16, <2>1, CommitKeepsInv DEF Autosave
  <2>3. WriterTypeOK'
    BY <1>1, <1>16, <2>2
    DEF Autosave, Commit, QueueCommit, Begin, deviceVars, WriterTypeOK
  <2>4. LoopTypeOK'  BY <1>1, <1>16 DEF Autosave, LoopTypeOK
  <2> QED BY <1>0, <1>1, <2>2, <2>3, <2>4
<1>17. CASE NoAutosave
  <2>1. LoopTypeOK'  BY <1>1, <1>17 DEF NoAutosave, LoopTypeOK
  <2> QED BY <1>7, <1>17, <2>1 DEF NoAutosave
<1>18. CASE Quiesce
  <2>1. LoopTypeOK'  BY <1>1, <1>18 DEF Quiesce, LoopTypeOK
  <2> QED BY <1>7, <1>18, <2>1 DEF Quiesce
<1>19. CASE ByteProgrammed
  <2>1. StoreInv' /\ eeprom' \in [Cell -> Byte]  BY <1>19, ByteProgrammedKeepsInv
  <2>2. WriterTypeOK'
    BY <1>1, <1>19, <2>1 DEF ByteProgrammed, Programmed, WriterTypeOK
  <2>3. LiveTypeOK' /\ LoopTypeOK'
    BY <1>1, <1>19 DEF ByteProgrammed, liveVars, loopVars, LiveTypeOK, LoopTypeOK
  <2> QED BY <1>0, <1>1, <2>1, <2>2, <2>3
<1>20. CASE PowerLoss
  <2>1. StoreInv' /\ eeprom' \in [Cell -> Byte]  BY <1>20, PowerLossKeepsInv
  <2>2. WriterTypeOK'
    <3>1. queue' \in Seq(Op) /\ pos' \in 0 .. Len(queue')
      BY <1>20, EmptyQueue DEF PowerLoss, LosePower
    <3>2. writing' \in SUBSET Op /\ active' \in BOOLEAN
      BY <1>20 DEF PowerLoss, LosePower
    <3> QED BY <2>1, <3>1, <3>2 DEF WriterTypeOK
  <2>3. LiveTypeOK' /\ LoopTypeOK'
    BY <1>1, <1>20 DEF PowerLoss, LiveTypeOK, LoopTypeOK
  <2> QED BY <1>0, <1>1, <2>1, <2>2, <2>3
<1>21. CASE UNCHANGED vars
  <2>1. UNCHANGED <<writerVars, liveVars>> /\ power' = power /\ LoopTypeOK'
    BY <1>1, <1>21 DEF vars, loopVars, LoopTypeOK
  <2> QED BY <1>7, <2>1
<1> QED BY <1>2, <1>3, <1>4, <1>5, <1>6, <1>8, <1>9, <1>10, <1>11, <1>12, <1>14,
           <1>15, <1>16, <1>17, <1>18, <1>19, <1>20, <1>21 DEF Next

LEMMA InvHolds ==
  Spec => []IInv
<1>1. Init => IInv  BY InitEstablishesInv
<1>2. IInv /\ [Next]_vars => IInv'  BY NextKeepsInv
<1> QED BY <1>1, <1>2, PTL DEF Spec

-----------------------------------------------------------------------------
(* The theorems *)

(* Every variable keeps its type: the writer never submits past the end of
   its queue, head_ and pendingHead_ always name a slot of the ring. *)
THEOREM TypeCorrect == Spec => []TypeOK
<1>1. IInv => TypeOK  BY DEF IInv
<1> QED BY <1>1, InvHolds, PTL

(* Whatever byte a power loss cuts short, in a live slot or in a preset, a
   record whose marker reads as written is complete. *)
THEOREM MarkersDisciplined == Spec => []MarkerDiscipline
<1>1. IInv => MarkerDiscipline  BY DEF IInv
<1> QED BY <1>1, InvHolds, PTL

(* While no commit is pending, head_ and seq_ are those of the record that
   the next power-up would restore. *)
THEOREM HeadDescribesNewest == Spec => []HeadTracksNewest
<1>1. IInv => HeadTracksNewest
  <2> SUFFICES ASSUME IInv, power \in {"running", "panel"}, ~pendingCommit
               PROVE  IF ValidSlots(eeprom) = {}
                        THEN head = SlotCount - 1 /\ seq = 0
                        ELSE head = Newest(eeprom) /\ seq = BodyOf(eeprom, head).seq
    BY DEF HeadTracksNewest
  <2>1. HeadDescribes  BY DEF IInv, HeadInv
  <2>2. CASE IsNewest(eeprom, head) /\ seq = BodyOf(eeprom, head).seq
    BY <2>2, NewestUnique
  <2> QED BY <2>1, <2>2 DEF HeadDescribes
<1> QED BY <1>1, InvHolds, PTL

-----------------------------------------------------------------------------
(* The refinement *)

(* A step that neither touches what is restored nor opens or closes a commit
   is a stutter of the register. *)
LEMMA RegisterStutters ==
  ASSUME Restored(eeprom') = Restored(eeprom),
         CommitOpen' <=> CommitOpen, CommitOpen => queue' = queue
  PROVE  UNCHANGED Register!vars
<1>1. InFlight' = InFlight  BY DEF InFlight
<1>2. Kept' = Kept  BY DEF Kept
<1> QED BY <1>1, <1>2 DEF Register!vars

LEMMA StoresUntouchedStutters ==
  ASSUME UNCHANGED <<writerVars, liveVars>>
  PROVE  UNCHANGED Register!vars
<1>1. eeprom' = eeprom /\ queue' = queue  BY DEF writerVars
<1>2. CommitOpen' <=> CommitOpen
  BY DEF CommitOpen, Ready, writerVars, liveVars
<1> QED BY <1>1, <1>2, RegisterStutters

(* A poll of the writer changes nothing the register shows: a commit closes
   with its marker, before the writer reports it done. *)
LEMMA ServiceStutters ==
  ASSUME IInv, power # "off", Service, power' = power,
         UNCHANGED liveVars \/ ObserveWriter(active')
  PROVE  UNCHANGED Register!vars
<1>1. eeprom' = eeprom
  BY DEF Service, Submit, WriteByte, Finish, Waiting, writerVars
<1>2. CASE Submit
  <2>1. active'  BY <1>2 DEF Submit
  <2>2. UNCHANGED liveVars  BY <2>1 DEF ObserveWriter
  <2> QED BY <1>1, <1>2, <2>2, SubmitKeepsInv, RegisterStutters
<1>3. CASE Finish
  <2>1. pos = Len(queue) /\ Ready /\ pos' = pos /\ queue' = queue /\ Ready'
        /\ pos \in Nat
    BY <1>3 DEF Finish, Ready, IInv, TypeOK, WriterTypeOK
  <2>2. ~CommitOpen /\ ~CommitOpen'  BY <2>1 DEF CommitOpen
  <2> QED BY <1>1, <2>2, RegisterStutters
<1>4. CASE Waiting
  <2>1. UNCHANGED writerVars /\ active' = active /\ queue' = queue
    BY <1>4 DEF Waiting, writerVars
  <2>2. CASE UNCHANGED liveVars  BY <2>1, <2>2, StoresUntouchedStutters
  <2>3. CASE pendingCommit /\ ~active
    <3>1. writing = {} /\ pos = Len(queue)  BY <2>3 DEF IInv, WriterInv
    <3>2. pos \in Nat  BY DEF IInv, TypeOK, WriterTypeOK
    <3>3. ~CommitOpen /\ ~CommitOpen'
      BY <2>1, <3>1, <3>2 DEF CommitOpen, Ready, writerVars
    <3> QED BY <1>1, <3>3, RegisterStutters
  <2> QED BY <2>1, <2>2, <2>3 DEF ObserveWriter
<1> QED BY <1>2, <1>3, <1>4 DEF Service

(* The steps that neither accept, complete nor cut short a commit. *)
QuietStep ==
  \/ BootService \/ BootDone \/ MaintenanceBootDone
  \/ \E o \in Offset : ReuseLegacyCell(o)
  \/ NoInput \/ NoAutosave \/ Quiesce \/ UNCHANGED vars
  \/ \E c \in Content : Edit(c)
  \/ \E r \in Preset : SavePreset(r)
  \/ \E r \in Preset : LoadPreset(r)
  \/ EraseAllPresets
  \/ WriterTurn \/ IdlePoll

LEMMA QuietStutters ==
  ASSUME IInv, QuietStep
  PROVE  UNCHANGED Register!vars
<1>1. CASE BootService
  <2>1. power # "off" /\ Service /\ power' = power /\ UNCHANGED liveVars
    BY <1>1 DEF BootService, loopVars
  <2> QED BY <2>1, ServiceStutters
<1>2. ASSUME power # "off", ~active, ObserveWriter(active), UNCHANGED writerVars
      PROVE  UNCHANGED Register!vars
  <2>1. eeprom' = eeprom /\ writing = {} /\ writing' = {}
        /\ pos = Len(queue) /\ pos' = Len(queue') /\ pos \in Nat
    BY <1>2 DEF IInv, WriterInv, TypeOK, WriterTypeOK, writerVars
  <2>2. queue' = queue /\ pos' \in Nat  BY <1>2, <2>1 DEF writerVars
  <2>3. ~CommitOpen /\ ~CommitOpen'  BY <2>1, <2>2 DEF CommitOpen, Ready
  <2> QED BY <2>1, <2>3, RegisterStutters
<1>3. CASE BootDone  BY <1>2, <1>3 DEF BootDone
<1>4. CASE MaintenanceBootDone  BY <1>2, <1>4 DEF MaintenanceBootDone
<1>5. ASSUME NEW o \in Offset, ReuseLegacyCell(o) PROVE UNCHANGED Register!vars
  <2>1. Restored(eeprom') = Restored(eeprom)  BY <1>5, ReuseKeepsInv
  <2>2. queue' = queue /\ (CommitOpen' <=> CommitOpen)
    BY <1>5 DEF ReuseLegacyCell, CommitOpen, Ready, liveVars
  <2> QED BY <2>1, <2>2, RegisterStutters
<1>6. CASE \/ NoInput \/ NoAutosave \/ Quiesce \/ UNCHANGED vars
           \/ (\E c \in Content : Edit(c)) \/ (\E r \in Preset : LoadPreset(r))
  <2>1. UNCHANGED <<writerVars, liveVars>>
    BY <1>6 DEF NoInput, NoAutosave, Quiesce, vars, Edit, LoadPreset
  <2> QED BY <2>1, StoresUntouchedStutters
<1>7. ASSUME EraseAllPresets \/ \E r \in Preset : SavePreset(r)
      PROVE  UNCHANGED Register!vars
  <2>1. /\ power = "running" /\ ~active /\ eeprom' = eeprom /\ UNCHANGED liveVars
    BY <1>7 DEF EraseAllPresets, EraseAll, SavePreset, WritePreset, Begin,
                Operation, deviceVars
  <2>2. ~pendingCommit /\ ~pendingCommit'  BY <2>1 DEF IInv, WriterInv, liveVars
  <2>3. ~CommitOpen /\ ~CommitOpen'  BY <2>2 DEF CommitOpen
  <2> QED BY <2>1, <2>3, RegisterStutters
<1>8. CASE WriterTurn \/ IdlePoll
  <2>1. /\ power # "off" /\ Service /\ power' = power /\ ObserveWriter(active')
    BY <1>8 DEF WriterTurn, IdlePoll, InMenu, ServiceAndObserve, loopVars
  <2> QED BY <2>1, ServiceStutters
<1> QED BY <1>1, <1>3, <1>4, <1>5, <1>6, <1>7, <1>8 DEF QuietStep

(* Every step of the store is a step of the register or a stutter. *)
LEMMA StepIsRegisterStep ==
  IInv /\ [Next]_vars => [Register!Next]_(Register!vars)
<1> SUFFICES ASSUME IInv, [Next]_vars
             PROVE  Register!Next \/ UNCHANGED Register!vars
  OBVIOUS
<1>1. ASSUME NEW image \in {"boot", "mboot"}, PowerOn(image)
      PROVE  Register!Next \/ UNCHANGED Register!vars
  <2>1. /\ eeprom' = eeprom
        /\ \/ UNCHANGED writerVars /\ ~pendingCommit'
           \/ CommitOpen' /\ queue'[2].byte.content = live'
        /\ live' \in Content
    BY <1>1, PowerOnKeepsInv DEF PowerOn
  <2>2. ~CommitOpen  BY <1>1 DEF PowerOn, IInv, WriterInv, CommitOpen
  <2>3. CASE ~pendingCommit'
    <3>1. ~CommitOpen'  BY <2>3 DEF CommitOpen
    <3> QED BY <2>1, <2>2, <3>1, RegisterStutters
  <2>4. CASE CommitOpen' /\ queue'[2].byte.content = live'
    <3>1. InFlight = {} /\ Kept' = Kept /\ InFlight' = {live'}
      BY <2>1, <2>2, <2>4 DEF InFlight, Kept
    <3>2. Register!Request(live')
      BY <3>1 DEF Register!Request
    <3> QED BY <2>1, <3>2 DEF Register!Next
  <2> QED BY <2>1, <2>3, <2>4
<1>2. CASE QuietStep  BY <1>2, QuietStutters
<1>3. CASE Autosave
  <2>1. power = "running" /\ power' = power /\ Commit(live) /\ live \in Content
    BY <1>3 DEF Autosave, IInv, TypeOK
  <2>2. PICK c \in Content : c = live  BY <2>1
  <2>3. CommitOpen' /\ queue'[2].byte.content = c /\ eeprom' = eeprom
    BY <2>1, <2>2, CommitKeepsInv
  <2>4. ~CommitOpen  BY <2>1 DEF Commit, QueueCommit, CommitOpen
  <2>5. InFlight = {} /\ InFlight' = {c} /\ Kept' = Kept
    BY <2>3, <2>4 DEF InFlight, Kept
  <2>6. Register!Request(c)  BY <2>5 DEF Register!Request
  <2> QED BY <2>2, <2>6 DEF Register!Next
<1>4. CASE ByteProgrammed
  <2>1. \/ Restored(eeprom') = Restored(eeprom) /\ (CommitOpen' <=> CommitOpen)
        \/ CommitOpen /\ InFlight = {Restored(eeprom')} /\ ~CommitOpen'
    BY <1>4, ByteProgrammedKeepsInv
  <2>2. queue' = queue  BY <1>4 DEF ByteProgrammed, Programmed
  <2>3. CASE Restored(eeprom') = Restored(eeprom) /\ (CommitOpen' <=> CommitOpen)
    BY <2>2, <2>3, RegisterStutters
  <2>4. CASE CommitOpen /\ InFlight = {Restored(eeprom')} /\ ~CommitOpen'
    <3>1. InFlight' = {} /\ Kept' \in InFlight /\ InFlight # {}
      BY <2>4 DEF InFlight, Kept
    <3>2. Register!Perform  BY <3>1 DEF Register!Perform
    <3> QED BY <3>2 DEF Register!Next
  <2> QED BY <2>1, <2>3, <2>4
<1>5. CASE PowerLoss
  <2>1. \/ Restored(eeprom') = Restored(eeprom)
        \/ CommitOpen /\ InFlight = {Restored(eeprom')}
    BY <1>5, PowerLossKeepsInv
  <2>2. ~CommitOpen'  BY <1>5 DEF PowerLoss, CommitOpen
  <2>3. InFlight' = {}  BY <2>2 DEF InFlight
  <2>4. CASE CommitOpen /\ InFlight = {Restored(eeprom')}
    <3>1. Register!Perform  BY <2>3, <2>4 DEF Register!Perform, Kept
    <3> QED BY <3>1 DEF Register!Next
  <2>5. CASE Restored(eeprom') = Restored(eeprom) /\ CommitOpen
    <3>1. Register!Abandon
      BY <2>3, <2>5 DEF Register!Abandon, Kept, InFlight
    <3> QED BY <3>1 DEF Register!Next
  <2>6. CASE Restored(eeprom') = Restored(eeprom) /\ ~CommitOpen
    BY <2>2, <2>6, RegisterStutters
  <2> QED BY <2>1, <2>4, <2>5, <2>6
<1> QED BY <1>1, <1>2, <1>3, <1>4, <1>5 DEF Next, QuietStep

(* The live-state store implements the register: whatever is interrupted, a
   power-up restores the last commit whose marker was programmed, or the one
   before it, and never anything else. *)
THEOREM StoreIsDurableRegister == Spec => ImplementsRegister
<1>1. Init => Register!Init
  <2> SUFFICES ASSUME Init PROVE Register!Init  OBVIOUS
  <2>1. HasNewest(eeprom)  BY MemoryAssumption DEF Init
  <2>2. Kept \in Content  BY <2>1, RestoredType DEF Kept
  <2>3. InFlight = {}  BY DEF Init, InFlight, CommitOpen
  <2> QED BY <2>2, <2>3 DEF Register!Init
<1>2. IInv /\ [Next]_vars => [Register!Next]_(Register!vars)
  BY StepIsRegisterStep
<1> QED BY <1>1, <1>2, InvHolds, PTL DEF Spec, ImplementsRegister, Register!Spec

-----------------------------------------------------------------------------
(* What the running image remembers: whether anything is left to save *)

(* A step the register does not see keeps the account if the loop's own
   variables keep theirs. *)
LEMMA StutterKeepsClean ==
  ASSUME CleanInv, UNCHANGED Register!vars,
         power' \in {"boot", "running"} => power \in {"boot", "running"},
         ~dirty' => ~dirty /\ live' = live
  PROVE  CleanInv'
<1>1. Kept' = Kept /\ InFlight' = InFlight  BY DEF Register!vars
<1> QED BY <1>1 DEF CleanInv

(* A user operation leaves the configuration or marks it as changed. *)
LEMMA QuietStepMarksChanges ==
  ASSUME IInv, QuietStep
  PROVE  /\ power' \in {"boot", "running"} => power \in {"boot", "running"}
         /\ ~dirty' => ~dirty /\ live' = live
<1>1. CASE \/ BootService \/ BootDone \/ MaintenanceBootDone
           \/ \E o \in Offset : ReuseLegacyCell(o)
  <2>1. CASE BootService  BY <2>1 DEF BootService, loopVars
  <2>2. CASE BootDone  BY <2>2 DEF BootDone
  <2>3. CASE MaintenanceBootDone  BY <2>3 DEF MaintenanceBootDone
  <2>4. CASE \E o \in Offset : ReuseLegacyCell(o)
    BY <2>4 DEF ReuseLegacyCell, loopVars
  <2> QED BY <1>1, <2>1, <2>2, <2>3, <2>4
<1>2. CASE NoInput \/ NoAutosave \/ Quiesce \/ UNCHANGED vars \/ WriterTurn \/ IdlePoll
  BY <1>2 DEF NoInput, NoAutosave, Quiesce, WriterTurn, IdlePoll, vars, loopVars
<1>3. CASE EraseAllPresets \/ \E r \in Preset : SavePreset(r)
  BY <1>3 DEF EraseAllPresets, SavePreset, Operation
<1>4. CASE \E c \in Content : Edit(c)  BY <1>4 DEF Edit, Operation, Become
<1>5. CASE \E r \in Preset : LoadPreset(r)
  <2>1. PICK r \in Preset : LoadPreset(r)  BY <1>5
  <2>2. power' = power  BY <2>1 DEF LoadPreset, Operation
  <2>3. CASE live' = live
    BY <2>1, <2>2, <2>3 DEF LoadPreset, Become
  <2>4. CASE live' # live
    BY <2>1, <2>2, <2>4 DEF LoadPreset, Become
  <2> QED BY <2>3, <2>4
<1> QED BY <1>1, <1>2, <1>3, <1>4, <1>5 DEF QuietStep

LEMMA CleanStep ==
  IInv /\ CleanInv /\ [Next]_vars => CleanInv'
<1> SUFFICES ASSUME IInv, CleanInv, [Next]_vars PROVE CleanInv'  OBVIOUS
<1>1. ASSUME NEW image \in {"boot", "mboot"}, PowerOn(image) PROVE CleanInv'
  <2>1. /\ eeprom' = eeprom /\ live' = Restored(eeprom)
        /\ \/ UNCHANGED writerVars /\ ~pendingCommit'
           \/ CommitOpen' /\ queue'[2].byte.content = Restored(eeprom)
    BY <1>1, PowerOnKeepsInv DEF PowerOn
  <2>2. Kept' = live'  BY <2>1 DEF Kept
  <2>3. CASE ~pendingCommit'
    <3>1. InFlight' = {}  BY <2>3 DEF InFlight, CommitOpen
    <3> QED BY <2>2, <3>1 DEF CleanInv
  <2>4. CASE CommitOpen' /\ queue'[2].byte.content = Restored(eeprom)
    <3>1. InFlight' = {live'}  BY <2>1, <2>4 DEF InFlight
    <3> QED BY <3>1 DEF CleanInv
  <2> QED BY <2>1, <2>3, <2>4
<1>2. CASE QuietStep
  BY <1>2, QuietStutters, QuietStepMarksChanges, StutterKeepsClean
<1>3. CASE Autosave
  <2>1. power = "running" /\ power' = power /\ Commit(live) /\ live \in Content
        /\ live' = live
    BY <1>3 DEF Autosave, IInv, TypeOK
  <2>2. PICK c \in Content : c = live  BY <2>1
  <2>3. CommitOpen' /\ queue'[2].byte.content = c
    BY <2>1, <2>2, CommitKeepsInv
  <2>4. InFlight' = {live'}  BY <2>1, <2>2, <2>3 DEF InFlight
  <2> QED BY <2>4 DEF CleanInv
<1>4. CASE ByteProgrammed
  <2>1. /\ power' = power /\ dirty' = dirty /\ live' = live /\ queue' = queue
    BY <1>4 DEF ByteProgrammed, Programmed, loopVars
  <2>2. \/ Restored(eeprom') = Restored(eeprom) /\ (CommitOpen' <=> CommitOpen)
        \/ CommitOpen /\ InFlight = {Restored(eeprom')} /\ ~CommitOpen'
    BY <1>4, ByteProgrammedKeepsInv
  <2>3. CASE Restored(eeprom') = Restored(eeprom) /\ (CommitOpen' <=> CommitOpen)
    BY <2>1, <2>3, RegisterStutters, StutterKeepsClean
  <2>4. CASE CommitOpen /\ InFlight = {Restored(eeprom')} /\ ~CommitOpen'
    <3>1. InFlight' = {} /\ InFlight = {Kept'} /\ InFlight # {}
      BY <2>4 DEF InFlight, Kept
    <3> QED BY <2>1, <3>1 DEF CleanInv
  <2> QED BY <2>2, <2>3, <2>4
<1>5. CASE PowerLoss  BY <1>5 DEF PowerLoss, CleanInv
<1> QED BY <1>1, <1>2, <1>3, <1>4, <1>5 DEF Next, QuietStep

-----------------------------------------------------------------------------
(* What the running image remembers: which slots hold a preset *)

(* A record outside the presets changes, or a preset's own record does: the
   other presets read as before. *)
LEMMA OtherPresets ==
  ASSUME NEW m, NEW m2, NEW r, OnlyIn(m, m2, r), NEW q \in Preset, q # r
  PROVE  Valid(m2, q) <=> Valid(m, q)
<1>1. q \in Record \ {r}  BY MemoryAssumption
<1> QED BY <1>1, UntouchedRecord

(* The records a job is made of. *)
LEMMA SaveAheadJob ==
  ASSUME NEW r \in Preset, NEW c \in Content, SaveAhead(r, c)
  PROVE  \E image \in Image : /\ image = [seq |-> 0, content |-> c]
                              /\ r \in Record
                              /\ RecordJob(r, image)
                              /\ Len(queue) = BodyLen + 2
<1>1. PICK image : image = [seq |-> 0, content |-> c]  OBVIOUS
<1>2. image \in Image /\ r \in Record  BY <1>1, MemoryAssumption DEF Image
<1>3. RecordJob(r, image)  BY <1>1 DEF SaveAhead
<1>4. Len(queue) = BodyLen + 2  BY <1>2, <1>3, RecordOpsType DEF RecordJob
<1> QED BY <1>1, <1>2, <1>3, <1>4

(* The erase queue visits every preset. *)
LEMMA EraseVisitsAll ==
  ASSUME NEW q \in Preset
  PROVE  \E k \in 1 .. Len(EraseOps(ScaleSlots \o ConfigSlots)) :
           EraseOps(ScaleSlots \o ConfigSlots)[k] = [cell |-> <<q, 0>>, byte |-> Erased]
<1> DEFINE all == ScaleSlots \o ConfigSlots
<1>1. ScaleSlots \in Seq(Record) /\ ConfigSlots \in Seq(Record)  BY PresetAssumption
<1>2. /\ Len(all) = Len(ScaleSlots) + Len(ConfigSlots)
      /\ Len(ScaleSlots) \in Nat /\ Len(ConfigSlots) \in Nat
      /\ \A k \in 1 .. Len(ScaleSlots) : all[k] = ScaleSlots[k]
      /\ \A k \in 1 .. Len(ConfigSlots) : all[Len(ScaleSlots) + k] = ConfigSlots[k]
  BY <1>1
<1>3. \E k \in 1 .. Len(all) : all[k] = q
  <2>1. CASE q \in ScaleSlot
    <3>1. PICK k \in 1 .. Len(ScaleSlots) : q = ScaleSlots[k]  BY <2>1 DEF ScaleSlot
    <3>2. k \in 1 .. Len(all)  BY <1>2
    <3> QED BY <1>2, <3>1, <3>2
  <2>2. CASE q \in ConfigSlot
    <3>1. PICK k \in 1 .. Len(ConfigSlots) : q = ConfigSlots[k]  BY <2>2 DEF ConfigSlot
    <3>2. Len(ScaleSlots) + k \in 1 .. Len(all)  BY <1>2
    <3> QED BY <1>2, <3>1, <3>2
  <2> QED BY <2>1, <2>2 DEF Preset
<1> HIDE DEF all
<1>4. /\ Len(EraseOps(all)) = Len(all)
      /\ \A k \in 1 .. Len(all) : EraseOps(all)[k] = [cell |-> <<all[k], 0>>, byte |-> Erased]
  BY <1>2 DEF EraseOps
<1>5. \E k \in 1 .. Len(EraseOps(all)) :
        EraseOps(all)[k] = [cell |-> <<q, 0>>, byte |-> Erased]
  BY <1>3, <1>4
<1> QED BY <1>5 DEF all

LEMMA EraseQueue ==
  ASSUME EraseAhead, NEW k \in 1 .. Len(queue)
  PROVE  queue[k].byte = Erased /\ queue[k].cell \in Cell
<1>1. \E r \in Preset : queue[k] = [cell |-> <<r, 0>>, byte |-> Erased]
  BY EraseOpsType DEF EraseAhead
<1>2. PICK r \in Preset : queue[k] = [cell |-> <<r, 0>>, byte |-> Erased]  BY <1>1
<1>3. r \in Record /\ 0 \in Offset
  BY MemoryAssumption, WriterAssumption DEF Offset
<1>4. queue[k].byte = Erased /\ queue[k].cell = <<r, 0>>  BY <1>2
<1> QED BY <1>3, <1>4 DEF Cell

(* A job that is done leaves what the menu announced. *)
LEMMA FinishedSave ==
  ASSUME IInv, pos = Len(queue), writing = {},
         NEW r \in Preset, NEW c \in Content, SaveAhead(r, c)
  PROVE  occupied = Scan
<1>1. PICK image \in Image : /\ r \in Record /\ RecordJob(r, image)
                             /\ Len(queue) = BodyLen + 2
  BY SaveAheadJob
<1>2. BodyLen \in Nat \ {0}  BY WriterAssumption
<1>3. Done = BodyLen + 2  BY <1>1 DEF Done, Ready
<1>4. eeprom[<<r, 0>>] = Marked /\ \A o \in 1 .. BodyLen : eeprom[<<r, o>>] = image
  BY <1>1, <1>2, <1>3 DEF RecordJob
<1>5. eeprom[<<r, 1>>] = image  BY <1>2, <1>4
<1>6. Valid(eeprom, r)  BY <1>4, <1>5 DEF Valid, Complete
<1>7. occupied \subseteq Preset  BY DEF IInv, TypeOK
<1> QED BY <1>6, <1>7 DEF SaveAhead, Scan

LEMMA FinishedErase ==
  ASSUME IInv, pos = Len(queue), writing = {}, EraseAhead
  PROVE  occupied = Scan
<1>1. Done = Len(queue)  BY DEF Done, Ready
<1>2. ASSUME NEW q \in Preset PROVE ~Valid(eeprom, q)
  <2>1. PICK k \in 1 .. Len(queue) : queue[k] = [cell |-> <<q, 0>>, byte |-> Erased]
    BY EraseVisitsAll DEF EraseAhead
  <2>2. eeprom[<<q, 0>>] = Erased
    <3>1. queue[k].cell = <<q, 0>>  BY <2>1
    <3> QED BY <1>1, <3>1 DEF EraseAhead
  <2> QED BY <2>2, WriterAssumption DEF Valid
<1>3. Scan = {}  BY <1>2 DEF Scan
<1> QED BY <1>3 DEF EraseAhead

(* A step that leaves the stores alone, and the bits, keeps what they say. *)
LEMMA OccupancyUntouched ==
  ASSUME OccupancyInv, UNCHANGED <<writerVars, liveVars>>,
         power' = power, occupied' = occupied
  PROVE  OccupancyInv'
<1>1. /\ eeprom' = eeprom /\ queue' = queue /\ active' = active
      /\ pendingCommit' = pendingCommit /\ Done' = Done
  BY DEF writerVars, liveVars, Done, Ready
<1>2. Scan' = Scan  BY <1>1 DEF Scan
<1>3. ASSUME NEW r \in Preset, NEW c \in Content, SaveAhead(r, c)
      PROVE  SaveAhead(r, c)'
  BY <1>1, <1>3 DEF SaveAhead, RecordJob
<1>4. EraseAhead => EraseAhead'  BY <1>1 DEF EraseAhead
<1> QED BY <1>1, <1>2, <1>3, <1>4 DEF OccupancyInv

(* The writer's next poll keeps a job on the way to what was announced. *)
LEMMA SubmitKeepsSave ==
  ASSUME IInv, Submit, occupied' = occupied,
         NEW r \in Preset, NEW c \in Content, SaveAhead(r, c)
  PROVE  SaveAhead(r, c)'
<1>1. PICK image \in Image : /\ image = [seq |-> 0, content |-> c]
                             /\ r \in Record /\ RecordJob(r, image)
  BY SaveAheadJob
<1>2. RecordJob(r, image)'  BY <1>1, SubmitInRecordJob DEF IInv
<1>3. eeprom' = eeprom  BY DEF Submit, WriteByte
<1> QED BY <1>1, <1>2, <1>3 DEF SaveAhead

LEMMA SubmitKeepsErase ==
  ASSUME IInv, Submit, occupied' = occupied, EraseAhead
  PROVE  EraseAhead'
<1>1. /\ pos \in Nat /\ Len(queue) \in Nat /\ pos < Len(queue) /\ writing = {}
      /\ queue' = queue /\ eeprom' = eeprom /\ pos' = pos + 1
      /\ writing' = IF eeprom[queue[pos + 1].cell] = queue[pos + 1].byte
                      THEN {} ELSE {queue[pos + 1]}
  BY DEF Submit, WriteByte, Ready, IInv, TypeOK, WriterTypeOK
<1>2. queue[pos + 1].byte = Erased
  <2>1. pos + 1 \in 1 .. Len(queue)  BY <1>1
  <2> QED BY <2>1, EraseQueue
<1>3. Done = pos  BY <1>1 DEF Done, Ready
<1>4. CASE writing' = {}
  <2>1. Done' = pos + 1  BY <1>1, <1>4 DEF Done, Ready
  <2>2. eeprom[queue[pos + 1].cell] = Erased  BY <1>1, <1>2, <1>4
  <2>3. \A k \in 1 .. pos + 1 : k \in 1 .. pos \/ k = pos + 1  BY <1>1
  <2> QED BY <1>1, <1>3, <2>1, <2>2, <2>3 DEF EraseAhead
<1>5. CASE writing' # {}
  <2>1. Done' = pos  BY <1>1, <1>5 DEF Done, Ready
  <2> QED BY <1>1, <1>3, <2>1 DEF EraseAhead
<1> QED BY <1>4, <1>5

LEMMA PollKeepsOccupancy ==
  ASSUME IInv, OccupancyInv, power = "running", ServiceAndObserve,
         power' = power, occupied' = occupied
  PROVE  OccupancyInv'
<1>1. eeprom' = eeprom
  BY DEF ServiceAndObserve, Service, Submit, WriteByte, Finish, Waiting, writerVars
<1>2. Scan' = Scan  BY <1>1 DEF Scan
<1>3. CASE Submit
  <2>1. active /\ active' /\ pendingCommit' = pendingCommit
    BY <1>3 DEF Submit, ServiceAndObserve, ObserveWriter, liveVars
  <2>2. CASE \E r \in Preset, c \in Content : SaveAhead(r, c)
    <3>1. PICK r \in Preset, c \in Content : SaveAhead(r, c)  BY <2>2
    <3>2. SaveAhead(r, c)'  BY <1>3, <3>1, SubmitKeepsSave
    <3> QED BY <1>2, <2>1, <3>2 DEF OccupancyInv
  <2>3. CASE EraseAhead
    <3>1. EraseAhead'  BY <1>3, <2>3, SubmitKeepsErase
    <3> QED BY <1>2, <2>1, <3>1 DEF OccupancyInv
  <2>4. CASE pendingCommit  BY <1>2, <2>1, <2>4 DEF OccupancyInv
  <2> QED BY <2>1, <2>2, <2>3, <2>4 DEF OccupancyInv
<1>4. CASE Finish
  <2>1. active /\ ~active' /\ pos = Len(queue) /\ writing = {}
    BY <1>4 DEF Finish, Ready, IInv, TypeOK, WriterTypeOK
  <2>2. occupied = Scan  BY <2>1, FinishedSave, FinishedErase DEF OccupancyInv
  <2> QED BY <1>2, <2>1, <2>2 DEF OccupancyInv
<1>5. CASE Waiting
  <2>1. UNCHANGED writerVars /\ active' = active  BY <1>5 DEF Waiting, writerVars
  <2>2. ~active => ~pendingCommit  BY DEF IInv, WriterInv
  <2>3. UNCHANGED liveVars  BY <2>1, <2>2 DEF ServiceAndObserve, ObserveWriter
  <2> QED BY <2>1, <2>3, OccupancyUntouched
<1> QED BY <1>3, <1>4, <1>5 DEF ServiceAndObserve, Service

(* So does the byte that reaches its cell, which for a commit lies in the ring. *)
LEMMA ByteKeepsOccupancy ==
  ASSUME IInv, OccupancyInv, ByteProgrammed
  PROVE  OccupancyInv'
<1>1. PICK op \in writing : eeprom' = [eeprom EXCEPT ![op.cell] = op.byte]
  BY DEF ByteProgrammed, Programmed
<1>2. /\ writing' = {} /\ queue' = queue /\ pos' = pos /\ active' = active
      /\ power' = power /\ pendingCommit' = pendingCommit /\ occupied' = occupied
  BY DEF ByteProgrammed, Programmed, liveVars, loopVars
<1>3. /\ active /\ ~Ready /\ op = queue[pos] /\ pos \in 1 .. Len(queue)
      /\ Len(queue) \in Nat /\ (CommitJob \/ PresetJob)
      /\ eeprom \in [Cell -> Byte]
  BY WritingInJob DEF IInv, TypeOK, WriterTypeOK
<1>4. CASE pendingCommit /\ power = "running"
  <2>1. CommitJob  BY <1>3, <1>4 DEF PresetJob
  <2>2. OnlyIn(eeprom, eeprom', pendingHead)  BY <1>1, <1>4, <2>1, CommitByte
  <2>3. pendingHead \notin Preset
    BY MemoryAssumption, LiveAssumption DEF IInv, TypeOK, LiveTypeOK, LiveSlot
  <2>4. Scan' = Scan  BY <2>2, <2>3, OtherPresets DEF Scan
  <2> QED BY <1>2, <1>4, <2>4 DEF OccupancyInv
<1>5. ASSUME NEW r \in Preset, NEW c \in Content, SaveAhead(r, c)
      PROVE  SaveAhead(r, c)'
  <2>1. PICK image \in Image : /\ image = [seq |-> 0, content |-> c]
                               /\ r \in Record /\ RecordJob(r, image)
    BY <1>5, SaveAheadJob
  <2>2. RecordJob(r, image)'
    BY <1>1, <1>2, <1>3, <2>1, ProgrammedInRecordJob DEF IInv
  <2>3. OnlyIn(eeprom, eeprom', r)  BY <1>1, <1>3, <2>1, RecordJobByte
  <2>4. \A q \in Preset \ {r} : Valid(eeprom', q) <=> Valid(eeprom, q)
    BY <2>3, OtherPresets
  <2> QED BY <1>2, <1>5, <2>1, <2>2, <2>4 DEF SaveAhead
<1>6. ASSUME EraseAhead PROVE EraseAhead'
  <2>1. \A k \in 1 .. Len(queue) : queue[k].cell \in Cell  BY <1>6, EraseQueue
  <2>2. op.byte = Erased  BY <1>3, <1>6, EraseQueue
  <2>3. \A k \in 1 .. Len(queue) :
          eeprom'[queue[k].cell] =
            IF queue[k].cell = op.cell THEN Erased ELSE eeprom[queue[k].cell]
    <3>1. eeprom' = [eeprom EXCEPT ![op.cell] = Erased]  BY <1>1, <2>2
    <3> QED BY <1>3, <2>1, <3>1
  <2>4. Done = pos - 1 /\ Done' = pos  BY <1>2, <1>3 DEF Done, Ready
  <2>5. \A k \in 1 .. pos : eeprom'[queue[k].cell] = Erased
    <3> TAKE k \in 1 .. pos
    <3>1. k \in 1 .. Len(queue) /\ (k = pos \/ k \in 1 .. pos - 1)  BY <1>3
    <3>2. k \in 1 .. pos - 1 => eeprom[queue[k].cell] = Erased
      BY <1>6, <2>4 DEF EraseAhead
    <3> QED BY <1>3, <2>3, <3>1, <3>2
  <2> QED BY <1>2, <1>6, <2>4, <2>5 DEF EraseAhead
<1>7. CASE ~pendingCommit /\ power = "running"
  <2>1. CASE \E r \in Preset, c \in Content : SaveAhead(r, c)
    BY <1>2, <1>3, <1>5, <1>7, <2>1 DEF OccupancyInv
  <2>2. CASE EraseAhead  BY <1>2, <1>3, <1>6, <1>7, <2>2 DEF OccupancyInv
  <2> QED BY <1>3, <1>7, <2>1, <2>2 DEF OccupancyInv
<1>8. CASE power # "running"  BY <1>2, <1>8 DEF OccupancyInv
<1> QED BY <1>4, <1>7, <1>8

(* A job just queued has everything still ahead of it. *)
LEMMA SavePresetKeepsOccupancy ==
  ASSUME IInv, OccupancyInv, NEW r \in Preset, SavePreset(r)
  PROVE  OccupancyInv'
<1>1. /\ power = "running" /\ ~active /\ pendingCommit' = pendingCommit
      /\ Begin(RecordOps(r, [seq |-> 0, content |-> live]))
      /\ occupied' = occupied \cup {r}
  BY DEF SavePreset, Operation, WritePreset, Begin, liveVars
<1>2. /\ writing = {} /\ live \in Content /\ r \in Record /\ ~pendingCommit
      /\ occupied = Scan
  BY <1>1, MemoryAssumption DEF IInv, WriterInv, TypeOK, OccupancyInv
<1>3. PICK c, image : /\ c \in Content /\ c = live
                      /\ image = [seq |-> 0, content |-> c]
  BY <1>2
<1>4. image \in Image  BY <1>3 DEF Image
<1>5. RecordJob(r, image)' /\ active' /\ eeprom' = eeprom
  BY <1>1, <1>2, <1>3, <1>4, BeginRecordJob
<1>6. SaveAhead(r, c)'
  BY <1>1, <1>2, <1>3, <1>5 DEF SaveAhead, Scan
<1> QED BY <1>1, <1>2, <1>3, <1>5, <1>6 DEF OccupancyInv

LEMMA EraseAllKeepsOccupancy ==
  ASSUME IInv, EraseAllPresets
  PROVE  OccupancyInv'
<1>1. /\ queue' = EraseOps(ScaleSlots \o ConfigSlots) /\ pos' = 0
      /\ writing' = writing /\ occupied' = {} /\ ~active
  BY DEF EraseAllPresets, EraseAll, Begin, deviceVars
<1>2. writing' = {} /\ ~pendingCommit  BY <1>1 DEF EraseAllPresets, Operation, IInv, WriterInv
<1>3. Done' = 0  BY <1>1, <1>2 DEF Done, Ready
<1>4. EraseAhead'  BY <1>1, <1>3 DEF EraseAhead
<1>5. active' /\ ~pendingCommit'
  BY <1>2 DEF EraseAllPresets, EraseAll, Begin, liveVars
<1> QED BY <1>4, <1>5 DEF OccupancyInv

LEMMA OccupancyStep ==
  IInv /\ OccupancyInv /\ [Next]_vars => OccupancyInv'
<1> SUFFICES ASSUME IInv, OccupancyInv, [Next]_vars PROVE OccupancyInv'  OBVIOUS
<1>1. ASSUME power' # "running" PROVE OccupancyInv'  BY <1>1 DEF OccupancyInv
<1>2. CASE \E image \in {"boot", "mboot"} : PowerOn(image)  BY <1>1, <1>2 DEF PowerOn
<1>3. CASE BootService  BY <1>1, <1>3 DEF BootService, loopVars
<1>4. CASE BootDone
  <2>1. ~active' /\ occupied' = Scan /\ eeprom' = eeprom
    BY <1>4 DEF BootDone, writerVars
  <2> QED BY <2>1 DEF OccupancyInv, Scan
<1>5. CASE MaintenanceBootDone  BY <1>1, <1>5 DEF MaintenanceBootDone
<1>6. CASE \E o \in Offset : ReuseLegacyCell(o)
  BY <1>1, <1>6 DEF ReuseLegacyCell, loopVars
<1>7. CASE \/ NoInput \/ NoAutosave \/ Quiesce \/ UNCHANGED vars
           \/ (\E c \in Content : Edit(c)) \/ (\E r \in Preset : LoadPreset(r))
  <2>1. UNCHANGED <<writerVars, liveVars>>
    BY <1>7 DEF NoInput, NoAutosave, Quiesce, vars, Edit, LoadPreset
  <2>2. power' = power /\ occupied' = occupied
    BY <1>7 DEF NoInput, NoAutosave, Quiesce, vars, loopVars, Edit, LoadPreset, Operation
  <2> QED BY <2>1, <2>2, OccupancyUntouched
<1>8. CASE \E r \in Preset : SavePreset(r)  BY <1>8, SavePresetKeepsOccupancy
<1>9. CASE EraseAllPresets  BY <1>9, EraseAllKeepsOccupancy
<1>10. CASE WriterTurn \/ IdlePoll
  <2>1. power = "running" /\ ServiceAndObserve /\ power' = power /\ occupied' = occupied
    BY <1>10 DEF WriterTurn, IdlePoll, InMenu, loopVars
  <2> QED BY <2>1, PollKeepsOccupancy
<1>11. CASE Autosave
  <2>1. /\ power = "running" /\ ~active /\ occupied' = occupied
        /\ pendingCommit' /\ eeprom' = eeprom
    BY <1>11 DEF Autosave, Commit, QueueCommit, Begin, deviceVars
  <2> QED BY <2>1 DEF OccupancyInv, Scan
<1>12. CASE ByteProgrammed  BY <1>12, ByteKeepsOccupancy
<1>13. CASE PowerLoss  BY <1>1, <1>13 DEF PowerLoss
<1> QED BY <1>2, <1>3, <1>4, <1>5, <1>6, <1>7, <1>8, <1>9, <1>10, <1>11, <1>12,
           <1>13 DEF Next

LEMMA CachesInvHolds ==
  Spec => [](IInv /\ CachesInv)
<1>1. Init => IInv  BY InitEstablishesInv
<1>2. Init => CachesInv  BY DEF Init, CachesInv, CleanInv, OccupancyInv
<1>3. IInv /\ [Next]_vars => IInv'  BY NextKeepsInv
<1>4. IInv /\ CachesInv /\ [Next]_vars => CachesInv'
  BY CleanStep, OccupancyStep DEF CachesInv
<1> QED BY <1>1, <1>2, <1>3, <1>4, PTL DEF Spec

(* What the running image remembers instead of reading it again stays true:
   an unchanged configuration is the one a power-up would restore or the one
   in the writer, and the occupancy bits, set when a job is queued, are those
   of the EEPROM once the writer is done. *)
THEOREM CachesStayTrue == Spec => []CachesAreTrue
<1>1. CachesInv => CachesAreTrue
  <2>1. CachesInv => CleanMeansKept  BY DEF CachesInv, CleanInv, CleanMeansKept
  <2>2. CachesInv => OccupancyExact  BY DEF CachesInv, OccupancyInv, OccupancyExact
  <2> QED BY <2>1, <2>2 DEF CachesAreTrue
<1> QED BY <1>1, CachesInvHolds, PTL
=============================================================================
