------------------------- MODULE CalibrationProofs -------------------------
(***************************************************************************)
(* The calibration panel, proved for every set of profiles and residuals,  *)
(* every number of generations and every record length: the journal and    *)
(* the certificate stay sound between any two bytes, the panel's signals   *)
(* are true, the profile in use is the stored one between workflows, and   *)
(* the EEPROM changes by nothing but what was saved or erased on purpose.  *)
(***************************************************************************)
EXTENDS CalibrationPanel, SequenceTheorems, TLAPS

-----------------------------------------------------------------------------
(* The journal and its two writers *)

CertificateMarker == eeprom[<<Certificate, 0>>]
CertificateBody   == eeprom[<<Certificate, 1>>]

ClearOps == <<[cell |-> <<Certificate, 0>>, byte |-> Erased],
              [cell |-> <<Certificate, 1>>, byte |-> Erased]>>

(* Both writers may be at work; the cell of a byte tells whose it is. *)
OfCertificate(op) == op.cell[1] = Certificate

CalWriting == \E op \in writing : ~OfCertificate(op)
AuxWriting == \E op \in writing : OfCertificate(op)

(* Bytes of either job that have reached the cells. *)
CalDone == IF CalWriting THEN calPos - 1 ELSE calPos
AuxDone == IF AuxWriting THEN auxPos - 1 ELSE auxPos

(* The body being saved, its profile and its generation. *)
Saving == calQueue[2].byte

SaveJob ==
  /\ \E p \in Profile :
       calQueue = Cal!RecordOps(pendingIndex, [seq |-> pendingGeneration, content |-> p])
  /\ pendingIndex = 1 - activeIndex
  /\ pendingGeneration = (generation + 1) % Generations
  /\ CalDone \in 1 .. BodyLen + 1 => eeprom[<<pendingIndex, 0>>] = Erased
  /\ CalDone = BodyLen + 2 => eeprom[<<pendingIndex, 0>>] = Marked
  /\ \A o \in 1 .. BodyLen : CalDone >= o + 1 => eeprom[<<pendingIndex, o>>] = Saving

EraseJob ==
  /\ calQueue = Cal!EraseOps(<<0, 1>>)
  /\ CalDone >= 1 => eeprom[<<0, 0>>] = Erased
  /\ CalDone = 2 => eeprom[<<1, 0>>] = Erased
  /\ CertifiedGenerations = {}
  /\ auxActive => auxQueue = ClearOps

CertifyJob ==
  /\ ~calActive
  /\ \E g \in Generation, r \in Residual :
       /\ auxQueue = CertificateOps(g, r)
       /\ AuxDone >= 2 => CertificateBody = [seq |-> 0, content |-> r]
       /\ AuxDone = 3 => CertificateMarker = MarkerFor(g)
  /\ AuxDone \in {1, 2} => CertificateMarker = Erased

ClearJob ==
  /\ auxQueue = ClearOps
  /\ AuxDone >= 1 => CertificateMarker = Erased

WritersInv ==
  /\ calActive => IF pendingCommit THEN SaveJob ELSE EraseJob
  /\ auxActive => CertifyJob \/ ClearJob
  /\ pendingCommit => calActive
  /\ ~(CalWriting /\ AuxWriting)
  /\ \A op \in writing :
       IF OfCertificate(op) THEN auxActive /\ auxPos >= 1 /\ op = auxQueue[auxPos]
                            ELSE calActive /\ calPos >= 1 /\ op = calQueue[calPos]

(* The head is the record a power-up would pick; while a save is written it
   still is, until the final marker makes the new record the later one. *)
HeadIs(i, g) == ValidRecords # {} => Latest = i /\ GenerationIn(i) = g

Saved ==
  /\ ValidRecords # {} /\ Latest = pendingIndex
  /\ GenerationIn(pendingIndex) = pendingGeneration
  /\ Stored = {Saving.content}

HeadInv ==
  IF pendingCommit /\ CalDone = BodyLen + 2
    THEN Saved
    ELSE ~calActive \/ pendingCommit => HeadIs(activeIndex, generation)

RecordsTyped ==
  \A i \in ValidRecords :
    Cal!BodyOf(eeprom, i) \in [seq : Generation, content : Profile]

Consecutive ==
  ValidRecords = JournalRecord =>
    (GenerationIn(Latest) - GenerationIn(1 - Latest)) % Generations = 1

JournalInv ==
  /\ JournalTypeOK /\ RecordsTyped /\ Consecutive /\ CertificateComplete
  /\ WritersInv
  /\ IF power = "panel" THEN HeadInv ELSE ~calActive /\ ~auxActive

-----------------------------------------------------------------------------
(* The positions in the workflows *)

Full1 == <<"adc", "dac", "dac", "verify", "wait", "certifyNext", "wait", "commit", "wait", "match">>
Full2 == <<"dac", "dac", "verify", "wait", "certifyNext", "wait", "commit", "wait", "match">>
Full3 == <<"dac", "verify", "wait", "certifyNext", "wait", "commit", "wait", "match">>
Full4 == <<"verify", "wait", "certifyNext", "wait", "commit", "wait", "match">>
Full5 == <<"wait", "certifyNext", "wait", "commit", "wait", "match">>
Full6 == <<"certifyNext", "wait", "commit", "wait", "match">>
Full7 == <<"wait", "commit", "wait", "match">>
Full8 == <<"commit", "wait", "match">>
Kept1 == <<"wait", "match">>
Kept2 == <<"match">>
Adc1  == <<"adc", "wait", "commit", "wait", "pass">>
Adc2  == <<"wait", "commit", "wait", "pass">>
Adc3  == <<"commit", "wait", "pass">>
Adc4  == <<"wait", "pass">>
Adc5  == <<"pass">>
Dac1  == <<"adopt", "dac", "dac", "verify", "wait", "certifyNext", "wait", "commit", "wait", "match">>
Ver1  == <<"load", "verify", "wait", "certifyCurrent", "wait", "match">>
Ver2  == <<"verify", "wait", "certifyCurrent", "wait", "match">>
Ver3  == <<"wait", "certifyCurrent", "wait", "match">>
Ver4  == <<"certifyCurrent", "wait", "match">>
Out1  == <<"measure">>
Erase1 == <<"eraseCertificate", "wait", "eraseJournal", "wait", "reset">>
Erase2 == <<"wait", "eraseJournal", "wait", "reset">>
Erase3 == <<"eraseJournal", "wait", "reset">>
Erase4 == <<"wait", "reset">>
Erase5 == <<"reset">>

(* The job in a writer, or its result once it is done. *)
SaveAhead(p) == IF pendingCommit THEN Saving.content = p ELSE Stored = {p}

CertifyAhead(g) ==
  IF auxActive THEN \E r \in Residual : auxQueue = CertificateOps(g, r)
               ELSE CertificateMarker = MarkerFor(g)

ClearAhead == IF auxActive THEN auxQueue = ClearOps ELSE CertifiedGenerations = {}

EraseAhead == IF calActive THEN calQueue = Cal!EraseOps(<<0, 1>>) ELSE ValidRecords = {}

LatestGeneration == IF pendingCommit THEN pendingGeneration ELSE generation

SaveKept     == (calActive => pendingCommit) /\ SaveAhead(running)
CertifyKept  == CertifyAhead(LatestGeneration)
CertifyReady == ~calActive /\ CertifyAhead((generation + 1) % Generations)
EraseKept    == ~pendingCommit /\ EraseAhead

-----------------------------------------------------------------------------
(* Where a workflow stands, and what is then true.  Under steady buttons and
   timely writes a workflow that fails has not written the journal yet, so that
   what it restores is what is stored. *)

IsStored(p) == IF Stored = {} THEN p = FactoryProfile ELSE Stored = {p}

Resting ==
  /\ flow = <<>>
  /\ steady => /\ ~calActive /\ ~auxActive
               /\ power = "panel" => IsStored(running)

Choosing ==
  /\ flow \in {DacOnly, Verification, OutputTest, EraseAll, Erase1}
  /\ steady => ~calActive /\ ~auxActive /\ IsStored(previous) /\ IsStored(running)

Measuring ==
  /\ flow \in {FullCalibration, Full1, Full2, Full3, Full4, Full5, AdcOnly, Adc1, Adc2, Out1}
  /\ steady => ~calActive /\ ~auxActive /\ IsStored(previous)

Loading ==
  /\ flow \in {Dac1, Ver1} /\ ~Busy
  /\ steady => IsStored(previous) /\ IsStored(running)

ReadyToSave ==
  /\ flow \in {Full6, Adc3} /\ ~Busy
  /\ steady => IsStored(previous)

Certifying == flow = Full7 /\ CertifyReady /\ (steady => IsStored(previous))
Committing == flow = Full8 /\ CertifyReady /\ ~Busy

Keeping      == flow = Kept1 /\ SaveKept /\ CertifyKept
Kept         == flow = Kept2 /\ SaveKept /\ CertifyKept /\ ~Busy
PlainKeeping == flow = Adc4 /\ SaveKept /\ (steady => ~auxActive)
PlainKept    == flow = Adc5 /\ SaveKept /\ ~Busy

Verifying ==
  /\ flow \in {Ver2, Ver3, Ver4} /\ ~Busy /\ Stored = {running}
  /\ steady => IsStored(previous)

Clearing ==
  /\ flow = Erase2 /\ ClearAhead
  /\ steady => ~calActive /\ IsStored(previous) /\ IsStored(running)

Cleared == flow = Erase3 /\ ClearAhead /\ ~Busy
Wiping  == flow = Erase4 /\ ClearAhead /\ EraseKept /\ (steady => ~auxActive)
Wiped   == flow = Erase5 /\ ClearAhead /\ EraseKept /\ ~Busy

FlowInv ==
  /\ flow # <<>> => power = "panel"
  /\ steady /\ cancelled => flow = <<>>
  /\ \/ Resting \/ Choosing \/ Measuring \/ Loading \/ ReadyToSave
     \/ Certifying \/ Committing \/ Keeping \/ Kept \/ PlainKeeping \/ PlainKept
     \/ Verifying \/ Clearing \/ Cleared \/ Wiping \/ Wiped

PanelTyped ==
  /\ power \in {"off", "panel"}
  /\ running \in Profile /\ previous \in Profile
  /\ residual \in Residual
  /\ steady \in BOOLEAN

PanelInv == PanelTyped /\ JournalInv /\ FlowInv

-----------------------------------------------------------------------------
(* Generations *)

(* The cyclic distance between two generations. *)
LEMMA Distance ==
  ASSUME NEW a \in Generation, NEW b \in Generation
  PROVE  (a - b) % Generations = IF a >= b THEN a - b ELSE a - b + Generations
<1>1. Generations \in Nat /\ Generations >= 4  BY JournalAssumption
<1>2. a \in Nat /\ b \in Nat /\ a < Generations /\ b < Generations  BY <1>1 DEF Generation
<1>3. CASE a >= b
  <2>1. a - b \in Nat /\ a - b < Generations  BY <1>1, <1>2, <1>3
  <2> QED BY <1>1, <1>3, <2>1
<1>4. CASE ~(a >= b)
  <2>1. a - b + Generations \in Nat /\ a - b + Generations < Generations
    BY <1>1, <1>2, <1>4
  <2>2. (a - b) % Generations = a - b + Generations  BY <1>1, <1>2, <2>1
  <2> QED BY <1>4, <2>2
<1> QED BY <1>3, <1>4

LEMMA NextGeneration ==
  ASSUME NEW g \in Generation
  PROVE  /\ (g + 1) % Generations = IF g = Generations - 1 THEN 0 ELSE g + 1
         /\ (g + 1) % Generations \in Generation
         /\ (((g + 1) % Generations) - g) % Generations = 1
<1>1. Generations \in Nat /\ Generations >= 4  BY JournalAssumption
<1>2. g \in Nat /\ g < Generations  BY <1>1 DEF Generation
<1>3. (g + 1) % Generations = IF g = Generations - 1 THEN 0 ELSE g + 1
  <2>1. CASE g = Generations - 1
    <3>1. g + 1 = Generations  BY <1>1, <1>2, <2>1
    <3>2. Generations % Generations = 0  BY <1>1
    <3> QED BY <2>1, <3>1, <3>2
  <2>2. CASE g # Generations - 1
    <3>1. g + 1 \in Nat /\ g + 1 < Generations  BY <1>1, <1>2, <2>2
    <3> QED BY <1>1, <2>2, <3>1
  <2> QED BY <2>1, <2>2
<1>4. (g + 1) % Generations \in Generation  BY <1>1, <1>2, <1>3 DEF Generation
<1>5. (((g + 1) % Generations) - g) % Generations = 1
  <2>1. (((g + 1) % Generations) - g) % Generations =
          IF (g + 1) % Generations >= g THEN ((g + 1) % Generations) - g
          ELSE ((g + 1) % Generations) - g + Generations
    BY <1>4, Distance
  <2> QED BY <1>1, <1>2, <1>3, <2>1
<1> QED BY <1>3, <1>4, <1>5

(* Of two consecutive generations the later one is the newer, across the wrap. *)
LEMMA ConsecutiveOrder ==
  ASSUME NEW a \in Generation, NEW b \in Generation, (a - b) % Generations = 1
  PROVE  IsNewer(a, b) /\ ~IsNewer(b, a)
<1>1. Generations \in Nat /\ Generations >= 4  BY JournalAssumption
<1>2. a \in Nat /\ b \in Nat /\ a < Generations /\ b < Generations  BY <1>1 DEF Generation
<1>3. (b - a) % Generations = Generations - 1
  <2>1. (a - b) % Generations = IF a >= b THEN a - b ELSE a - b + Generations
    BY Distance
  <2>2. (b - a) % Generations = IF b >= a THEN b - a ELSE b - a + Generations
    BY Distance
  <2> QED BY <1>1, <1>2, <2>1, <2>2
<1>4. 1 < Generations \div 2 /\ ~(Generations - 1 < Generations \div 2)  BY <1>1
<1> QED BY <1>1, <1>3, <1>4 DEF IsNewer

-----------------------------------------------------------------------------
(* Reading a memory *)

Valids(m) == {i \in JournalRecord : Cal!Valid(m, i)}
Gen(m, i) == Cal!BodyOf(m, i).seq

LatestIn(m) ==
  CHOOSE i \in Valids(m) :
    Valids(m) = JournalRecord => (i = 1 <=> IsNewer(Gen(m, 1), Gen(m, 0)))

StoredIn(m) ==
  IF Valids(m) = {} THEN {} ELSE {Cal!BodyOf(m, LatestIn(m)).content}

TypedIn(m) ==
  \A i \in Valids(m) : Cal!BodyOf(m, i) \in [seq : Generation, content : Profile]

PairedIn(m) ==
  Valids(m) = JournalRecord =>
    (Gen(m, LatestIn(m)) - Gen(m, 1 - LatestIn(m))) % Generations = 1

HeadIn(m, i, g) == Valids(m) # {} => LatestIn(m) = i /\ Gen(m, i) = g

LEMMA Readings ==
  /\ ValidRecords = Valids(eeprom) /\ ValidRecords' = Valids(eeprom')
  /\ Latest = LatestIn(eeprom) /\ Latest' = LatestIn(eeprom')
  /\ Stored = StoredIn(eeprom) /\ Stored' = StoredIn(eeprom')
  /\ RecordsTyped <=> TypedIn(eeprom)
  /\ RecordsTyped' <=> TypedIn(eeprom')
  /\ Consecutive <=> PairedIn(eeprom)
  /\ Consecutive' <=> PairedIn(eeprom')
<1>1. ValidRecords = Valids(eeprom) /\ ValidRecords' = Valids(eeprom')
  BY DEF ValidRecords, Valids
<1>2. \A i : GenerationIn(i) = Gen(eeprom, i) /\ GenerationIn(i)' = Gen(eeprom', i)
  BY DEF GenerationIn, Gen
<1>3. Latest = LatestIn(eeprom) /\ Latest' = LatestIn(eeprom')
  BY <1>1, <1>2 DEF Latest, LatestIn
<1>4. Stored = StoredIn(eeprom) /\ Stored' = StoredIn(eeprom')
  BY <1>1, <1>3 DEF Stored, StoredIn
<1>5. (RecordsTyped <=> TypedIn(eeprom)) /\ (RecordsTyped' <=> TypedIn(eeprom'))
  BY <1>1 DEF RecordsTyped, TypedIn
<1>6. (Consecutive <=> PairedIn(eeprom)) /\ (Consecutive' <=> PairedIn(eeprom'))
  BY <1>1, <1>3 DEF Consecutive, PairedIn, GenerationIn, Gen
<1> QED BY <1>1, <1>3, <1>4, <1>5, <1>6

(* The record a power-up picks is the only valid one, or the later of two. *)
LEMMA LatestIsValid ==
  ASSUME NEW m, Valids(m) # {}
  PROVE  LatestIn(m) \in Valids(m)
<1>1. Valids(m) \subseteq {0, 1}  BY DEF Valids, JournalRecord
<1>2. \E i \in Valids(m) :
        Valids(m) = JournalRecord => (i = 1 <=> IsNewer(Gen(m, 1), Gen(m, 0)))
  BY <1>1 DEF JournalRecord
<1> QED BY <1>2 DEF LatestIn

LEMMA LatestOfOne ==
  ASSUME NEW m, NEW i \in JournalRecord, Valids(m) = {i}
  PROVE  LatestIn(m) = i
BY LatestIsValid

LEMMA LatestOfTwo ==
  ASSUME NEW m, Valids(m) = JournalRecord, TypedIn(m), NEW i \in JournalRecord,
         (Gen(m, i) - Gen(m, 1 - i)) % Generations = 1
  PROVE  LatestIn(m) = i
<1>1. LatestIn(m) \in {0, 1} /\ (LatestIn(m) = 1 <=> IsNewer(Gen(m, 1), Gen(m, 0)))
  <2>1. \E k \in Valids(m) :
          Valids(m) = JournalRecord => (k = 1 <=> IsNewer(Gen(m, 1), Gen(m, 0)))
    BY DEF JournalRecord
  <2> QED BY <2>1 DEF LatestIn, JournalRecord
<1>2. Gen(m, 0) \in Generation /\ Gen(m, 1) \in Generation
  BY DEF TypedIn, Gen, JournalRecord
<1>3. CASE i = 1
  <2>1. (Gen(m, 1) - Gen(m, 0)) % Generations = 1  BY <1>3
  <2>2. IsNewer(Gen(m, 1), Gen(m, 0))  BY <1>2, <2>1, ConsecutiveOrder
  <2> QED BY <1>1, <1>3, <2>2
<1>4. CASE i = 0
  <2>1. (Gen(m, 0) - Gen(m, 1)) % Generations = 1  BY <1>4
  <2>2. ~IsNewer(Gen(m, 1), Gen(m, 0))  BY <1>2, <2>1, ConsecutiveOrder
  <2> QED BY <1>1, <1>4, <2>2
<1> QED BY <1>3, <1>4 DEF JournalRecord

-----------------------------------------------------------------------------
(* Memories that differ in one record *)

AnyRecord == JournalRecord \cup {Certificate}

(* m2 differs from m only in cells of record r. *)
OnlyIn(m, m2, r) ==
  \A q \in AnyRecord \ {r} : \A o \in Cal!Offset : m2[<<q, o>>] = m[<<q, o>>]

LEMMA OtherRecord ==
  ASSUME NEW m, NEW m2, NEW r, OnlyIn(m, m2, r), NEW i \in JournalRecord, i # r
  PROVE  (Cal!Valid(m2, i) <=> Cal!Valid(m, i)) /\ Cal!BodyOf(m2, i) = Cal!BodyOf(m, i)
<1>1. BodyLen \in Nat \ {0}  BY CellAssumption
<1>2. \A o \in Cal!Offset : m2[<<i, o>>] = m[<<i, o>>]  BY DEF OnlyIn, AnyRecord
<1>3. 0 \in Cal!Offset /\ 1 \in Cal!Offset /\ 1 .. BodyLen \subseteq Cal!Offset
  BY <1>1 DEF Cal!Offset
<1> QED BY <1>2, <1>3 DEF Cal!Complete, Cal!Valid, Cal!BodyOf

(* A change to the certificate leaves the journal as it reads. *)
LEMMA JournalUntouched ==
  ASSUME NEW m, NEW m2, OnlyIn(m, m2, Certificate)
  PROVE  /\ Valids(m2) = Valids(m) /\ LatestIn(m2) = LatestIn(m)
         /\ StoredIn(m2) = StoredIn(m)
         /\ \A i \in JournalRecord : Gen(m2, i) = Gen(m, i)
         /\ TypedIn(m2) <=> TypedIn(m)
         /\ PairedIn(m2) <=> PairedIn(m)
<1>1. \A i \in JournalRecord : /\ Cal!Valid(m2, i) <=> Cal!Valid(m, i)
                               /\ Cal!BodyOf(m2, i) = Cal!BodyOf(m, i)
  <2> TAKE i \in JournalRecord
  <2>1. i # Certificate  BY DEF JournalRecord, Certificate
  <2> QED BY <2>1, OtherRecord
<1>2. Valids(m2) = Valids(m)  BY <1>1 DEF Valids
<1>3. \A i \in JournalRecord : Gen(m2, i) = Gen(m, i)  BY <1>1 DEF Gen
<1>4. Gen(m2, 0) = Gen(m, 0) /\ Gen(m2, 1) = Gen(m, 1)  BY <1>3 DEF JournalRecord
<1>5. LatestIn(m2) = LatestIn(m)  BY <1>2, <1>4 DEF LatestIn
<1>6. \A i \in Valids(m) : i \in JournalRecord  BY DEF Valids
<1>7. StoredIn(m2) = StoredIn(m)
  <2>1. Valids(m) # {} => LatestIn(m) \in JournalRecord  BY <1>6, LatestIsValid
  <2> QED BY <1>1, <1>2, <1>5, <2>1 DEF StoredIn
<1>8. TypedIn(m2) <=> TypedIn(m)  BY <1>1, <1>2, <1>6 DEF TypedIn
<1>9. PairedIn(m2) <=> PairedIn(m)
  <2>1. CASE Valids(m) = JournalRecord
    <3>1. LatestIn(m) \in {0, 1} /\ 1 - LatestIn(m) \in {0, 1}
      BY <2>1, LatestIsValid DEF JournalRecord
    <3> QED BY <1>2, <1>3, <1>5, <3>1 DEF PairedIn, JournalRecord
  <2>2. CASE Valids(m) # JournalRecord  BY <1>2, <2>2 DEF PairedIn
  <2> QED BY <2>1, <2>2
<1> QED BY <1>2, <1>3, <1>5, <1>7, <1>8, <1>9

(* Losing a record never promotes one that was not stored; losing the older
   one, or none, changes nothing a power-up would load. *)
LEMMA RecordLost ==
  ASSUME NEW m, NEW m2, NEW r \in JournalRecord, OnlyIn(m, m2, r),
         TypedIn(m), ~Cal!Valid(m2, r)
  PROVE  /\ Valids(m2) = Valids(m) \ {r} /\ TypedIn(m2) /\ PairedIn(m2)
         /\ StoredIn(m2) \subseteq {Cal!BodyOf(m, i).content : i \in Valids(m)}
         /\ \A g : HeadIn(m, 1 - r, g) =>
              HeadIn(m2, 1 - r, g) /\ StoredIn(m2) = StoredIn(m)
<1>1. \A i \in JournalRecord \ {r} : /\ Cal!Valid(m2, i) <=> Cal!Valid(m, i)
                                     /\ Cal!BodyOf(m2, i) = Cal!BodyOf(m, i)
  BY OtherRecord
<1>2. Valids(m2) = Valids(m) \ {r}  BY <1>1 DEF Valids
<1>3. TypedIn(m2)  BY <1>1, <1>2 DEF TypedIn, Valids
<1>4. PairedIn(m2)  BY <1>2 DEF PairedIn
<1>5. Valids(m2) # {} => LatestIn(m2) \in Valids(m2)  BY LatestIsValid
<1>6. \A i \in Valids(m2) : i \in JournalRecord \ {r}  BY <1>2 DEF Valids
<1>7. StoredIn(m2) \subseteq {Cal!BodyOf(m, i).content : i \in Valids(m)}
  <2>1. CASE Valids(m2) = {}  BY <2>1 DEF StoredIn
  <2>2. CASE Valids(m2) # {}
    <3>1. LatestIn(m2) \in Valids(m) \ {r}  BY <1>2, <1>5, <2>2
    <3>2. Cal!BodyOf(m2, LatestIn(m2)) = Cal!BodyOf(m, LatestIn(m2))
      BY <1>1, <1>5, <1>6, <2>2
    <3> QED BY <2>2, <3>1, <3>2 DEF StoredIn
  <2> QED BY <2>1, <2>2
<1>8. ASSUME NEW g, HeadIn(m, 1 - r, g)
      PROVE  HeadIn(m2, 1 - r, g) /\ StoredIn(m2) = StoredIn(m)
  <2>1. CASE Valids(m) = {}  BY <1>2, <2>1 DEF HeadIn, StoredIn
  <2>2. CASE Valids(m) # {}
    <3>1. LatestIn(m) = 1 - r /\ Gen(m, 1 - r) = g /\ 1 - r \in Valids(m)
      BY <1>8, <2>2, LatestIsValid DEF HeadIn
    <3>2. 1 - r \in JournalRecord /\ 1 - r # r  BY DEF JournalRecord
    <3>3. Valids(m2) = {1 - r}
      BY <1>2, <3>1, <3>2 DEF Valids, JournalRecord
    <3>4. LatestIn(m2) = 1 - r  BY <3>2, <3>3, LatestOfOne
    <3>5. Cal!BodyOf(m2, 1 - r) = Cal!BodyOf(m, 1 - r)  BY <1>1, <3>2
    <3> QED BY <2>2, <3>1, <3>3, <3>4, <3>5 DEF HeadIn, StoredIn, Gen
  <2> QED BY <2>1, <2>2
<1> QED BY <1>2, <1>3, <1>4, <1>7, <1>8

(* A record completed with the next generation becomes the later one. *)
LEMMA RecordGained ==
  ASSUME NEW m, NEW m2, NEW r \in JournalRecord, OnlyIn(m, m2, r), TypedIn(m),
         NEW g \in Generation, HeadIn(m, 1 - r, g),
         NEW image \in [seq : Generation, content : Profile],
         image.seq = (g + 1) % Generations,
         Cal!Valid(m2, r), Cal!BodyOf(m2, r) = image
  PROVE  /\ TypedIn(m2) /\ PairedIn(m2)
         /\ Valids(m2) # {} /\ LatestIn(m2) = r /\ Gen(m2, r) = image.seq
         /\ StoredIn(m2) = {image.content}
<1>1. \A i \in JournalRecord \ {r} : /\ Cal!Valid(m2, i) <=> Cal!Valid(m, i)
                                     /\ Cal!BodyOf(m2, i) = Cal!BodyOf(m, i)
  BY OtherRecord
<1>2. r \in Valids(m2) /\ \A i \in Valids(m2) : i = r \/ i \in Valids(m)
  BY <1>1 DEF Valids
<1>3. TypedIn(m2)  BY <1>1, <1>2 DEF TypedIn, Valids
<1>4. Gen(m2, r) = image.seq  BY DEF Gen
<1>5. 1 - r \in JournalRecord /\ 1 - r # r /\ JournalRecord = {r, 1 - r}
  BY DEF JournalRecord
<1>6. CASE Valids(m2) = {r}
  <2>1. LatestIn(m2) = r  BY <1>6, LatestOfOne
  <2>2. PairedIn(m2)  BY <1>5, <1>6 DEF PairedIn
  <2> QED BY <1>3, <1>4, <1>6, <2>1, <2>2 DEF StoredIn
<1>7. CASE Valids(m2) = JournalRecord
  <2>1. 1 - r \in Valids(m)  BY <1>2, <1>5, <1>7
  <2>2. Gen(m, 1 - r) = g  BY <2>1 DEF HeadIn
  <2>3. Gen(m2, 1 - r) = g  BY <1>1, <1>5, <2>2 DEF Gen
  <2>4. (Gen(m2, r) - Gen(m2, 1 - r)) % Generations = 1
    BY <1>4, <2>3, NextGeneration
  <2>5. LatestIn(m2) = r  BY <1>3, <1>7, <2>4, LatestOfTwo
  <2>6. PairedIn(m2)  BY <2>4, <2>5 DEF PairedIn
  <2> QED BY <1>2, <1>3, <1>4, <2>5, <2>6 DEF StoredIn
<1>8. Valids(m2) = {r} \/ Valids(m2) = JournalRecord
  BY <1>2, <1>5 DEF Valids
<1> QED BY <1>6, <1>7, <1>8

-----------------------------------------------------------------------------
(* The jobs *)

ProfileImage == [seq : Generation, content : Profile]

LEMMA ProfileImages ==
  /\ ProfileImage \subseteq Cal!Image
  /\ \A g \in Nat, r \in Residual : [seq |-> g, content |-> r] \in Cal!Image
  /\ \A g \in Generation : MarkerFor(g) \in Cal!Image
  /\ Generation \subseteq Nat
<1>1. Generation \subseteq Nat  BY JournalAssumption DEF Generation
<1>2. Profile \subseteq Payload /\ Residual \subseteq Payload /\ Qualified \in Payload
  BY DEF Payload
<1>3. ProfileImage \subseteq Cal!Image  BY <1>1, <1>2 DEF ProfileImage, Cal!Image
<1>4. \A g \in Nat, r \in Residual : [seq |-> g, content |-> r] \in Cal!Image
  BY <1>2 DEF Cal!Image
<1>5. \A g \in Generation : MarkerFor(g) \in Cal!Image
  BY <1>1, <1>2 DEF Cal!Image, MarkerFor
<1> QED BY <1>1, <1>3, <1>4, <1>5

LEMMA Bytes ==
  /\ Erased \in Cal!Byte /\ Marked \in Cal!Byte /\ Torn \in Cal!Byte
  /\ Cal!Image \subseteq Cal!Byte
  /\ \A g \in Generation : MarkerFor(g) # Erased /\ MarkerFor(g) # Torn
<1>1. \A g \in Generation : MarkerFor(g) \in Cal!Image  BY ProfileImages
<1> QED BY <1>1, CellAssumption DEF Cal!Byte

LEMMA Cells ==
  /\ 0 \in Cal!Offset /\ 1 \in Cal!Offset /\ 1 .. BodyLen \subseteq Cal!Offset
  /\ \A r \in AnyRecord, o \in Cal!Offset : <<r, o>> \in Cal!Cell
  /\ JournalRecord \subseteq AnyRecord /\ Certificate \in AnyRecord
  /\ Certificate \notin JournalRecord
BY CellAssumption DEF Cal!Offset, Cal!Cell, AnyRecord, JournalRecord, Certificate

(* The queue of a record write, byte by byte. *)
LEMMA SaveOps ==
  ASSUME NEW r \in JournalRecord, NEW image \in ProfileImage
  PROVE  /\ Cal!RecordOps(r, image) \in Seq(Cal!Op)
         /\ Len(Cal!RecordOps(r, image)) = BodyLen + 2
         /\ Cal!RecordOps(r, image)[1] = [cell |-> <<r, 0>>, byte |-> Erased]
         /\ Cal!RecordOps(r, image)[2].byte = image
         /\ \A k \in 2 .. BodyLen + 1 :
              Cal!RecordOps(r, image)[k] = [cell |-> <<r, k - 1>>, byte |-> image]
         /\ Cal!RecordOps(r, image)[BodyLen + 2] = [cell |-> <<r, 0>>, byte |-> Marked]
<1>1. BodyLen \in Nat \ {0}  BY CellAssumption
<1>2. Cal!RecordOps(r, image)[1] = [cell |-> <<r, 0>>, byte |-> Erased]
  BY <1>1 DEF Cal!RecordOps
<1>3. \A k \in 2 .. BodyLen + 1 :
        Cal!RecordOps(r, image)[k] = [cell |-> <<r, k - 1>>, byte |-> image]
  BY <1>1 DEF Cal!RecordOps
<1>4. Cal!RecordOps(r, image)[BodyLen + 2] = [cell |-> <<r, 0>>, byte |-> Marked]
  BY <1>1 DEF Cal!RecordOps
<1>5. Cal!RecordOps(r, image)[2].byte = image
  <2>1. 2 \in 2 .. BodyLen + 1  BY <1>1
  <2>2. Cal!RecordOps(r, image)[2] = [cell |-> <<r, 2 - 1>>, byte |-> image]
    BY <2>1, <1>3
  <2> QED BY <2>2
<1>6. \A k \in 1 .. BodyLen + 2 : Cal!RecordOps(r, image)[k] \in Cal!Op
  <2>1. Erased \in Cal!Byte /\ Marked \in Cal!Byte /\ image \in Cal!Byte
    BY Bytes, ProfileImages
  <2>2. \A o \in Cal!Offset : <<r, o>> \in Cal!Cell  BY Cells
  <2>3. 0 \in Cal!Offset /\ \A k \in 2 .. BodyLen + 1 : k - 1 \in Cal!Offset
    BY <1>1 DEF Cal!Offset
  <2>4. Cal!RecordOps(r, image)[1] \in Cal!Op  BY <1>2, <2>1, <2>2, <2>3 DEF Cal!Op
  <2>5. Cal!RecordOps(r, image)[BodyLen + 2] \in Cal!Op
    BY <1>4, <2>1, <2>2, <2>3 DEF Cal!Op
  <2>6. \A k \in 2 .. BodyLen + 1 : Cal!RecordOps(r, image)[k] \in Cal!Op
    <3> TAKE k \in 2 .. BodyLen + 1
    <3>1. <<r, k - 1>> \in Cal!Cell  BY <2>2, <2>3
    <3>2. Cal!RecordOps(r, image)[k] = [cell |-> <<r, k - 1>>, byte |-> image]  BY <1>3
    <3> QED BY <2>1, <3>1, <3>2 DEF Cal!Op
  <2>7. \A k \in 1 .. BodyLen + 2 : k = 1 \/ k = BodyLen + 2 \/ k \in 2 .. BodyLen + 1
    BY <1>1
  <2> QED BY <2>4, <2>5, <2>6, <2>7
<1>7. Cal!RecordOps(r, image) = [k \in 1 .. BodyLen + 2 |-> Cal!RecordOps(r, image)[k]]
  BY DEF Cal!RecordOps
<1>8. Cal!RecordOps(r, image) \in [1 .. BodyLen + 2 -> Cal!Op]  BY <1>6, <1>7
<1>9. /\ Cal!RecordOps(r, image) \in Seq(Cal!Op)
      /\ Len(Cal!RecordOps(r, image)) = BodyLen + 2
  BY <1>1, <1>8
<1> QED BY <1>2, <1>3, <1>4, <1>5, <1>9

(* The queue of the journal's erase: both markers. *)
LEMMA JournalEraseOps ==
  /\ Cal!EraseOps(<<0, 1>>) \in Seq(Cal!Op) /\ Len(Cal!EraseOps(<<0, 1>>)) = 2
  /\ Cal!EraseOps(<<0, 1>>)[1] = [cell |-> <<0, 0>>, byte |-> Erased]
  /\ Cal!EraseOps(<<0, 1>>)[2] = [cell |-> <<1, 0>>, byte |-> Erased]
<1>1. Cal!EraseOps(<<0, 1>>) =
        [k \in 1 .. 2 |-> [cell |-> <<<<0, 1>>[k], 0>>, byte |-> Erased]]
  BY DEF Cal!EraseOps
<1>2. Cal!EraseOps(<<0, 1>>)[1] = [cell |-> <<0, 0>>, byte |-> Erased]  BY <1>1
<1>3. Cal!EraseOps(<<0, 1>>)[2] = [cell |-> <<1, 0>>, byte |-> Erased]  BY <1>1
<1>4. <<0, 0>> \in Cal!Cell /\ <<1, 0>> \in Cal!Cell  BY Cells DEF JournalRecord
<1>5. \A k \in 1 .. 2 : Cal!EraseOps(<<0, 1>>)[k] \in Cal!Op
  <2>1. Cal!EraseOps(<<0, 1>>)[1] \in Cal!Op  BY <1>2, <1>4, Bytes DEF Cal!Op
  <2>2. Cal!EraseOps(<<0, 1>>)[2] \in Cal!Op  BY <1>3, <1>4, Bytes DEF Cal!Op
  <2>3. \A k \in 1 .. 2 : k = 1 \/ k = 2  OBVIOUS
  <2> QED BY <2>1, <2>2, <2>3
<1>6. Cal!EraseOps(<<0, 1>>) = [k \in 1 .. 2 |-> Cal!EraseOps(<<0, 1>>)[k]]  BY <1>1
<1>7. Cal!EraseOps(<<0, 1>>) \in [1 .. 2 -> Cal!Op]  BY <1>5, <1>6
<1>8. Cal!EraseOps(<<0, 1>>) \in Seq(Cal!Op) /\ Len(Cal!EraseOps(<<0, 1>>)) = 2
  <2>1. PICK n \in Nat : n = 2  OBVIOUS
  <2>2. PICK ops : ops = Cal!EraseOps(<<0, 1>>)  OBVIOUS
  <2>3. ops \in [1 .. n -> Cal!Op]  BY <1>7, <2>1, <2>2
  <2>4. ops \in Seq(Cal!Op) /\ Len(ops) = n  BY <2>3
  <2> QED BY <2>1, <2>2, <2>4
<1> QED BY <1>2, <1>3, <1>8

(* The certificate's queues. *)
LEMMA CertifyOps ==
  ASSUME NEW g \in Generation, NEW r \in Residual
  PROVE  /\ CertificateOps(g, r) \in Seq(Cal!Op) /\ Len(CertificateOps(g, r)) = 3
         /\ CertificateOps(g, r)[1] = [cell |-> <<Certificate, 0>>, byte |-> Erased]
         /\ CertificateOps(g, r)[2] =
              [cell |-> <<Certificate, 1>>, byte |-> [seq |-> 0, content |-> r]]
         /\ CertificateOps(g, r)[3] = [cell |-> <<Certificate, 0>>, byte |-> MarkerFor(g)]
<1>1. <<Certificate, 0>> \in Cal!Cell /\ <<Certificate, 1>> \in Cal!Cell  BY Cells
<1>2. /\ Erased \in Cal!Byte /\ MarkerFor(g) \in Cal!Byte
      /\ [seq |-> 0, content |-> r] \in Cal!Byte
  BY Bytes, ProfileImages
<1>3. [cell |-> <<Certificate, 0>>, byte |-> Erased] \in Cal!Op
  BY <1>1, <1>2 DEF Cal!Op
<1>4. [cell |-> <<Certificate, 1>>, byte |-> [seq |-> 0, content |-> r]] \in Cal!Op
  BY <1>1, <1>2 DEF Cal!Op
<1>5. [cell |-> <<Certificate, 0>>, byte |-> MarkerFor(g)] \in Cal!Op
  BY <1>1, <1>2 DEF Cal!Op
<1> QED BY <1>3, <1>4, <1>5 DEF CertificateOps

LEMMA ClearOpsType ==
  /\ ClearOps \in Seq(Cal!Op) /\ Len(ClearOps) = 2
  /\ ClearOps[1] = [cell |-> <<Certificate, 0>>, byte |-> Erased]
  /\ ClearOps[2] = [cell |-> <<Certificate, 1>>, byte |-> Erased]
<1>1. <<Certificate, 0>> \in Cal!Cell /\ <<Certificate, 1>> \in Cal!Cell  BY Cells
<1>2. [cell |-> <<Certificate, 0>>, byte |-> Erased] \in Cal!Op
  BY <1>1, Bytes DEF Cal!Op
<1>3. [cell |-> <<Certificate, 1>>, byte |-> Erased] \in Cal!Op
  BY <1>1, Bytes DEF Cal!Op
<1> QED BY <1>2, <1>3 DEF ClearOps

LEMMA OpsDiffer ==
  /\ \A g \in Generation, r \in Residual : CertificateOps(g, r) # ClearOps
  /\ \A g, h \in Generation, r, s \in Residual :
       CertificateOps(g, r) = CertificateOps(h, s) => g = h
<1>1. ASSUME NEW g \in Generation, NEW r \in Residual PROVE CertificateOps(g, r) # ClearOps
  <2>1. Len(CertificateOps(g, r)) = 3  BY CertifyOps
  <2>2. Len(ClearOps) = 2  BY ClearOpsType
  <2> QED BY <2>1, <2>2
<1>2. ASSUME NEW g \in Generation, NEW h \in Generation, NEW r \in Residual,
             NEW s \in Residual, CertificateOps(g, r) = CertificateOps(h, s)
      PROVE  g = h
  <2>1. CertificateOps(g, r)[3] = [cell |-> <<Certificate, 0>>, byte |-> MarkerFor(g)]
    BY CertifyOps
  <2>2. CertificateOps(h, s)[3] = [cell |-> <<Certificate, 0>>, byte |-> MarkerFor(h)]
    BY CertifyOps
  <2>3. CertificateOps(g, r)[3].byte = MarkerFor(g)  BY <2>1
  <2>4. CertificateOps(h, s)[3].byte = MarkerFor(h)  BY <2>2
  <2>5. MarkerFor(g) = MarkerFor(h)  BY <1>2, <2>3, <2>4
  <2>6. MarkerFor(g).seq = g /\ MarkerFor(h).seq = h  BY DEF MarkerFor
  <2> QED BY <2>5, <2>6
<1> QED BY <1>1, <1>2

(* What a save in progress queues. *)
LEMMA SaveQueue ==
  ASSUME JournalTypeOK, SaveJob
  PROVE  /\ Saving \in ProfileImage /\ Saving.seq = pendingGeneration
         /\ calQueue = Cal!RecordOps(pendingIndex, Saving)
         /\ Len(calQueue) = BodyLen + 2
         /\ calQueue[1] = [cell |-> <<pendingIndex, 0>>, byte |-> Erased]
         /\ \A k \in 2 .. BodyLen + 1 :
              calQueue[k] = [cell |-> <<pendingIndex, k - 1>>, byte |-> Saving]
         /\ calQueue[BodyLen + 2] = [cell |-> <<pendingIndex, 0>>, byte |-> Marked]
<1>1. PICK p \in Profile :
        calQueue = Cal!RecordOps(pendingIndex, [seq |-> pendingGeneration, content |-> p])
  BY DEF SaveJob
<1>2. PICK image : image = [seq |-> pendingGeneration, content |-> p]  OBVIOUS
<1>3. image \in ProfileImage /\ image.seq = pendingGeneration
      /\ pendingIndex \in JournalRecord
  BY <1>2 DEF JournalTypeOK, ProfileImage
<1>4. calQueue = Cal!RecordOps(pendingIndex, image)  BY <1>1, <1>2
<1>5. /\ Len(calQueue) = BodyLen + 2
      /\ calQueue[1] = [cell |-> <<pendingIndex, 0>>, byte |-> Erased]
      /\ calQueue[2].byte = image
      /\ \A k \in 2 .. BodyLen + 1 :
           calQueue[k] = [cell |-> <<pendingIndex, k - 1>>, byte |-> image]
      /\ calQueue[BodyLen + 2] = [cell |-> <<pendingIndex, 0>>, byte |-> Marked]
  BY <1>3, <1>4, SaveOps
<1>6. Saving = image  BY <1>5 DEF Saving
<1> QED BY <1>3, <1>4, <1>5, <1>6

-----------------------------------------------------------------------------
(* One byte reaches its cell, as queued or torn *)

CertifiedIn(m) == {g \in Generation : m[<<Certificate, 0>>] = MarkerFor(g)}

CompleteIn(m) ==
  CertifiedIn(m) # {} =>
    \E r \in Residual : m[<<Certificate, 1>>] = [seq |-> 0, content |-> r]

LEMMA CertificateReadings ==
  /\ CertifiedGenerations = CertifiedIn(eeprom)
  /\ CertifiedGenerations' = CertifiedIn(eeprom')
  /\ CertificateComplete <=> CompleteIn(eeprom)
  /\ CertificateComplete' <=> CompleteIn(eeprom')
<1>1. /\ CertifiedGenerations = CertifiedIn(eeprom)
      /\ CertifiedGenerations' = CertifiedIn(eeprom')
  BY DEF CertifiedGenerations, CertifiedIn
<1> QED BY <1>1 DEF CertificateComplete, CompleteIn

LEMMA CertificateUntouched ==
  ASSUME NEW m, NEW m2, NEW r \in JournalRecord, OnlyIn(m, m2, r)
  PROVE  /\ m2[<<Certificate, 0>>] = m[<<Certificate, 0>>]
         /\ m2[<<Certificate, 1>>] = m[<<Certificate, 1>>]
         /\ CertifiedIn(m2) = CertifiedIn(m)
         /\ CompleteIn(m2) <=> CompleteIn(m)
<1>1. Certificate \in AnyRecord \ {r} /\ 0 \in Cal!Offset /\ 1 \in Cal!Offset
  BY Cells
<1>2. /\ m2[<<Certificate, 0>>] = m[<<Certificate, 0>>]
      /\ m2[<<Certificate, 1>>] = m[<<Certificate, 1>>]
  BY <1>1 DEF OnlyIn
<1> QED BY <1>2 DEF CertifiedIn, CompleteIn

(* The memory m is the device's, but for one byte. *)
Put(m, cell, b) == m = [eeprom EXCEPT ![cell] = b]

(* A byte put into a cell of record r. *)
LEMMA ByteInRecord ==
  ASSUME eeprom \in [Cal!Cell -> Cal!Byte],
         NEW r \in AnyRecord, NEW o \in Cal!Offset, NEW b \in Cal!Byte,
         NEW m2, Put(m2, <<r, o>>, b)
  PROVE  /\ m2 \in [Cal!Cell -> Cal!Byte] /\ OnlyIn(eeprom, m2, r)
         /\ m2[<<r, o>>] = b
         /\ \A k \in Cal!Offset \ {o} : m2[<<r, k>>] = eeprom[<<r, k>>]
<1>1. \A q \in AnyRecord, k \in Cal!Offset : <<q, k>> \in Cal!Cell  BY Cells
<1>2. \A q \in AnyRecord, k \in Cal!Offset :
        m2[<<q, k>>] = IF q = r /\ k = o THEN b ELSE eeprom[<<q, k>>]
  BY <1>1 DEF Put
<1>3. m2 \in [Cal!Cell -> Cal!Byte]  BY DEF Put
<1> QED BY <1>2, <1>3 DEF OnlyIn

(* The cells of a job are those of its writer's store. *)
LEMMA CalCells ==
  ASSUME JournalTypeOK, SaveJob \/ EraseJob, NEW k \in 1 .. Len(calQueue)
  PROVE  ~OfCertificate(calQueue[k])
<1>1. CASE SaveJob
  <2>1. /\ Len(calQueue) = BodyLen + 2
        /\ calQueue[1] = [cell |-> <<pendingIndex, 0>>, byte |-> Erased]
        /\ \A j \in 2 .. BodyLen + 1 :
             calQueue[j] = [cell |-> <<pendingIndex, j - 1>>, byte |-> Saving]
        /\ calQueue[BodyLen + 2] = [cell |-> <<pendingIndex, 0>>, byte |-> Marked]
    BY <1>1, SaveQueue
  <2>2. BodyLen \in Nat  BY CellAssumption
  <2>3. k = 1 \/ k \in 2 .. BodyLen + 1 \/ k = BodyLen + 2  BY <2>1, <2>2
  <2>4. calQueue[k].cell[1] = pendingIndex
    <3>1. CASE k = 1  BY <2>1, <3>1
    <3>2. CASE k \in 2 .. BodyLen + 1
      <4>1. calQueue[k] = [cell |-> <<pendingIndex, k - 1>>, byte |-> Saving]
        BY <2>1, <3>2
      <4>2. calQueue[k].cell = <<pendingIndex, k - 1>>  BY <4>1
      <4> QED BY <4>2
    <3>3. CASE k = BodyLen + 2  BY <2>1, <3>3
    <3> QED BY <2>3, <3>1, <3>2, <3>3
  <2>5. pendingIndex # Certificate  BY DEF JournalTypeOK, JournalRecord, Certificate
  <2> QED BY <2>4, <2>5 DEF OfCertificate
<1>2. CASE EraseJob
  <2>1. /\ Len(calQueue) = 2
        /\ calQueue[1] = [cell |-> <<0, 0>>, byte |-> Erased]
        /\ calQueue[2] = [cell |-> <<1, 0>>, byte |-> Erased]
    BY <1>2, JournalEraseOps DEF EraseJob
  <2>2. k = 1 \/ k = 2  BY <2>1
  <2>3. calQueue[k].cell[1] = 0 \/ calQueue[k].cell[1] = 1  BY <2>1, <2>2
  <2> QED BY <2>3 DEF OfCertificate, Certificate
<1> QED BY <1>1, <1>2

LEMMA AuxCells ==
  ASSUME CertifyJob \/ ClearJob, NEW k \in 1 .. Len(auxQueue)
  PROVE  OfCertificate(auxQueue[k])
<1>1. CASE CertifyJob
  <2>1. PICK g \in Generation, r \in Residual : auxQueue = CertificateOps(g, r)
    BY <1>1 DEF CertifyJob
  <2>2. /\ Len(auxQueue) = 3
        /\ auxQueue[1] = [cell |-> <<Certificate, 0>>, byte |-> Erased]
        /\ auxQueue[2] = [cell |-> <<Certificate, 1>>, byte |-> [seq |-> 0, content |-> r]]
        /\ auxQueue[3] = [cell |-> <<Certificate, 0>>, byte |-> MarkerFor(g)]
    BY <2>1, CertifyOps
  <2>3. k = 1 \/ k = 2 \/ k = 3  BY <2>2
  <2>4. auxQueue[k].cell[1] = Certificate  BY <2>2, <2>3
  <2> QED BY <2>4 DEF OfCertificate
<1>2. CASE ClearJob
  <2>1. /\ Len(auxQueue) = 2
        /\ auxQueue[1] = [cell |-> <<Certificate, 0>>, byte |-> Erased]
        /\ auxQueue[2] = [cell |-> <<Certificate, 1>>, byte |-> Erased]
    BY <1>2, ClearOpsType DEF ClearJob
  <2>2. k = 1 \/ k = 2  BY <2>1
  <2>3. auxQueue[k].cell[1] = Certificate  BY <2>1, <2>2
  <2> QED BY <2>3 DEF OfCertificate
<1> QED BY <1>1, <1>2

(* Whose byte is being programmed. *)
LEMMA WritingOwner ==
  ASSUME JournalTypeOK, WritersInv, NEW op \in writing
  PROVE  IF OfCertificate(op)
           THEN /\ auxActive
                /\ op = auxQueue[auxPos] /\ auxPos \in 1 .. Len(auxQueue)
                /\ Len(auxQueue) \in Nat /\ AuxDone = auxPos - 1
           ELSE /\ calActive
                /\ op = calQueue[calPos] /\ calPos \in 1 .. Len(calQueue)
                /\ Len(calQueue) \in Nat /\ CalDone = calPos - 1
<1>1. /\ calQueue \in Seq(Cal!Op) /\ calPos \in 0 .. Len(calQueue)
      /\ auxQueue \in Seq(Cal!Op) /\ auxPos \in 0 .. Len(auxQueue)
  BY DEF JournalTypeOK, Cal!WriterTypeOK, Aux!WriterTypeOK, Aux!Op, Cal!Op,
         Aux!Cell, Cal!Cell, Aux!Byte, Cal!Byte, Aux!Offset, Cal!Offset,
         Aux!Image, Cal!Image
<1>2. Len(calQueue) \in Nat /\ Len(auxQueue) \in Nat  BY <1>1
<1>3. CASE ~OfCertificate(op)
  <2>1. calActive /\ op = calQueue[calPos] /\ calPos >= 1  BY <1>3 DEF WritersInv
  <2>2. CalDone = calPos - 1  BY <1>3 DEF CalDone, CalWriting
  <2> QED BY <1>1, <1>2, <1>3, <2>1, <2>2
<1>4. CASE OfCertificate(op)
  <2>1. auxActive /\ op = auxQueue[auxPos] /\ auxPos >= 1  BY <1>4 DEF WritersInv
  <2>2. AuxDone = auxPos - 1  BY <1>4 DEF AuxDone, AuxWriting
  <2> QED BY <1>1, <1>2, <1>4, <2>1, <2>2
<1> QED BY <1>3, <1>4

(* A byte of a save: only the final marker makes the new record count. *)
LEMMA SaveByte ==
  ASSUME JournalTypeOK, WritersInv, SaveJob,
         NEW op \in writing, ~OfCertificate(op), NEW b \in {op.byte, Torn},
         NEW m2, Put(m2, op.cell, b)
  PROVE  /\ m2 \in [Cal!Cell -> Cal!Byte]
         /\ OnlyIn(eeprom, m2, pendingIndex)
         /\ IF calPos = BodyLen + 2 /\ b = op.byte
              THEN Cal!Valid(m2, pendingIndex) /\ Cal!BodyOf(m2, pendingIndex) = Saving
              ELSE ~Cal!Valid(m2, pendingIndex)
         /\ b = op.byte =>
              /\ calPos \in 1 .. BodyLen + 1 => m2[<<pendingIndex, 0>>] = Erased
              /\ calPos = BodyLen + 2 => m2[<<pendingIndex, 0>>] = Marked
              /\ \A o \in 1 .. BodyLen : calPos >= o + 1 => m2[<<pendingIndex, o>>] = Saving
<1>1. BodyLen \in Nat \ {0}  BY CellAssumption
<1>2. /\ Saving \in ProfileImage
      /\ Len(calQueue) = BodyLen + 2
      /\ calQueue[1] = [cell |-> <<pendingIndex, 0>>, byte |-> Erased]
      /\ \A k \in 2 .. BodyLen + 1 :
           calQueue[k] = [cell |-> <<pendingIndex, k - 1>>, byte |-> Saving]
      /\ calQueue[BodyLen + 2] = [cell |-> <<pendingIndex, 0>>, byte |-> Marked]
  BY SaveQueue
<1>3. /\ op = calQueue[calPos] /\ CalDone = calPos - 1
      /\ calPos \in Nat /\ calPos >= 1 /\ calPos <= BodyLen + 2
  BY <1>1, <1>2, WritingOwner
<1>4. /\ eeprom \in [Cal!Cell -> Cal!Byte] /\ pendingIndex \in JournalRecord
      /\ pendingIndex \in AnyRecord
  BY Cells DEF JournalTypeOK, Cal!WriterTypeOK
<1>5. /\ Erased \in Cal!Byte /\ Marked \in Cal!Byte /\ Torn \in Cal!Byte
      /\ Saving \in Cal!Byte
  BY <1>2, Bytes, ProfileImages
<1>6. 0 \in Cal!Offset /\ 1 .. BodyLen \subseteq Cal!Offset  BY Cells
<1>7. /\ CalDone \in 1 .. BodyLen + 1 => eeprom[<<pendingIndex, 0>>] = Erased
      /\ \A o \in 1 .. BodyLen : CalDone >= o + 1 => eeprom[<<pendingIndex, o>>] = Saving
  BY DEF SaveJob
<1>8. CASE calPos = 1
  <2>1. op.cell = <<pendingIndex, 0>> /\ op.byte = Erased  BY <1>2, <1>3, <1>8
  <2>2. b \in Cal!Byte /\ b # Marked  BY <2>1, <1>5, CellAssumption
  <2>3. Put(m2, <<pendingIndex, 0>>, b)  BY <2>1
  <2>4. /\ m2 \in [Cal!Cell -> Cal!Byte] /\ OnlyIn(eeprom, m2, pendingIndex)
        /\ m2[<<pendingIndex, 0>>] = b
    BY <1>4, <1>6, <2>2, <2>3, ByteInRecord
  <2>5. calPos # BodyLen + 2  BY <1>1, <1>8
  <2>6. ~Cal!Valid(m2, pendingIndex)  BY <2>2, <2>4 DEF Cal!Valid
  <2>7. \A o \in 1 .. BodyLen : ~(calPos >= o + 1)  BY <1>1, <1>8
  <2>8. b = op.byte => m2[<<pendingIndex, 0>>] = Erased  BY <2>1, <2>4
  <2> QED BY <2>4, <2>5, <2>6, <2>7, <2>8
<1>9. CASE calPos \in 2 .. BodyLen + 1
  <2>1. op = [cell |-> <<pendingIndex, calPos - 1>>, byte |-> Saving]
    BY <1>2, <1>3, <1>9
  <2>2. op.cell = <<pendingIndex, calPos - 1>> /\ b \in Cal!Byte  BY <2>1, <1>5
  <2>3. Put(m2, <<pendingIndex, calPos - 1>>, b)  BY <2>2
  <2>4. calPos - 1 \in Cal!Offset /\ calPos - 1 # 0  BY <1>1, <1>6, <1>9
  <2>5. /\ m2 \in [Cal!Cell -> Cal!Byte] /\ OnlyIn(eeprom, m2, pendingIndex)
        /\ m2[<<pendingIndex, calPos - 1>>] = b
        /\ \A k \in Cal!Offset \ {calPos - 1} :
             m2[<<pendingIndex, k>>] = eeprom[<<pendingIndex, k>>]
    BY <1>4, <2>2, <2>3, <2>4, ByteInRecord
  <2>6. m2[<<pendingIndex, 0>>] = eeprom[<<pendingIndex, 0>>]  BY <1>6, <2>4, <2>5
  <2>7. CalDone \in 1 .. BodyLen + 1  BY <1>1, <1>3, <1>9
  <2>8. m2[<<pendingIndex, 0>>] = Erased  BY <1>7, <2>6, <2>7
  <2>9. calPos # BodyLen + 2  BY <1>1, <1>9
  <2>10. ~Cal!Valid(m2, pendingIndex)  BY <2>8, CellAssumption DEF Cal!Valid
  <2>11. ASSUME b = op.byte, NEW o \in 1 .. BodyLen, calPos >= o + 1
         PROVE  m2[<<pendingIndex, o>>] = Saving
    <3>1. CASE o = calPos - 1  BY <2>1, <2>5, <2>11, <3>1
    <3>2. CASE o # calPos - 1
      <4>1. CalDone >= o + 1  BY <1>1, <1>3, <2>11, <3>2
      <4>2. o \in Cal!Offset \ {calPos - 1}  BY <1>6, <3>2
      <4> QED BY <1>7, <2>5, <4>1, <4>2
    <3> QED BY <3>1, <3>2
  <2> QED BY <2>5, <2>8, <2>9, <2>10, <2>11
<1>10. CASE calPos = BodyLen + 2
  <2>1. op.cell = <<pendingIndex, 0>> /\ op.byte = Marked  BY <1>2, <1>3, <1>10
  <2>2. b \in Cal!Byte /\ Put(m2, <<pendingIndex, 0>>, b)
    BY <2>1, <1>5
  <2>3. /\ m2 \in [Cal!Cell -> Cal!Byte] /\ OnlyIn(eeprom, m2, pendingIndex)
        /\ m2[<<pendingIndex, 0>>] = b
        /\ \A k \in Cal!Offset \ {0} : m2[<<pendingIndex, k>>] = eeprom[<<pendingIndex, k>>]
    BY <1>4, <1>6, <2>2, ByteInRecord
  <2>4. \A o \in 1 .. BodyLen : m2[<<pendingIndex, o>>] = Saving
    <3>1. CalDone = BodyLen + 1  BY <1>1, <1>3, <1>10
    <3>2. \A o \in 1 .. BodyLen : eeprom[<<pendingIndex, o>>] = Saving
      BY <1>1, <1>7, <3>1
    <3>3. \A o \in 1 .. BodyLen : o \in Cal!Offset \ {0}  BY <1>1, <1>6
    <3> QED BY <2>3, <3>2, <3>3
  <2>5. m2[<<pendingIndex, 1>>] = Saving  BY <1>1, <2>4
  <2>6. Saving \in Cal!Image  BY <1>2, ProfileImages
  <2>7. b = op.byte =>
          Cal!Valid(m2, pendingIndex) /\ Cal!BodyOf(m2, pendingIndex) = Saving
    BY <2>1, <2>3, <2>4, <2>5, <2>6 DEF Cal!Valid, Cal!Complete, Cal!BodyOf
  <2>8. b # op.byte => ~Cal!Valid(m2, pendingIndex)
    BY <2>1, <2>3 DEF Cal!Valid
  <2>9. calPos \notin 1 .. BodyLen + 1  BY <1>1, <1>10
  <2>10. b = op.byte => m2[<<pendingIndex, 0>>] = Marked  BY <2>1, <2>3
  <2> QED BY <1>10, <2>3, <2>4, <2>7, <2>8, <2>9, <2>10
<1>11. calPos = 1 \/ calPos \in 2 .. BodyLen + 1 \/ calPos = BodyLen + 2
  BY <1>1, <1>3
<1> QED BY <1>8, <1>9, <1>10, <1>11

(* A byte of the journal's erase takes a record away. *)
LEMMA EraseByte ==
  ASSUME JournalTypeOK, WritersInv, EraseJob,
         NEW op \in writing, ~OfCertificate(op), NEW b \in {op.byte, Torn},
         NEW m2, Put(m2, op.cell, b)
  PROVE  /\ m2 \in [Cal!Cell -> Cal!Byte]
         /\ calPos \in {1, 2} /\ op.byte = Erased
         /\ OnlyIn(eeprom, m2, calPos - 1)
         /\ m2[<<calPos - 1, 0>>] = b
         /\ ~Cal!Valid(m2, calPos - 1)
<1>1. op = calQueue[calPos] /\ calPos \in 1 .. Len(calQueue)  BY WritingOwner
<1>2. /\ Len(calQueue) = 2
      /\ calQueue[1] = [cell |-> <<0, 0>>, byte |-> Erased]
      /\ calQueue[2] = [cell |-> <<1, 0>>, byte |-> Erased]
  BY JournalEraseOps DEF EraseJob
<1>3. calPos \in {1, 2}  BY <1>1, <1>2
<1>4. op = [cell |-> <<calPos - 1, 0>>, byte |-> Erased]  BY <1>1, <1>2, <1>3
<1>5. op.byte = Erased /\ op.cell = <<calPos - 1, 0>>  BY <1>4
<1>6. b \in Cal!Byte /\ b # Marked  BY <1>5, Bytes, CellAssumption
<1>7. eeprom \in [Cal!Cell -> Cal!Byte]  BY DEF JournalTypeOK, Cal!WriterTypeOK
<1>8. calPos - 1 \in AnyRecord  BY <1>3 DEF AnyRecord, JournalRecord
<1>9. Put(m2, <<calPos - 1, 0>>, b)  BY <1>5
<1>10. /\ m2 \in [Cal!Cell -> Cal!Byte] /\ OnlyIn(eeprom, m2, calPos - 1)
       /\ m2[<<calPos - 1, 0>>] = b
  BY <1>6, <1>7, <1>8, <1>9, Cells, ByteInRecord
<1> QED BY <1>3, <1>5, <1>6, <1>10 DEF Cal!Valid

(* A byte of the certificate: only the final marker certifies, and then the
   residuals are complete. *)
LEMMA CertifyByte ==
  ASSUME JournalTypeOK, WritersInv, CertifyJob,
         NEW op \in writing, OfCertificate(op), NEW b \in {op.byte, Torn},
         NEW m2, Put(m2, op.cell, b)
  PROVE  /\ m2 \in [Cal!Cell -> Cal!Byte]
         /\ OnlyIn(eeprom, m2, Certificate)
         /\ CompleteIn(m2)
         /\ b = op.byte =>
              \E g \in Generation, r \in Residual :
                /\ auxQueue = CertificateOps(g, r)
                /\ auxPos >= 2 => m2[<<Certificate, 1>>] = [seq |-> 0, content |-> r]
                /\ auxPos = 3 => m2[<<Certificate, 0>>] = MarkerFor(g)
                /\ auxPos \in {1, 2} => m2[<<Certificate, 0>>] = Erased
<1>1. /\ op = auxQueue[auxPos] /\ auxPos \in 1 .. Len(auxQueue) /\ AuxDone = auxPos - 1
  BY WritingOwner
<1>2. PICK g \in Generation, r \in Residual :
        /\ auxQueue = CertificateOps(g, r)
        /\ AuxDone >= 2 => CertificateBody = [seq |-> 0, content |-> r]
  BY DEF CertifyJob
<1>3. /\ Len(auxQueue) = 3
      /\ auxQueue[1] = [cell |-> <<Certificate, 0>>, byte |-> Erased]
      /\ auxQueue[2] = [cell |-> <<Certificate, 1>>, byte |-> [seq |-> 0, content |-> r]]
      /\ auxQueue[3] = [cell |-> <<Certificate, 0>>, byte |-> MarkerFor(g)]
  BY <1>2, CertifyOps
<1>4. auxPos \in {1, 2, 3}  BY <1>1, <1>3
<1>5. /\ eeprom \in [Cal!Cell -> Cal!Byte] /\ Certificate \in AnyRecord
      /\ 0 \in Cal!Offset /\ 1 \in Cal!Offset
  BY Cells DEF JournalTypeOK, Cal!WriterTypeOK
<1>6. /\ Erased \in Cal!Byte /\ Torn \in Cal!Byte /\ MarkerFor(g) \in Cal!Byte
      /\ [seq |-> 0, content |-> r] \in Cal!Byte
  BY Bytes, ProfileImages
<1> DEFINE Written == /\ auxPos >= 2 => m2[<<Certificate, 1>>] = [seq |-> 0, content |-> r]
                      /\ auxPos = 3 => m2[<<Certificate, 0>>] = MarkerFor(g)
                      /\ auxPos \in {1, 2} => m2[<<Certificate, 0>>] = Erased
<1>0. SUFFICES /\ m2 \in [Cal!Cell -> Cal!Byte]
               /\ OnlyIn(eeprom, m2, Certificate)
               /\ CompleteIn(m2)
               /\ b = op.byte => Written
  BY <1>2
<1>7. CASE auxPos = 1
  <2>1. op.cell = <<Certificate, 0>> /\ op.byte = Erased  BY <1>1, <1>3, <1>7
  <2>2. b \in Cal!Byte /\ b \in {Erased, Torn}  BY <1>6, <2>1
  <2>3. Put(m2, <<Certificate, 0>>, b)  BY <2>1
  <2>4. /\ m2 \in [Cal!Cell -> Cal!Byte] /\ OnlyIn(eeprom, m2, Certificate)
        /\ m2[<<Certificate, 0>>] = b
    BY <1>5, <2>2, <2>3, ByteInRecord
  <2>5. CertifiedIn(m2) = {}  BY <2>2, <2>4, Bytes DEF CertifiedIn
  <2>6. CompleteIn(m2)  BY <2>5 DEF CompleteIn
  <2>7. b = op.byte => Written  BY <1>7, <2>1, <2>4
  <2> QED BY <2>4, <2>6, <2>7
<1>8. CASE auxPos = 2
  <2>1. op.cell = <<Certificate, 1>> /\ b \in Cal!Byte  BY <1>1, <1>3, <1>6, <1>8
  <2>2. Put(m2, <<Certificate, 1>>, b)  BY <2>1
  <2>3. /\ m2 \in [Cal!Cell -> Cal!Byte] /\ OnlyIn(eeprom, m2, Certificate)
        /\ m2[<<Certificate, 0>>] = CertificateMarker /\ m2[<<Certificate, 1>>] = b
    BY <1>5, <2>1, <2>2, ByteInRecord DEF CertificateMarker
  <2>4. CertificateMarker = Erased  BY <1>1, <1>8 DEF CertifyJob
  <2>5. CertifiedIn(m2) = {}  BY <2>3, <2>4, Bytes DEF CertifiedIn
  <2>6. CompleteIn(m2)  BY <2>5 DEF CompleteIn
  <2>7. op.byte = [seq |-> 0, content |-> r]  BY <1>1, <1>3, <1>8
  <2>8. b = op.byte => Written  BY <1>8, <2>3, <2>4, <2>7
  <2> QED BY <2>3, <2>6, <2>8
<1>9. CASE auxPos = 3
  <2>1. op.cell = <<Certificate, 0>> /\ b \in Cal!Byte  BY <1>1, <1>3, <1>6, <1>9
  <2>2. Put(m2, <<Certificate, 0>>, b)  BY <2>1
  <2>3. /\ m2 \in [Cal!Cell -> Cal!Byte] /\ OnlyIn(eeprom, m2, Certificate)
        /\ m2[<<Certificate, 1>>] = CertificateBody /\ m2[<<Certificate, 0>>] = b
    BY <1>5, <2>1, <2>2, ByteInRecord DEF CertificateBody
  <2>4. CertificateBody = [seq |-> 0, content |-> r]  BY <1>1, <1>2, <1>9
  <2>5. CompleteIn(m2)  BY <2>3, <2>4 DEF CompleteIn
  <2>6. op.byte = MarkerFor(g)  BY <1>1, <1>3, <1>9
  <2>7. b = op.byte => Written  BY <1>9, <2>3, <2>4, <2>6
  <2> QED BY <2>3, <2>5, <2>7
<1> QED BY <1>4, <1>7, <1>8, <1>9

(* A byte of the certificate's erase leaves nothing certified. *)
LEMMA ClearByte ==
  ASSUME JournalTypeOK, WritersInv, ClearJob,
         NEW op \in writing, OfCertificate(op), NEW b \in {op.byte, Torn},
         NEW m2, Put(m2, op.cell, b)
  PROVE  /\ m2 \in [Cal!Cell -> Cal!Byte]
         /\ OnlyIn(eeprom, m2, Certificate)
         /\ CertifiedIn(m2) = {}
         /\ b = op.byte => m2[<<Certificate, 0>>] = Erased
<1>1. /\ op = auxQueue[auxPos] /\ auxPos \in 1 .. Len(auxQueue) /\ AuxDone = auxPos - 1
  BY WritingOwner
<1>2. /\ Len(auxQueue) = 2
      /\ auxQueue[1] = [cell |-> <<Certificate, 0>>, byte |-> Erased]
      /\ auxQueue[2] = [cell |-> <<Certificate, 1>>, byte |-> Erased]
  BY ClearOpsType DEF ClearJob
<1>3. auxPos \in {1, 2}  BY <1>1, <1>2
<1>4. /\ eeprom \in [Cal!Cell -> Cal!Byte] /\ Certificate \in AnyRecord
      /\ 0 \in Cal!Offset /\ 1 \in Cal!Offset
  BY Cells DEF JournalTypeOK, Cal!WriterTypeOK
<1>5. op.byte = Erased  BY <1>1, <1>2, <1>3
<1>6. b \in Cal!Byte /\ b \in {Erased, Torn}  BY <1>5, Bytes
<1>7. CASE auxPos = 1
  <2>1. op.cell = <<Certificate, 0>>  BY <1>1, <1>2, <1>7
  <2>2. Put(m2, <<Certificate, 0>>, b)  BY <2>1
  <2>3. /\ m2 \in [Cal!Cell -> Cal!Byte] /\ OnlyIn(eeprom, m2, Certificate)
        /\ m2[<<Certificate, 0>>] = b
    BY <1>4, <1>6, <2>2, ByteInRecord
  <2> QED BY <1>5, <1>6, <2>3, Bytes DEF CertifiedIn
<1>8. CASE auxPos = 2
  <2>1. op.cell = <<Certificate, 1>>  BY <1>1, <1>2, <1>8
  <2>2. Put(m2, <<Certificate, 1>>, b)  BY <2>1
  <2>3. /\ m2 \in [Cal!Cell -> Cal!Byte] /\ OnlyIn(eeprom, m2, Certificate)
        /\ m2[<<Certificate, 0>>] = CertificateMarker
    BY <1>4, <1>6, <2>2, ByteInRecord DEF CertificateMarker
  <2>4. CertificateMarker = Erased  BY <1>1, <1>8 DEF ClearJob
  <2> QED BY <2>3, <2>4, Bytes DEF CertifiedIn
<1> QED BY <1>3, <1>7, <1>8

(* What one byte does, as queued or torn: a record that is being saved counts
   from its final marker on, an erase takes records away, and the bytes of the
   certificate leave the journal alone, as the journal's leave the certificate. *)
LEMMA ByteEffect ==
  ASSUME JournalInv, power = "panel",
         NEW op \in writing, NEW b \in {op.byte, Torn},
         NEW m2, Put(m2, op.cell, b)
  PROVE  /\ m2 \in [Cal!Cell -> Cal!Byte]
         /\ TypedIn(m2) /\ PairedIn(m2) /\ CompleteIn(m2)
         /\ ~OfCertificate(op) => CertifiedIn(m2) = CertifiedIn(eeprom)
         /\ ~OfCertificate(op) => /\ m2[<<Certificate, 0>>] = CertificateMarker
                                  /\ m2[<<Certificate, 1>>] = CertificateBody
         /\ ~OfCertificate(op) /\ pendingCommit =>
              IF calPos = BodyLen + 2 /\ b = op.byte
                THEN /\ Valids(m2) # {} /\ LatestIn(m2) = pendingIndex
                     /\ Gen(m2, pendingIndex) = pendingGeneration
                     /\ StoredIn(m2) = {Saving.content}
                ELSE StoredIn(m2) = Stored /\ HeadIn(m2, activeIndex, generation)
         /\ ~OfCertificate(op) /\ ~pendingCommit =>
              StoredIn(m2) \subseteq {Cal!BodyOf(eeprom, i).content : i \in ValidRecords}
         /\ OfCertificate(op) =>
              /\ OnlyIn(eeprom, m2, Certificate)
              /\ auxQueue = ClearOps => CertifiedIn(m2) = {}
              /\ StoredIn(m2) = Stored /\ Valids(m2) = ValidRecords
              /\ HeadIn(m2, activeIndex, generation) <=> HeadIn(eeprom, activeIndex, generation)
<1>1. /\ JournalTypeOK /\ WritersInv /\ HeadInv
      /\ TypedIn(eeprom) /\ PairedIn(eeprom) /\ CompleteIn(eeprom)
  BY Readings, CertificateReadings DEF JournalInv
<1>2. ValidRecords = Valids(eeprom) /\ Stored = StoredIn(eeprom)  BY Readings
<1>3. CASE ~OfCertificate(op) /\ pendingCommit
  <2>1. SaveJob  BY <1>1, <1>3, WritingOwner DEF WritersInv
  <2>2. /\ m2 \in [Cal!Cell -> Cal!Byte]
        /\ OnlyIn(eeprom, m2, pendingIndex)
        /\ IF calPos = BodyLen + 2 /\ b = op.byte
             THEN Cal!Valid(m2, pendingIndex) /\ Cal!BodyOf(m2, pendingIndex) = Saving
             ELSE ~Cal!Valid(m2, pendingIndex)
    BY <1>1, <1>3, <2>1, SaveByte
  <2>3. pendingIndex \in JournalRecord /\ activeIndex \in JournalRecord
        /\ generation \in Generation
    BY <1>1 DEF JournalTypeOK
  <2>4. activeIndex = 1 - pendingIndex  BY <2>1, <2>3 DEF SaveJob, JournalRecord
  <2>5. /\ calPos \in 1 .. Len(calQueue) /\ CalDone = calPos - 1
        /\ Len(calQueue) = BodyLen + 2 /\ BodyLen \in Nat
    BY <1>1, <1>3, <2>1, WritingOwner, SaveQueue, CellAssumption
  <2>6. CalDone # BodyLen + 2  BY <2>5
  <2>7. HeadIs(activeIndex, generation)  BY <1>1, <1>3, <2>6 DEF HeadInv
  <2>8. HeadIn(eeprom, 1 - pendingIndex, generation)
    BY <2>4, <2>7, Readings DEF HeadIs, HeadIn, GenerationIn, Gen
  <2>9. /\ m2[<<Certificate, 0>>] = CertificateMarker
        /\ m2[<<Certificate, 1>>] = CertificateBody
        /\ CertifiedIn(m2) = CertifiedIn(eeprom) /\ CompleteIn(m2)
    BY <1>1, <2>2, <2>3, CertificateUntouched DEF CertificateMarker, CertificateBody
  <2>10. CASE calPos = BodyLen + 2 /\ b = op.byte
    <3>1. /\ Saving \in [seq : Generation, content : Profile]
          /\ Saving.seq = (generation + 1) % Generations
          /\ Saving.seq = pendingGeneration
      BY <1>1, <2>1, SaveQueue DEF SaveJob, ProfileImage
    <3>2. /\ TypedIn(m2) /\ PairedIn(m2)
          /\ Valids(m2) # {} /\ LatestIn(m2) = pendingIndex
          /\ Gen(m2, pendingIndex) = Saving.seq
          /\ StoredIn(m2) = {Saving.content}
      BY <1>1, <2>2, <2>3, <2>8, <2>10, <3>1, RecordGained
    <3> QED BY <1>3, <2>2, <2>9, <2>10, <3>1, <3>2
  <2>11. CASE ~(calPos = BodyLen + 2 /\ b = op.byte)
    <3>1. /\ TypedIn(m2) /\ PairedIn(m2)
          /\ HeadIn(m2, 1 - pendingIndex, generation) /\ StoredIn(m2) = StoredIn(eeprom)
      BY <1>1, <2>2, <2>3, <2>8, <2>11, RecordLost
    <3> QED BY <1>2, <1>3, <2>2, <2>4, <2>9, <2>11, <3>1
  <2> QED BY <2>10, <2>11
<1>4. CASE ~OfCertificate(op) /\ ~pendingCommit
  <2>1. EraseJob  BY <1>1, <1>4, WritingOwner DEF WritersInv
  <2>2. /\ m2 \in [Cal!Cell -> Cal!Byte]
        /\ OnlyIn(eeprom, m2, calPos - 1) /\ calPos - 1 \in JournalRecord
        /\ ~Cal!Valid(m2, calPos - 1)
    BY <1>1, <1>4, <2>1, EraseByte DEF JournalRecord
  <2>3. /\ m2[<<Certificate, 0>>] = CertificateMarker
        /\ m2[<<Certificate, 1>>] = CertificateBody
        /\ CertifiedIn(m2) = CertifiedIn(eeprom) /\ CompleteIn(m2)
    BY <1>1, <2>2, CertificateUntouched DEF CertificateMarker, CertificateBody
  <2>4. /\ TypedIn(m2) /\ PairedIn(m2)
        /\ StoredIn(m2) \subseteq {Cal!BodyOf(eeprom, i).content : i \in Valids(eeprom)}
    BY <1>1, <2>2, RecordLost
  <2> QED BY <1>2, <1>4, <2>2, <2>3, <2>4
<1>5. CASE OfCertificate(op)
  <2>1. auxActive  BY <1>1, <1>5, WritingOwner
  <2>2. /\ m2 \in [Cal!Cell -> Cal!Byte] /\ OnlyIn(eeprom, m2, Certificate)
        /\ CompleteIn(m2)
        /\ auxQueue = ClearOps => CertifiedIn(m2) = {}
    <3>1. CASE CertifyJob
      <4>1. /\ m2 \in [Cal!Cell -> Cal!Byte] /\ OnlyIn(eeprom, m2, Certificate)
            /\ CompleteIn(m2)
        BY <1>1, <1>5, <3>1, CertifyByte
      <4>2. auxQueue # ClearOps  BY <3>1, OpsDiffer DEF CertifyJob
      <4> QED BY <4>1, <4>2
    <3>2. CASE ClearJob  BY <1>1, <1>5, <3>2, ClearByte DEF CompleteIn
    <3> QED BY <1>1, <2>1, <3>1, <3>2 DEF WritersInv
  <2>3. /\ Valids(m2) = Valids(eeprom) /\ LatestIn(m2) = LatestIn(eeprom)
        /\ StoredIn(m2) = StoredIn(eeprom)
        /\ Gen(m2, activeIndex) = Gen(eeprom, activeIndex)
        /\ TypedIn(m2) /\ PairedIn(m2)
    BY <1>1, <2>2, JournalUntouched DEF JournalTypeOK
  <2> QED BY <1>2, <1>5, <2>2, <2>3 DEF HeadIn
<1> QED BY <1>3, <1>4, <1>5

-----------------------------------------------------------------------------
(* Types and steps of the two writers *)

LEMMA OneDevice ==
  Aux!Cell = Cal!Cell /\ Aux!Byte = Cal!Byte /\ Aux!Op = Cal!Op
BY DEF Aux!Cell, Cal!Cell, Aux!Byte, Cal!Byte, Aux!Op, Cal!Op, Aux!Offset, Cal!Offset,
       Aux!Image, Cal!Image

Typed ==
  /\ eeprom \in [Cal!Cell -> Cal!Byte]
  /\ writing \subseteq Cal!Op
  /\ calQueue \in Seq(Cal!Op) /\ calPos \in 0 .. Len(calQueue) /\ calActive \in BOOLEAN
  /\ auxQueue \in Seq(Cal!Op) /\ auxPos \in 0 .. Len(auxQueue) /\ auxActive \in BOOLEAN
  /\ activeIndex \in JournalRecord /\ pendingIndex \in JournalRecord
  /\ generation \in Generation /\ pendingGeneration \in Generation
  /\ pendingCommit \in BOOLEAN

LEMMA TypedJournal ==
  (JournalTypeOK <=> Typed) /\ (JournalTypeOK' <=> Typed')
<1>1. JournalTypeOK <=> Typed
  BY OneDevice DEF JournalTypeOK, Typed, Cal!WriterTypeOK, Aux!WriterTypeOK
<1>2. JournalTypeOK' <=> Typed'
  BY OneDevice DEF JournalTypeOK, Typed, Cal!WriterTypeOK, Aux!WriterTypeOK
<1> QED BY <1>1, <1>2

(* What a submitted byte finds and leaves. *)
LEMMA CalSubmits ==
  ASSUME JournalTypeOK, SaveJob \/ EraseJob,
         Cal!Submit, ObserveWriter(calActive'), UNCHANGED auxVars
  PROVE  /\ JournalTypeOK' /\ calActive /\ calActive' /\ writing = {}
         /\ calPos' = calPos + 1 /\ calPos \in Nat /\ calPos < Len(calQueue)
         /\ Len(calQueue) \in Nat /\ CalDone = calPos
         /\ writing' \subseteq {calQueue[calPos']}
         /\ CalDone' = IF writing' = {} THEN calPos + 1 ELSE calPos
         /\ ~AuxWriting' /\ AuxDone' = AuxDone
         /\ writing' = {} =>
              eeprom[calQueue[calPos + 1].cell] = calQueue[calPos + 1].byte
         /\ UNCHANGED <<eeprom, calQueue, auxVars, headVars, pendingVars>>
<1>1. Typed  BY TypedJournal
<1>2. /\ calActive /\ calActive' /\ writing = {} /\ calPos < Len(calQueue)
      /\ calPos' = calPos + 1 /\ calQueue' = calQueue /\ eeprom' = eeprom
      /\ writing' = IF eeprom[calQueue[calPos + 1].cell] = calQueue[calPos + 1].byte
                      THEN {} ELSE {calQueue[calPos + 1]}
  BY <1>1 DEF Cal!Submit, Cal!Ready, Cal!WriteByte, Typed
<1>3. UNCHANGED <<auxVars, headVars, pendingVars>>  BY <1>2 DEF ObserveWriter
<1>4. calPos \in Nat /\ Len(calQueue) \in Nat  BY <1>1 DEF Typed
<1>5. calQueue[calPos + 1] \in Cal!Op /\ calPos + 1 \in 0 .. Len(calQueue)
  BY <1>1, <1>2, <1>4 DEF Typed
<1>6. Typed'
  BY <1>1, <1>2, <1>3, <1>5 DEF Typed, auxVars, headVars, pendingVars
<1>7. ~OfCertificate(calQueue[calPos + 1])
  <2>1. calPos + 1 \in 1 .. Len(calQueue)  BY <1>2, <1>4
  <2> QED BY <2>1, CalCells
<1>8. /\ (CalWriting' <=> writing' # {}) /\ ~AuxWriting' /\ ~CalWriting /\ ~AuxWriting
  BY <1>2, <1>7 DEF CalWriting, AuxWriting, OfCertificate
<1>9. CalDone = calPos  BY <1>8 DEF CalDone
<1>10. CalDone' = IF writing' = {} THEN calPos + 1 ELSE calPos
  <2>1. calPos' - 1 = calPos  BY <1>2, <1>4
  <2> QED BY <1>2, <1>8, <2>1 DEF CalDone
<1>11. AuxDone' = AuxDone  BY <1>3, <1>8 DEF AuxDone, auxVars
<1> QED BY <1>2, <1>3, <1>4, <1>6, <1>8, <1>9, <1>10, <1>11, TypedJournal

LEMMA AuxSubmits ==
  ASSUME JournalTypeOK, CertifyJob \/ ClearJob, Aux!Submit,
         UNCHANGED <<calVars, headVars, pendingVars>>
  PROVE  /\ JournalTypeOK' /\ auxActive /\ auxActive' /\ writing = {}
         /\ auxPos' = auxPos + 1 /\ auxPos \in Nat /\ auxPos < Len(auxQueue)
         /\ Len(auxQueue) \in Nat /\ AuxDone = auxPos
         /\ writing' \subseteq {auxQueue[auxPos']}
         /\ AuxDone' = IF writing' = {} THEN auxPos + 1 ELSE auxPos
         /\ ~CalWriting' /\ CalDone' = CalDone
         /\ writing' = {} =>
              eeprom[auxQueue[auxPos + 1].cell] = auxQueue[auxPos + 1].byte
         /\ UNCHANGED <<eeprom, auxQueue, calVars, headVars, pendingVars>>
<1>1. Typed  BY TypedJournal
<1>2. /\ auxActive /\ auxActive' /\ writing = {} /\ auxPos < Len(auxQueue)
      /\ auxPos' = auxPos + 1 /\ auxQueue' = auxQueue /\ eeprom' = eeprom
      /\ writing' = IF eeprom[auxQueue[auxPos + 1].cell] = auxQueue[auxPos + 1].byte
                      THEN {} ELSE {auxQueue[auxPos + 1]}
  BY <1>1 DEF Aux!Submit, Aux!Ready, Aux!WriteByte, Typed
<1>3. auxPos \in Nat /\ Len(auxQueue) \in Nat  BY <1>1 DEF Typed
<1>4. auxQueue[auxPos + 1] \in Cal!Op /\ auxPos + 1 \in 0 .. Len(auxQueue)
  BY <1>1, <1>2, <1>3 DEF Typed
<1>5. Typed'
  BY <1>1, <1>2, <1>4 DEF Typed, calVars, headVars, pendingVars
<1>6. OfCertificate(auxQueue[auxPos + 1])
  <2>1. auxPos + 1 \in 1 .. Len(auxQueue)  BY <1>2, <1>3
  <2> QED BY <2>1, AuxCells
<1>7. /\ (AuxWriting' <=> writing' # {}) /\ ~CalWriting' /\ ~CalWriting /\ ~AuxWriting
  BY <1>2, <1>6 DEF CalWriting, AuxWriting, OfCertificate
<1>8. AuxDone = auxPos  BY <1>7 DEF AuxDone
<1>9. AuxDone' = IF writing' = {} THEN auxPos + 1 ELSE auxPos
  <2>1. auxPos' - 1 = auxPos  BY <1>2, <1>3
  <2> QED BY <1>2, <1>7, <2>1 DEF AuxDone
<1>10. CalDone' = CalDone  BY <1>7 DEF CalDone, calVars
<1> QED BY <1>2, <1>3, <1>5, <1>7, <1>8, <1>9, <1>10, TypedJournal

LEMMA Finishes ==
  ASSUME JournalTypeOK
  PROVE  /\ Cal!Finish => /\ calActive /\ ~calActive' /\ writing = {} /\ writing' = {}
                          /\ calPos = Len(calQueue) /\ CalDone = calPos
                          /\ (UNCHANGED auxVars => AuxDone' = AuxDone)
                          /\ UNCHANGED <<eeprom, calQueue, calPos>>
         /\ Aux!Finish => /\ auxActive /\ ~auxActive' /\ writing = {} /\ writing' = {}
                          /\ auxPos = Len(auxQueue) /\ AuxDone = auxPos
                          /\ (UNCHANGED calVars => CalDone' = CalDone)
                          /\ UNCHANGED <<eeprom, auxQueue, auxPos>>
<1>1. Typed  BY TypedJournal
<1>2. /\ calPos \in Nat /\ Len(calQueue) \in Nat /\ calPos <= Len(calQueue)
      /\ auxPos \in Nat /\ Len(auxQueue) \in Nat /\ auxPos <= Len(auxQueue)
  BY <1>1 DEF Typed
<1>3. Cal!Finish => /\ calActive /\ ~calActive' /\ writing = {} /\ writing' = {}
                    /\ calPos >= Len(calQueue)
                    /\ UNCHANGED <<eeprom, calQueue, calPos>>
  BY DEF Cal!Finish, Cal!Ready
<1>4. Aux!Finish => /\ auxActive /\ ~auxActive' /\ writing = {} /\ writing' = {}
                    /\ auxPos >= Len(auxQueue)
                    /\ UNCHANGED <<eeprom, auxQueue, auxPos>>
  BY DEF Aux!Finish, Aux!Ready
<1>5. /\ writing = {} => CalDone = calPos /\ AuxDone = auxPos
      /\ writing' = {} => CalDone' = calPos' /\ AuxDone' = auxPos'
  BY DEF CalDone, AuxDone, CalWriting, AuxWriting
<1>6. calPos >= Len(calQueue) => calPos = Len(calQueue)  BY <1>2
<1>7. auxPos >= Len(auxQueue) => auxPos = Len(auxQueue)  BY <1>2
<1> QED BY <1>3, <1>4, <1>5, <1>6, <1>7 DEF auxVars, calVars

(* The readings depend on the memory alone. *)
LEMMA SameMemory ==
  ASSUME UNCHANGED eeprom
  PROVE  /\ ValidRecords' = ValidRecords /\ Latest' = Latest /\ Stored' = Stored
         /\ CertifiedGenerations' = CertifiedGenerations
         /\ CertificateMarker' = CertificateMarker /\ CertificateBody' = CertificateBody
         /\ RecordsTyped' <=> RecordsTyped
         /\ Consecutive' <=> Consecutive
         /\ CertificateComplete' <=> CertificateComplete
         /\ \A i : GenerationIn(i)' = GenerationIn(i)
<1>1. /\ ValidRecords' = ValidRecords /\ Latest' = Latest /\ Stored' = Stored
      /\ RecordsTyped' <=> RecordsTyped
      /\ Consecutive' <=> Consecutive
  BY Readings
<1>2. /\ CertifiedGenerations' = CertifiedGenerations
      /\ CertificateComplete' <=> CertificateComplete
  BY CertificateReadings
<1> QED BY <1>1, <1>2 DEF CertificateMarker, CertificateBody, GenerationIn

LEMMA HeadReading ==
  /\ \A i, g : HeadIs(i, g) <=> HeadIn(eeprom, i, g)
  /\ HeadIs(activeIndex, generation) <=> HeadIn(eeprom, activeIndex, generation)
  /\ HeadIs(activeIndex, generation)' <=> HeadIn(eeprom', activeIndex', generation')
<1>1. \A i, g : HeadIs(i, g) <=> HeadIn(eeprom, i, g)
  BY Readings DEF HeadIs, HeadIn, GenerationIn, Gen
<1>2. HeadIs(activeIndex, generation)' <=> HeadIn(eeprom', activeIndex', generation')
  BY Readings DEF HeadIs, HeadIn, GenerationIn, Gen
<1> QED BY <1>1, <1>2

(* A byte that its cell holds already is not written again; the final marker
   of a save never is, because the save has erased the marker before. *)
LEMMA SaveSubmits ==
  ASSUME JournalTypeOK, SaveJob, pendingCommit,
         Cal!Submit, ObserveWriter(calActive'), UNCHANGED auxVars
  PROVE  SaveJob' /\ CalDone' # BodyLen + 2 /\ CalDone # BodyLen + 2
<1>1. /\ writing = {}
      /\ calPos' = calPos + 1 /\ calPos \in Nat /\ calPos < Len(calQueue)
      /\ Len(calQueue) \in Nat /\ CalDone = calPos
      /\ CalDone' = IF writing' = {} THEN calPos + 1 ELSE calPos
      /\ writing' = {} =>
           eeprom[calQueue[calPos + 1].cell] = calQueue[calPos + 1].byte
      /\ UNCHANGED <<eeprom, calQueue, auxVars, headVars, pendingVars>>
  BY CalSubmits
<1>2. /\ Saving \in ProfileImage
      /\ Len(calQueue) = BodyLen + 2
      /\ calQueue[1] = [cell |-> <<pendingIndex, 0>>, byte |-> Erased]
      /\ \A k \in 2 .. BodyLen + 1 :
           calQueue[k] = [cell |-> <<pendingIndex, k - 1>>, byte |-> Saving]
      /\ calQueue[BodyLen + 2] = [cell |-> <<pendingIndex, 0>>, byte |-> Marked]
  BY SaveQueue
<1>3. BodyLen \in Nat \ {0} /\ Marked # Erased  BY CellAssumption
<1>4. /\ CalDone \in 1 .. BodyLen + 1 => eeprom[<<pendingIndex, 0>>] = Erased
      /\ CalDone = BodyLen + 2 => eeprom[<<pendingIndex, 0>>] = Marked
      /\ \A o \in 1 .. BodyLen : CalDone >= o + 1 => eeprom[<<pendingIndex, o>>] = Saving
  BY DEF SaveJob
<1>5. /\ CalDone' \in 1 .. BodyLen + 1 => eeprom[<<pendingIndex, 0>>] = Erased
      /\ CalDone' # BodyLen + 2
      /\ \A o \in 1 .. BodyLen : CalDone' >= o + 1 => eeprom[<<pendingIndex, o>>] = Saving
  <2>1. CASE writing' # {}  BY <1>1, <1>2, <1>3, <1>4, <2>1
  <2>2. CASE writing' = {}
    <3>1. CalDone' = calPos + 1  BY <1>1, <2>2
    <3>2. CASE calPos = 0
      <4>1. calQueue[calPos + 1].cell = <<pendingIndex, 0>> /\ calQueue[calPos + 1].byte = Erased
        BY <1>2, <3>2
      <4>2. eeprom[<<pendingIndex, 0>>] = Erased  BY <1>1, <2>2, <4>1
      <4> QED BY <1>3, <3>1, <3>2, <4>2
    <3>3. CASE calPos \in 1 .. BodyLen
      <4>1. calQueue[calPos + 1] = [cell |-> <<pendingIndex, calPos>>, byte |-> Saving]
        <5>1. calPos + 1 \in 2 .. BodyLen + 1 /\ (calPos + 1) - 1 = calPos  BY <1>3, <3>3
        <5>2. calQueue[calPos + 1] = [cell |-> <<pendingIndex, (calPos + 1) - 1>>, byte |-> Saving]
          BY <1>2, <5>1
        <5> QED BY <5>1, <5>2
      <4>2. eeprom[<<pendingIndex, calPos>>] = Saving  BY <1>1, <2>2, <4>1
      <4>3. calPos \in 1 .. BodyLen + 1  BY <1>3, <3>3
      <4>4. eeprom[<<pendingIndex, 0>>] = Erased  BY <1>1, <1>4, <4>3
      <4>5. ASSUME NEW o \in 1 .. BodyLen, CalDone' >= o + 1
            PROVE  eeprom[<<pendingIndex, o>>] = Saving
        <5>1. o = calPos \/ calPos >= o + 1  BY <1>1, <3>1, <4>5
        <5> QED BY <1>1, <1>4, <4>2, <5>1
      <4>6. CalDone' # BodyLen + 2  BY <1>3, <3>1, <3>3
      <4> QED BY <4>4, <4>5, <4>6
    <3>4. CASE calPos = BodyLen + 1
      <4>1. eeprom[<<pendingIndex, 0>>] = Erased  BY <1>1, <1>3, <1>4, <3>4
      <4>2. calQueue[calPos + 1] = [cell |-> <<pendingIndex, 0>>, byte |-> Marked]
        <5>1. calPos + 1 = BodyLen + 2  BY <1>3, <3>4
        <5>2. calQueue[BodyLen + 2] = [cell |-> <<pendingIndex, 0>>, byte |-> Marked]
          BY <1>2
        <5> QED BY <5>1, <5>2
      <4>3. eeprom[<<pendingIndex, 0>>] = Marked  BY <1>1, <2>2, <4>2
      <4> QED BY <1>3, <4>1, <4>3
    <3>5. calPos = 0 \/ calPos \in 1 .. BodyLen \/ calPos = BodyLen + 1
      BY <1>1, <1>2, <1>3
    <3> QED BY <3>2, <3>3, <3>4, <3>5
  <2> QED BY <2>1, <2>2
<1>6. Saving' = Saving  BY <1>1 DEF Saving
<1>7. CalDone # BodyLen + 2  BY <1>1, <1>2
<1>8. UNCHANGED <<eeprom, calQueue, pendingIndex, pendingGeneration, activeIndex, generation>>
  BY <1>1 DEF headVars, pendingVars
<1>9. SaveJob'
  <2>1. /\ \E p \in Profile :
             calQueue' = Cal!RecordOps(pendingIndex', [seq |-> pendingGeneration', content |-> p])
        /\ pendingIndex' = 1 - activeIndex'
        /\ pendingGeneration' = (generation' + 1) % Generations
    BY <1>8 DEF SaveJob
  <2>2. /\ CalDone' \in 1 .. BodyLen + 1 => eeprom'[<<pendingIndex', 0>>] = Erased
        /\ CalDone' = BodyLen + 2 => eeprom'[<<pendingIndex', 0>>] = Marked
        /\ \A o \in 1 .. BodyLen :
             CalDone' >= o + 1 => eeprom'[<<pendingIndex', o>>] = Saving'
    BY <1>5, <1>6, <1>8
  <2> QED BY <2>1, <2>2 DEF SaveJob
<1> QED BY <1>5, <1>7, <1>9

LEMMA EraseSubmits ==
  ASSUME JournalTypeOK, EraseJob,
         Cal!Submit, ObserveWriter(calActive'), UNCHANGED auxVars
  PROVE  EraseJob'
<1>1. /\ writing = {}
      /\ calPos' = calPos + 1 /\ calPos \in Nat /\ calPos < Len(calQueue)
      /\ CalDone = calPos
      /\ CalDone' = IF writing' = {} THEN calPos + 1 ELSE calPos
      /\ writing' = {} =>
           eeprom[calQueue[calPos + 1].cell] = calQueue[calPos + 1].byte
      /\ UNCHANGED <<eeprom, calQueue, auxVars>>
  BY CalSubmits
<1>2. /\ calQueue = Cal!EraseOps(<<0, 1>>) /\ Len(calQueue) = 2
      /\ calQueue[1] = [cell |-> <<0, 0>>, byte |-> Erased]
      /\ calQueue[2] = [cell |-> <<1, 0>>, byte |-> Erased]
      /\ CalDone >= 1 => eeprom[<<0, 0>>] = Erased
      /\ CalDone = 2 => eeprom[<<1, 0>>] = Erased
  BY JournalEraseOps DEF EraseJob
<1>3. calPos = 0 \/ calPos = 1
  <2>1. Len(calQueue) = 2 /\ calPos \in Nat /\ calPos < Len(calQueue)  BY <1>1, <1>2
  <2> QED BY <2>1
<1>4. /\ CalDone' >= 1 => eeprom[<<0, 0>>] = Erased
      /\ CalDone' = 2 => eeprom[<<1, 0>>] = Erased
  <2>1. CASE writing' # {}
    <3>1. CalDone' = CalDone  BY <1>1, <2>1
    <3> QED BY <1>2, <3>1
  <2>2. CASE writing' = {} /\ calPos = 0
    <3>1. CalDone' = 1 /\ calPos + 1 = 1  BY <1>1, <2>2
    <3>2. eeprom[calQueue[1].cell] = calQueue[1].byte  BY <1>1, <2>2, <3>1
    <3>3. calQueue[1].cell = <<0, 0>> /\ calQueue[1].byte = Erased  BY <1>2
    <3> QED BY <3>1, <3>2, <3>3
  <2>3. CASE writing' = {} /\ calPos = 1
    <3>1. CalDone = 1 /\ calPos + 1 = 2  BY <1>1, <2>3
    <3>2. eeprom[calQueue[2].cell] = calQueue[2].byte  BY <1>1, <2>3, <3>1
    <3>3. calQueue[2].cell = <<1, 0>> /\ calQueue[2].byte = Erased  BY <1>2
    <3>4. eeprom[<<0, 0>>] = Erased  BY <1>2, <3>1
    <3> QED BY <3>2, <3>3, <3>4
  <2> QED BY <1>3, <2>1, <2>2, <2>3
<1>5. CertifiedGenerations' = CertifiedGenerations  BY <1>1, SameMemory
<1> QED BY <1>1, <1>2, <1>4, <1>5 DEF EraseJob, auxVars

LEMMA CalSubmitKeepsJournal ==
  ASSUME JournalInv, power = "panel", power' = power,
         Cal!Submit, ObserveWriter(calActive'), UNCHANGED auxVars
  PROVE  /\ JournalInv' /\ calActive /\ calActive'
         /\ UNCHANGED <<eeprom, calQueue, auxVars, headVars, pendingVars>>
<1>1. JournalTypeOK /\ WritersInv /\ HeadInv /\ pendingCommit \in BOOLEAN
  BY TypedJournal DEF JournalInv, Typed
<1>2. /\ JournalTypeOK' /\ calActive /\ calActive' /\ calPos' = calPos + 1 /\ calPos \in Nat
      /\ writing' \subseteq {calQueue[calPos']} /\ ~AuxWriting' /\ AuxDone' = AuxDone
      /\ UNCHANGED <<eeprom, calQueue, auxVars, headVars, pendingVars>>
  <2>1. calActive  BY DEF Cal!Submit
  <2>2. SaveJob \/ EraseJob  BY <1>1, <2>1 DEF WritersInv
  <2> QED BY <1>1, <2>2, CalSubmits
<1>3. RecordsTyped' /\ Consecutive' /\ CertificateComplete'
  BY <1>2, SameMemory DEF JournalInv
<1>4. UNCHANGED <<calActive, auxQueue, auxPos, auxActive, pendingCommit,
                  activeIndex, generation>>
  <2>1. Typed /\ Typed'  BY <1>1, <1>2, TypedJournal
  <2> QED BY <1>2, <2>1 DEF auxVars, headVars, pendingVars, Typed
<1>5. IF pendingCommit THEN SaveJob' /\ CalDone' # BodyLen + 2 /\ CalDone # BodyLen + 2
                       ELSE EraseJob'
  BY <1>1, <1>2, SaveSubmits, EraseSubmits DEF WritersInv
<1>6. WritersInv'
  <2>1. (auxActive => CertifyJob \/ ClearJob)'
    <3>1. auxActive => ClearJob  BY <1>1, <1>2 DEF WritersInv, CertifyJob
    <3>2. CertificateMarker' = CertificateMarker  BY <1>2, SameMemory
    <3>3. auxActive => ClearJob'  BY <1>2, <1>4, <3>1, <3>2 DEF ClearJob
    <3> QED BY <1>4, <3>3
  <2>2. (calActive => IF pendingCommit THEN SaveJob ELSE EraseJob)'  BY <1>4, <1>5
  <2>3. (pendingCommit => calActive)'  BY <1>2
  <2>4. calPos' >= 1  BY <1>2
  <2>5. \A op \in writing' :
          ~OfCertificate(op) /\ calActive' /\ calPos' >= 1 /\ op = calQueue'[calPos']
    BY <1>2, <2>4 DEF AuxWriting
  <2> QED BY <1>2, <2>1, <2>2, <2>3, <2>5 DEF WritersInv
<1>7. HeadInv'
  <2>1. pendingCommit => HeadIs(activeIndex, generation)  BY <1>1, <1>5 DEF HeadInv
  <2>2. pendingCommit => HeadIs(activeIndex, generation)'
    BY <1>2, <1>4, <2>1, HeadReading
  <2> QED BY <1>2, <1>4, <1>5, <2>2 DEF HeadInv
<1> QED BY <1>2, <1>3, <1>6, <1>7 DEF JournalInv

(* An erase that ends has left no record. *)
LEMMA EraseFinishes ==
  ASSUME JournalTypeOK, EraseJob, Cal!Finish
  PROVE  ValidRecords = {}
<1>1. /\ calPos = Len(calQueue) /\ CalDone = calPos  BY Finishes
<1>2. calQueue = Cal!EraseOps(<<0, 1>>)  BY DEF EraseJob
<1>3. Len(calQueue) = 2  BY <1>2, JournalEraseOps
<1>4. CalDone = 2 /\ CalDone >= 1  BY <1>1, <1>3
<1>5. eeprom[<<0, 0>>] = Erased /\ eeprom[<<1, 0>>] = Erased  BY <1>4 DEF EraseJob
<1> QED BY <1>5, CellAssumption DEF ValidRecords, Cal!Valid, JournalRecord

(* A save that ends has made its record the stored one, and the head moves on. *)
LEMMA SaveFinishes ==
  ASSUME JournalTypeOK, SaveJob, HeadInv, pendingCommit, Cal!Finish
  PROVE  Saved
<1>1. /\ calPos = Len(calQueue) /\ CalDone = calPos  BY Finishes
<1>2. Len(calQueue) = BodyLen + 2  BY SaveQueue
<1> QED BY <1>1, <1>2 DEF HeadInv

LEMMA CalFinishKeepsJournal ==
  ASSUME JournalInv, power = "panel", power' = power,
         Cal!Finish, ObserveWriter(calActive'), UNCHANGED auxVars
  PROVE  /\ JournalInv'
         /\ IF pendingCommit
              THEN /\ Stored = {Saving.content}
                   /\ ~pendingCommit' /\ generation' = pendingGeneration
              ELSE /\ ValidRecords = {}
                   /\ ~pendingCommit' /\ generation' = generation
<1>1. JournalTypeOK /\ WritersInv /\ HeadInv
  BY DEF JournalInv
<1>2. /\ calActive /\ ~calActive' /\ writing = {} /\ writing' = {}
      /\ UNCHANGED <<eeprom, calQueue, calPos>>
  BY <1>1, Finishes
<1>3. RecordsTyped' /\ Consecutive' /\ CertificateComplete'
  BY <1>2, SameMemory DEF JournalInv
<1>4. UNCHANGED <<auxQueue, auxPos, auxActive>>  BY DEF auxVars
<1>5. IF pendingCommit
        THEN activeIndex' = pendingIndex /\ generation' = pendingGeneration /\ ~pendingCommit'
        ELSE UNCHANGED <<activeIndex, generation, pendingCommit>>
  BY <1>2 DEF ObserveWriter, headVars, pendingVars
<1>6. UNCHANGED <<pendingIndex, pendingGeneration>>
  BY DEF ObserveWriter, headVars, pendingVars
<1>7. ~pendingCommit'  BY <1>5
<1>8. IF pendingCommit THEN Saved ELSE ValidRecords = {}
  BY <1>1, <1>2, SaveFinishes, EraseFinishes DEF WritersInv
<1>9. JournalTypeOK'
  <2>1. Typed  BY <1>1, TypedJournal
  <2>2. Typed'
    <3>1. activeIndex' \in JournalRecord /\ generation' \in Generation
      BY <1>5, <2>1 DEF Typed
    <3>2. pendingCommit' \in BOOLEAN /\ calActive' \in BOOLEAN /\ auxActive' \in BOOLEAN
      <4>1. pendingCommit' = FALSE \/ pendingCommit' = pendingCommit
        BY <1>2 DEF ObserveWriter, headVars, pendingVars
      <4>2. calActive' = FALSE  BY DEF Cal!Finish
      <4> QED BY <1>4, <2>1, <4>1, <4>2 DEF Typed
    <3> QED BY <1>2, <1>4, <1>6, <2>1, <3>1, <3>2 DEF Typed
  <2> QED BY <2>2, TypedJournal
<1>10. WritersInv'
  <2>1. (auxActive => CertifyJob \/ ClearJob)'
    <3>1. auxActive => ClearJob  BY <1>1, <1>2 DEF WritersInv, CertifyJob
    <3>2. CertificateMarker' = CertificateMarker  BY <1>2, SameMemory
    <3>3. AuxDone' = AuxDone  BY <1>1, Finishes
    <3>4. auxActive => ClearJob'  BY <1>4, <3>1, <3>2, <3>3 DEF ClearJob
    <3> QED BY <1>4, <3>4
  <2>2. ~CalWriting'  BY <1>2 DEF CalWriting
  <2> QED BY <1>2, <1>7, <2>1, <2>2 DEF WritersInv
<1>11. HeadInv'
  <2>1. CASE pendingCommit
    <3>1. HeadIs(pendingIndex, pendingGeneration)  BY <1>8, <2>1 DEF Saved, HeadIs
    <3>2. HeadIn(eeprom, pendingIndex, pendingGeneration)  BY <3>1, HeadReading
    <3>3. HeadIn(eeprom', activeIndex', generation')  BY <1>2, <1>5, <2>1, <3>2
    <3> QED BY <1>2, <1>7, <3>3, HeadReading DEF HeadInv
  <2>2. CASE ~pendingCommit
    <3>1. ValidRecords' = {}  BY <1>2, <1>8, <2>2, SameMemory
    <3> QED BY <1>7, <3>1 DEF HeadInv, HeadIs
  <2> QED BY <2>1, <2>2
<1>12. pendingCommit => Stored = {Saving.content}  BY <1>8 DEF Saved
<1> QED BY <1>3, <1>5, <1>7, <1>8, <1>9, <1>10, <1>11, <1>12 DEF JournalInv

LEMMA CertifySubmits ==
  ASSUME JournalTypeOK, CertifyJob, Aux!Submit,
         UNCHANGED <<calVars, headVars, pendingVars>>
  PROVE  CertifyJob'
<1>1. /\ ~calActive /\ writing = {}
      /\ auxPos' = auxPos + 1 /\ auxPos \in Nat /\ auxPos < Len(auxQueue)
      /\ AuxDone = auxPos
      /\ AuxDone' = IF writing' = {} THEN auxPos + 1 ELSE auxPos
      /\ writing' = {} =>
           eeprom[auxQueue[auxPos + 1].cell] = auxQueue[auxPos + 1].byte
      /\ UNCHANGED <<eeprom, auxQueue, calVars>>
  BY AuxSubmits DEF CertifyJob
<1>2. PICK g \in Generation, r \in Residual :
        /\ auxQueue = CertificateOps(g, r)
        /\ AuxDone >= 2 => CertificateBody = [seq |-> 0, content |-> r]
        /\ AuxDone = 3 => CertificateMarker = MarkerFor(g)
  BY DEF CertifyJob
<1>3. /\ Len(auxQueue) = 3
      /\ auxQueue[1] = [cell |-> <<Certificate, 0>>, byte |-> Erased]
      /\ auxQueue[2] = [cell |-> <<Certificate, 1>>, byte |-> [seq |-> 0, content |-> r]]
      /\ auxQueue[3] = [cell |-> <<Certificate, 0>>, byte |-> MarkerFor(g)]
  BY <1>2, CertifyOps
<1>4. auxPos = 0 \/ auxPos = 1 \/ auxPos = 2
  <2>1. Len(auxQueue) = 3 /\ auxPos \in Nat /\ auxPos < Len(auxQueue)  BY <1>1, <1>3
  <2> QED BY <2>1
<1>5. /\ CertificateMarker' = CertificateMarker /\ CertificateBody' = CertificateBody
  BY <1>1, SameMemory
<1>6. AuxDone \in {1, 2} => CertificateMarker = Erased  BY DEF CertifyJob
<1>7. /\ AuxDone' >= 2 => CertificateBody = [seq |-> 0, content |-> r]
      /\ AuxDone' = 3 => CertificateMarker = MarkerFor(g)
      /\ AuxDone' \in {1, 2} => CertificateMarker = Erased
  <2>1. CASE writing' # {}
    <3>1. AuxDone' = AuxDone  BY <1>1, <2>1
    <3> QED BY <1>2, <1>6, <3>1
  <2>2. CASE writing' = {} /\ auxPos = 0
    <3>1. AuxDone' = 1 /\ auxPos + 1 = 1  BY <1>1, <2>2
    <3>2. eeprom[auxQueue[1].cell] = auxQueue[1].byte  BY <1>1, <2>2, <3>1
    <3>3. CertificateMarker = Erased
      <4>1. auxQueue[1].cell = <<Certificate, 0>> /\ auxQueue[1].byte = Erased  BY <1>3
      <4> QED BY <3>2, <4>1 DEF CertificateMarker
    <3> QED BY <3>1, <3>3
  <2>3. CASE writing' = {} /\ auxPos = 1
    <3>1. AuxDone' = 2 /\ AuxDone = 1 /\ auxPos + 1 = 2  BY <1>1, <2>3
    <3>2. eeprom[auxQueue[2].cell] = auxQueue[2].byte  BY <1>1, <2>3, <3>1
    <3>3. CertificateBody = [seq |-> 0, content |-> r]
      <4>1. /\ auxQueue[2].cell = <<Certificate, 1>>
            /\ auxQueue[2].byte = [seq |-> 0, content |-> r]
        BY <1>3
      <4> QED BY <3>2, <4>1 DEF CertificateBody
    <3> QED BY <1>6, <3>1, <3>3
  <2>4. CASE writing' = {} /\ auxPos = 2
    <3>1. AuxDone' = 3 /\ AuxDone = 2 /\ auxPos + 1 = 3  BY <1>1, <2>4
    <3>2. eeprom[auxQueue[3].cell] = auxQueue[3].byte  BY <1>1, <2>4, <3>1
    <3>3. CertificateMarker = MarkerFor(g)
      <4>1. auxQueue[3].cell = <<Certificate, 0>> /\ auxQueue[3].byte = MarkerFor(g)
        BY <1>3
      <4> QED BY <3>2, <4>1 DEF CertificateMarker
    <3> QED BY <1>2, <3>1, <3>3
  <2> QED BY <1>4, <2>1, <2>2, <2>3, <2>4
<1>8. calActive' = calActive /\ auxQueue' = auxQueue  BY <1>1 DEF calVars
<1> QED BY <1>1, <1>2, <1>5, <1>7, <1>8 DEF CertifyJob

LEMMA ClearSubmits ==
  ASSUME JournalTypeOK, ClearJob, Aux!Submit,
         UNCHANGED <<calVars, headVars, pendingVars>>
  PROVE  ClearJob'
<1>1. /\ auxPos \in Nat /\ auxPos < Len(auxQueue) /\ AuxDone = auxPos
      /\ AuxDone' = IF writing' = {} THEN auxPos + 1 ELSE auxPos
      /\ writing' = {} =>
           eeprom[auxQueue[auxPos + 1].cell] = auxQueue[auxPos + 1].byte
      /\ UNCHANGED <<eeprom, auxQueue>>
  BY AuxSubmits
<1>2. auxQueue = ClearOps /\ (AuxDone >= 1 => CertificateMarker = Erased)
  BY DEF ClearJob
<1>3. auxQueue[1] = [cell |-> <<Certificate, 0>>, byte |-> Erased]
  BY <1>2, ClearOpsType
<1>4. CertificateMarker' = CertificateMarker  BY <1>1, SameMemory
<1>5. AuxDone' >= 1 => CertificateMarker = Erased
  <2>1. CASE auxPos = 0 /\ writing' = {}
    <3>1. auxPos + 1 = 1  BY <2>1
    <3>2. eeprom[auxQueue[1].cell] = auxQueue[1].byte  BY <1>1, <2>1, <3>1
    <3>3. auxQueue[1].cell = <<Certificate, 0>> /\ auxQueue[1].byte = Erased  BY <1>3
    <3> QED BY <3>2, <3>3 DEF CertificateMarker
  <2>2. CASE auxPos = 0 /\ writing' # {}  BY <1>1, <2>2
  <2>3. CASE auxPos # 0  BY <1>1, <1>2, <2>3
  <2> QED BY <2>1, <2>2, <2>3
<1> QED BY <1>1, <1>2, <1>4, <1>5 DEF ClearJob

(* The other writer's steps are none of the calibration writer's. *)
LEMMA AuxLeavesCal ==
  ASSUME UNCHANGED <<eeprom, calVars, headVars, pendingVars>>, CalDone' = CalDone,
         auxActive' /\ EraseJob => auxQueue' = ClearOps
  PROVE  /\ SaveJob' <=> SaveJob
         /\ EraseJob => EraseJob'
         /\ HeadInv' <=> HeadInv
<1>1. UNCHANGED <<calQueue, calPos, calActive, activeIndex, generation,
                  pendingIndex, pendingGeneration, pendingCommit>>
  BY DEF calVars, headVars, pendingVars
<1>2. /\ ValidRecords' = ValidRecords /\ Latest' = Latest /\ Stored' = Stored
      /\ CertifiedGenerations' = CertifiedGenerations
  BY SameMemory
<1>3. Saving' = Saving  BY <1>1 DEF Saving
<1>4. (SaveJob' <=> SaveJob) /\ (EraseJob => EraseJob')
  BY <1>1, <1>2, <1>3 DEF SaveJob, EraseJob
<1>5. Saved' <=> Saved
  <2>1. GenerationIn(pendingIndex)' = GenerationIn(pendingIndex)
    BY <1>1 DEF GenerationIn
  <2> QED BY <1>1, <1>2, <1>3, <2>1 DEF Saved
<1>6. HeadIs(activeIndex, generation)' <=> HeadIs(activeIndex, generation)
  BY <1>1, HeadReading
<1>7. HeadInv' <=> HeadInv  BY <1>1, <1>5, <1>6 DEF HeadInv
<1> QED BY <1>4, <1>7

LEMMA AuxSubmitKeepsJournal ==
  ASSUME JournalInv, power = "panel", power' = power,
         Aux!Submit, UNCHANGED <<calVars, headVars, pendingVars>>
  PROVE  /\ JournalInv' /\ auxActive /\ auxActive'
         /\ UNCHANGED <<eeprom, auxQueue>>
<1>1. JournalTypeOK /\ WritersInv /\ HeadInv  BY DEF JournalInv
<1>2. CertifyJob \/ ClearJob  BY <1>1 DEF WritersInv, Aux!Submit
<1>3. /\ JournalTypeOK' /\ auxActive /\ auxActive'
      /\ auxPos' = auxPos + 1 /\ auxPos \in Nat
      /\ writing' \subseteq {auxQueue[auxPos']} /\ ~CalWriting' /\ CalDone' = CalDone
      /\ UNCHANGED <<eeprom, auxQueue, calVars, headVars, pendingVars>>
  BY <1>1, <1>2, AuxSubmits
<1>4. RecordsTyped' /\ Consecutive' /\ CertificateComplete'
  BY <1>3, SameMemory DEF JournalInv
<1>5. UNCHANGED <<calActive, pendingCommit>>  BY <1>3 DEF calVars, pendingVars
<1>6. (CertifyJob \/ ClearJob)'
  BY <1>1, <1>2, CertifySubmits, ClearSubmits
<1>7. (SaveJob' <=> SaveJob) /\ (EraseJob => EraseJob') /\ (HeadInv' <=> HeadInv)
  <2>1. EraseJob => auxQueue' = ClearOps  BY <1>3 DEF EraseJob
  <2> QED BY <1>3, <2>1, AuxLeavesCal
<1>8. WritersInv'
  <2>1. auxPos' >= 1  BY <1>3
  <2>2. \A op \in writing' :
          OfCertificate(op) /\ auxActive' /\ auxPos' >= 1 /\ op = auxQueue'[auxPos']
    BY <1>3, <2>1 DEF CalWriting
  <2>3. (calActive => IF pendingCommit THEN SaveJob ELSE EraseJob)'
    BY <1>1, <1>5, <1>7 DEF WritersInv
  <2>4. (pendingCommit => calActive)'  BY <1>1, <1>5 DEF WritersInv
  <2> QED BY <1>3, <1>6, <2>2, <2>3, <2>4 DEF WritersInv
<1> QED BY <1>1, <1>3, <1>4, <1>7, <1>8 DEF JournalInv

(* A job of the other writer that ends has kept what it was to keep. *)
LEMMA AuxFinishes ==
  ASSUME JournalTypeOK, WritersInv, Aux!Finish
  PROVE  /\ \A g \in Generation, r \in Residual :
              auxQueue = CertificateOps(g, r) => CertificateMarker = MarkerFor(g)
         /\ auxQueue = ClearOps => CertifiedGenerations = {}
<1>1. /\ auxActive /\ auxPos = Len(auxQueue) /\ AuxDone = auxPos  BY Finishes
<1>2. CASE CertifyJob
  <2>1. PICK g \in Generation, r \in Residual :
          /\ auxQueue = CertificateOps(g, r)
          /\ AuxDone = 3 => CertificateMarker = MarkerFor(g)
    BY <1>2 DEF CertifyJob
  <2>2. /\ Len(auxQueue) = 3
        /\ auxQueue[3] = [cell |-> <<Certificate, 0>>, byte |-> MarkerFor(g)]
    BY <2>1, CertifyOps
  <2>3. CertificateMarker = MarkerFor(g)  BY <1>1, <2>1, <2>2
  <2>4. auxQueue # ClearOps  BY <2>1, OpsDiffer
  <2>5. \A h \in Generation, s \in Residual : auxQueue = CertificateOps(h, s) => h = g
    BY <2>1, OpsDiffer
  <2> QED BY <2>3, <2>4, <2>5
<1>3. CASE ClearJob
  <2>1. auxQueue = ClearOps /\ (AuxDone >= 1 => CertificateMarker = Erased)
    BY <1>3 DEF ClearJob
  <2>2. Len(auxQueue) = 2  BY <2>1, ClearOpsType
  <2>3. CertificateMarker = Erased
    <3>1. AuxDone = 2  BY <1>1, <2>2
    <3> QED BY <2>1, <3>1
  <2>4. CertifiedGenerations = {}
    BY <2>3, Bytes DEF CertifiedGenerations, CertificateMarker
  <2>5. \A g \in Generation, r \in Residual : auxQueue # CertificateOps(g, r)
    BY <2>1, OpsDiffer
  <2> QED BY <2>4, <2>5
<1> QED BY <1>1, <1>2, <1>3 DEF WritersInv

LEMMA AuxFinishKeepsJournal ==
  ASSUME JournalInv, power = "panel", power' = power,
         Aux!Finish, UNCHANGED <<calVars, headVars, pendingVars>>
  PROVE  JournalInv'
<1>1. JournalTypeOK /\ WritersInv /\ HeadInv  BY DEF JournalInv
<1>2. /\ auxActive /\ ~auxActive' /\ writing = {} /\ writing' = {} /\ CalDone' = CalDone
      /\ UNCHANGED <<eeprom, auxQueue, auxPos>>
  BY <1>1, Finishes
<1>3. RecordsTyped' /\ Consecutive' /\ CertificateComplete'
  BY <1>2, SameMemory DEF JournalInv
<1>4. UNCHANGED <<calActive, pendingCommit>>  BY DEF calVars, pendingVars
<1>5. JournalTypeOK'
  <2>1. Typed  BY <1>1, TypedJournal
  <2>2. auxActive' = FALSE  BY DEF Aux!Finish
  <2>3. auxActive' \in BOOLEAN  BY <2>2
  <2>4. Typed'  BY <1>2, <2>1, <2>3 DEF Typed, calVars, headVars, pendingVars
  <2> QED BY <2>4, TypedJournal
<1>6. (SaveJob' <=> SaveJob) /\ (EraseJob => EraseJob') /\ (HeadInv' <=> HeadInv)
  BY <1>2, AuxLeavesCal
<1>7. WritersInv'
  <2>1. (calActive => IF pendingCommit THEN SaveJob ELSE EraseJob)'
    BY <1>1, <1>4, <1>6 DEF WritersInv
  <2>2. (pendingCommit => calActive)'  BY <1>1, <1>4 DEF WritersInv
  <2>3. ~CalWriting'  BY <1>2 DEF CalWriting
  <2> QED BY <1>2, <2>1, <2>2, <2>3 DEF WritersInv
<1> QED BY <1>1, <1>3, <1>5, <1>6, <1>7 DEF JournalInv

-----------------------------------------------------------------------------
(* The journal under every step *)

(* The body of StoredChangesBySave. *)
StoredStep ==
  Stored' # Stored =>
    IF Erasing
      THEN Stored' \subseteq {Cal!BodyOf(eeprom, i).content : i \in ValidRecords}
      ELSE calActive /\ Stored' = {calQueue[2].byte.content}

LEMMA SaveIsNoErase ==
  ASSUME JournalTypeOK, SaveJob
  PROVE  ~Erasing
<1>1. Len(calQueue) = BodyLen + 2 /\ BodyLen \in Nat \ {0}  BY SaveQueue, CellAssumption
<1>2. Len(Cal!EraseOps(<<0, 1>>)) = 2  BY JournalEraseOps
<1>3. BodyLen + 2 # 2  BY <1>1
<1> QED BY <1>1, <1>2, <1>3 DEF Erasing

LEMMA QuietKeepsJournal ==
  ASSUME JournalInv, UNCHANGED <<journalVars, power>>
  PROVE  JournalInv' /\ Stored' = Stored
<1>1. /\ UNCHANGED <<eeprom, writing, calQueue, calPos, calActive, auxQueue, auxPos, auxActive>>
      /\ UNCHANGED <<activeIndex, generation, pendingIndex, pendingGeneration, pendingCommit>>
      /\ UNCHANGED power
  BY DEF journalVars, deviceVars, calVars, auxVars, headVars, pendingVars
<1>2. /\ ValidRecords' = ValidRecords /\ Latest' = Latest /\ Stored' = Stored
      /\ CertifiedGenerations' = CertifiedGenerations
      /\ CertificateMarker' = CertificateMarker /\ CertificateBody' = CertificateBody
      /\ RecordsTyped' <=> RecordsTyped
      /\ Consecutive' <=> Consecutive
      /\ CertificateComplete' <=> CertificateComplete
  BY <1>1, SameMemory
<1>3. CalDone' = CalDone /\ AuxDone' = AuxDone /\ Saving' = Saving
  BY <1>1 DEF CalDone, AuxDone, CalWriting, AuxWriting, Saving
<1>4. JournalTypeOK'
  <2>1. Typed' <=> Typed  BY <1>1 DEF Typed
  <2> QED BY <2>1, TypedJournal DEF JournalInv
<1>5. (SaveJob' <=> SaveJob) /\ (EraseJob' <=> EraseJob)
  BY <1>1, <1>2, <1>3 DEF SaveJob, EraseJob
<1>6. (CertifyJob' <=> CertifyJob) /\ (ClearJob' <=> ClearJob)
  BY <1>1, <1>2, <1>3 DEF CertifyJob, ClearJob
<1>7. WritersInv'
  <2>1. WritersInv  BY DEF JournalInv
  <2>2. (CalWriting' <=> CalWriting) /\ (AuxWriting' <=> AuxWriting)
    BY <1>1 DEF CalWriting, AuxWriting
  <2> QED BY <1>1, <1>5, <1>6, <2>1, <2>2 DEF WritersInv
<1>8. Saved' <=> Saved
  <2>1. GenerationIn(pendingIndex)' = GenerationIn(pendingIndex)
    BY <1>1 DEF GenerationIn
  <2> QED BY <1>1, <1>2, <1>3, <2>1 DEF Saved
<1>9. HeadIs(activeIndex, generation)' <=> HeadIs(activeIndex, generation)
  BY <1>1, HeadReading
<1>10. HeadInv' <=> HeadInv  BY <1>1, <1>3, <1>8, <1>9 DEF HeadInv
<1> QED BY <1>1, <1>2, <1>4, <1>7, <1>10 DEF JournalInv

LEMMA ProgramKeepsJournal ==
  ASSUME JournalInv, ByteProgrammed, power' = power
  PROVE  /\ JournalInv' /\ StoredStep /\ writing # {}
         /\ ~auxActive =>
              CertifiedGenerations' = CertifiedGenerations
              /\ CertificateMarker' = CertificateMarker
         /\ ~calActive => Stored' = Stored /\ ValidRecords' = ValidRecords /\ auxActive
<1>2. PICK op \in writing : Put(eeprom', op.cell, op.byte)
  BY DEF ByteProgrammed, Cal!Programmed, Put
<1>3. writing' = {} /\ UNCHANGED <<calQueue, calPos, calActive>>
  BY DEF ByteProgrammed, Cal!Programmed
<1>4. UNCHANGED <<auxQueue, auxPos, auxActive, activeIndex, generation, pendingIndex,
                  pendingGeneration, pendingCommit>>
  BY DEF ByteProgrammed, auxVars, headVars, pendingVars
<1>5. JournalTypeOK /\ WritersInv  BY DEF JournalInv
<1>6. power = "panel" /\ HeadInv
  <2>1. calActive \/ auxActive  BY <1>2, <1>5, WritingOwner
  <2> QED BY <2>1 DEF JournalInv
<1>7. PICK b : b = op.byte  OBVIOUS
<1>8. b \in {op.byte, Torn} /\ Put(eeprom', op.cell, b)  BY <1>2, <1>7
<1>9. /\ eeprom' \in [Cal!Cell -> Cal!Byte]
      /\ TypedIn(eeprom') /\ PairedIn(eeprom') /\ CompleteIn(eeprom')
      /\ ~OfCertificate(op) => CertifiedIn(eeprom') = CertifiedIn(eeprom)
      /\ ~OfCertificate(op) => eeprom'[<<Certificate, 0>>] = CertificateMarker
      /\ ~OfCertificate(op) /\ pendingCommit =>
           IF calPos = BodyLen + 2 /\ b = op.byte
             THEN /\ Valids(eeprom') # {} /\ LatestIn(eeprom') = pendingIndex
                  /\ Gen(eeprom', pendingIndex) = pendingGeneration
                  /\ StoredIn(eeprom') = {Saving.content}
             ELSE StoredIn(eeprom') = Stored /\ HeadIn(eeprom', activeIndex, generation)
      /\ ~OfCertificate(op) /\ ~pendingCommit =>
           StoredIn(eeprom') \subseteq {Cal!BodyOf(eeprom, i).content : i \in ValidRecords}
      /\ OfCertificate(op) =>
           /\ OnlyIn(eeprom, eeprom', Certificate)
           /\ auxQueue = ClearOps => CertifiedIn(eeprom') = {}
           /\ StoredIn(eeprom') = Stored /\ Valids(eeprom') = ValidRecords
           /\ HeadIn(eeprom', activeIndex, generation)
                <=> HeadIn(eeprom, activeIndex, generation)
  BY <1>2, <1>6, <1>8, ByteEffect
<1>10. JournalTypeOK'
  <2>1. Typed  BY <1>5, TypedJournal
  <2>2. Typed'  BY <1>3, <1>4, <1>9, <2>1 DEF Typed
  <2> QED BY <2>2, TypedJournal
<1>11. RecordsTyped' /\ Consecutive' /\ CertificateComplete'
  BY <1>9, Readings, CertificateReadings
<1>12. IF OfCertificate(op)
         THEN auxActive /\ Stored' = Stored /\ ValidRecords' = ValidRecords
         ELSE /\ calActive /\ CertifiedGenerations' = CertifiedGenerations
              /\ CertificateMarker' = CertificateMarker
  <2>1. CASE OfCertificate(op)
    BY <1>2, <1>5, <1>9, <2>1, WritingOwner, Readings
  <2>2. CASE ~OfCertificate(op)
    BY <1>2, <1>5, <1>9, <2>2, WritingOwner, CertificateReadings DEF CertificateMarker
  <2> QED BY <2>1, <2>2
<1>13. CalDone' = calPos /\ AuxDone' = auxPos
  BY <1>3, <1>4 DEF CalDone, AuxDone, CalWriting, AuxWriting
<1>14. IF OfCertificate(op) THEN CalDone = calPos ELSE AuxDone = auxPos
  <2>1. OfCertificate(op) => ~CalWriting  BY <1>2, <1>5 DEF WritersInv, AuxWriting
  <2>2. ~OfCertificate(op) => ~AuxWriting  BY <1>2, <1>5 DEF WritersInv, CalWriting
  <2> QED BY <2>1, <2>2 DEF CalDone, AuxDone
<1>15. ~CalWriting' /\ ~AuxWriting' /\ (pendingCommit => calActive)
  BY <1>3, <1>5 DEF CalWriting, AuxWriting, WritersInv
<1>16. ~OfCertificate(op) /\ auxActive => ClearJob'
  <2>1. ~OfCertificate(op) /\ auxActive => ClearJob
    BY <1>5, <1>12 DEF WritersInv, CertifyJob
  <2> QED BY <1>4, <1>12, <1>13, <1>14, <2>1 DEF ClearJob
<1>17. CASE ~OfCertificate(op) /\ pendingCommit
  <2>1. SaveJob /\ calActive  BY <1>5, <1>12, <1>17 DEF WritersInv
  <2>2. /\ calPos \in 1 .. BodyLen + 1 => eeprom'[<<pendingIndex, 0>>] = Erased
        /\ calPos = BodyLen + 2 => eeprom'[<<pendingIndex, 0>>] = Marked
        /\ \A o \in 1 .. BodyLen : calPos >= o + 1 => eeprom'[<<pendingIndex, o>>] = Saving
    BY <1>2, <1>5, <1>7, <1>8, <1>17, <2>1, SaveByte
  <2>3. Saving' = Saving  BY <1>3 DEF Saving
  <2>4. SaveJob'
    <3>1. /\ \E p \in Profile :
               calQueue' = Cal!RecordOps(pendingIndex', [seq |-> pendingGeneration', content |-> p])
          /\ pendingIndex' = 1 - activeIndex'
          /\ pendingGeneration' = (generation' + 1) % Generations
      BY <1>3, <1>4, <2>1 DEF SaveJob
    <3>2. /\ CalDone' \in 1 .. BodyLen + 1 => eeprom'[<<pendingIndex', 0>>] = Erased
          /\ CalDone' = BodyLen + 2 => eeprom'[<<pendingIndex', 0>>] = Marked
          /\ \A o \in 1 .. BodyLen :
               CalDone' >= o + 1 => eeprom'[<<pendingIndex', o>>] = Saving'
      BY <1>4, <1>13, <2>2, <2>3
    <3> QED BY <3>1, <3>2 DEF SaveJob
  <2>5. WritersInv'
    BY <1>3, <1>4, <1>15, <1>16, <1>17, <2>1, <2>4 DEF WritersInv
  <2>6. HeadInv'
    <3>1. CASE calPos = BodyLen + 2
      <4>1. /\ ValidRecords' # {} /\ Latest' = pendingIndex /\ Stored' = {Saving.content}
            /\ Gen(eeprom', pendingIndex) = pendingGeneration
        BY <1>7, <1>9, <1>17, <3>1, Readings
      <4>2. GenerationIn(pendingIndex)' = Gen(eeprom', pendingIndex')
        BY DEF GenerationIn, Gen
      <4>3. Saved'  BY <1>4, <2>3, <4>1, <4>2 DEF Saved
      <4> QED BY <1>4, <1>13, <1>17, <3>1, <4>3 DEF HeadInv
    <3>2. CASE calPos # BodyLen + 2
      <4>1. HeadIn(eeprom', activeIndex', generation')  BY <1>4, <1>9, <1>17, <3>2
      <4> QED BY <1>13, <3>2, <4>1, HeadReading DEF HeadInv
    <3> QED BY <3>1, <3>2
  <2>7. StoredStep
    <3>1. ~Erasing  BY <1>5, <2>1, SaveIsNoErase
    <3>2. Stored' = {Saving.content} \/ Stored' = Stored  BY <1>9, <1>17, Readings
    <3> QED BY <2>1, <3>1, <3>2 DEF StoredStep, Saving
  <2> QED BY <1>2, <1>4, <1>6, <1>10, <1>11, <1>12, <1>17, <2>1, <2>5, <2>6, <2>7
          DEF JournalInv
<1>18. CASE ~OfCertificate(op) /\ ~pendingCommit
  <2>1. EraseJob /\ calActive  BY <1>5, <1>12, <1>18 DEF WritersInv
  <2>2. calPos \in {1, 2} /\ OnlyIn(eeprom, eeprom', calPos - 1)
        /\ eeprom'[<<calPos - 1, 0>>] = Erased /\ CalDone = calPos - 1
    BY <1>2, <1>5, <1>7, <1>8, <1>18, <2>1, EraseByte, WritingOwner
  <2>3. eeprom'[<<0, 0>>] = Erased /\ (calPos = 2 => eeprom'[<<1, 0>>] = Erased)
    <3>1. CASE calPos = 1  BY <2>2, <3>1
    <3>2. CASE calPos = 2
      <4>1. eeprom[<<0, 0>>] = Erased  BY <2>1, <2>2, <3>2 DEF EraseJob
      <4>2. eeprom'[<<0, 0>>] = eeprom[<<0, 0>>]
        BY <2>2, <3>2, Cells DEF OnlyIn, AnyRecord, JournalRecord
      <4> QED BY <2>2, <3>2, <4>1, <4>2
    <3> QED BY <2>2, <3>1, <3>2
  <2>4. EraseJob'
    BY <1>3, <1>4, <1>12, <1>13, <1>18, <2>1, <2>3 DEF EraseJob
  <2>5. WritersInv'
    BY <1>3, <1>4, <1>15, <1>16, <1>18, <2>1, <2>4 DEF WritersInv
  <2>6. HeadInv'  BY <1>3, <1>4, <1>18, <2>1 DEF HeadInv
  <2>7. StoredStep
    <3>1. Erasing  BY <2>1 DEF Erasing, EraseJob
    <3> QED BY <1>9, <1>18, <3>1, Readings DEF StoredStep
  <2> QED BY <1>2, <1>4, <1>6, <1>10, <1>11, <1>12, <1>18, <2>1, <2>5, <2>6, <2>7
          DEF JournalInv
<1>19. CASE OfCertificate(op)
  <2>1. /\ auxActive /\ Stored' = Stored /\ ValidRecords' = ValidRecords /\ CalDone' = CalDone
        /\ OnlyIn(eeprom, eeprom', Certificate)
        /\ auxQueue = ClearOps => CertifiedGenerations' = {}
    BY <1>9, <1>12, <1>13, <1>14, <1>19, CertificateReadings
  <2>2. (CertifyJob \/ ClearJob)'
    <3>1. CASE CertifyJob
      <4>1. PICK g \in Generation, r \in Residual :
              /\ auxQueue = CertificateOps(g, r)
              /\ auxPos >= 2 => eeprom'[<<Certificate, 1>>] = [seq |-> 0, content |-> r]
              /\ auxPos = 3 => eeprom'[<<Certificate, 0>>] = MarkerFor(g)
              /\ auxPos \in {1, 2} => eeprom'[<<Certificate, 0>>] = Erased
        BY <1>2, <1>5, <1>7, <1>8, <1>19, <3>1, CertifyByte
      <4>2. ~calActive'  BY <1>3, <3>1 DEF CertifyJob
      <4>3. /\ auxQueue' = CertificateOps(g, r)
            /\ AuxDone' >= 2 => CertificateBody' = [seq |-> 0, content |-> r]
            /\ AuxDone' = 3 => CertificateMarker' = MarkerFor(g)
            /\ AuxDone' \in {1, 2} => CertificateMarker' = Erased
        BY <1>4, <1>13, <4>1 DEF CertificateMarker, CertificateBody
      <4> QED BY <4>2, <4>3 DEF CertifyJob
    <3>2. CASE ClearJob
      <4>1. eeprom'[<<Certificate, 0>>] = Erased
        BY <1>2, <1>5, <1>7, <1>8, <1>19, <3>2, ClearByte
      <4> QED BY <1>4, <3>2, <4>1 DEF ClearJob, CertificateMarker
    <3> QED BY <1>5, <2>1, <3>1, <3>2 DEF WritersInv
  <2>3. /\ \A i \in JournalRecord, o \in Cal!Offset : eeprom'[<<i, o>>] = eeprom[<<i, o>>]
        /\ Saving' = Saving
    <3>1. \A i \in JournalRecord : i \in AnyRecord \ {Certificate}
      BY DEF AnyRecord, JournalRecord, Certificate
    <3> QED BY <1>3, <2>1, <3>1 DEF OnlyIn, Saving
  <2>4. pendingCommit => SaveJob'
    <3>1. pendingIndex \in JournalRecord /\ 0 \in Cal!Offset /\ 1 .. BodyLen \subseteq Cal!Offset
      BY <1>5, CellAssumption DEF JournalTypeOK, Cal!Offset
    <3>2. /\ eeprom'[<<pendingIndex, 0>>] = eeprom[<<pendingIndex, 0>>]
          /\ \A o \in 1 .. BodyLen : eeprom'[<<pendingIndex, o>>] = eeprom[<<pendingIndex, o>>]
      BY <2>3, <3>1
    <3>3. pendingCommit => SaveJob  BY <1>5 DEF WritersInv
    <3> QED BY <1>3, <1>4, <2>1, <2>3, <3>2, <3>3 DEF SaveJob
  <2>5. calActive /\ ~pendingCommit => EraseJob'
    <3>1. calActive /\ ~pendingCommit => EraseJob  BY <1>5 DEF WritersInv
    <3>2. /\ eeprom'[<<0, 0>>] = eeprom[<<0, 0>>]
          /\ eeprom'[<<1, 0>>] = eeprom[<<1, 0>>]
      BY <2>3, Cells DEF JournalRecord
    <3> QED BY <1>3, <1>4, <2>1, <3>1, <3>2 DEF EraseJob
  <2>6. WritersInv'
    BY <1>3, <1>4, <1>5, <1>15, <2>1, <2>2, <2>4, <2>5 DEF WritersInv
  <2>7. HeadIs(activeIndex, generation)' <=> HeadIs(activeIndex, generation)
    BY <1>4, <1>9, <1>19, HeadReading
  <2>8. Saved' <=> Saved
    <3>1. /\ Latest' = Latest
          /\ \A i \in JournalRecord : Gen(eeprom', i) = Gen(eeprom, i)
      BY <2>1, JournalUntouched, Readings
    <3>2. GenerationIn(pendingIndex)' = GenerationIn(pendingIndex)
      BY <1>4, <1>5, <3>1 DEF GenerationIn, Gen, JournalTypeOK
    <3> QED BY <1>4, <2>1, <2>3, <3>1, <3>2 DEF Saved
  <2>9. HeadInv'  BY <1>3, <1>4, <1>6, <2>1, <2>7, <2>8 DEF HeadInv
  <2>10. StoredStep  BY <2>1 DEF StoredStep
  <2> QED BY <1>2, <1>4, <1>6, <1>10, <1>11, <2>1, <2>6, <2>9, <2>10 DEF JournalInv
<1> QED BY <1>17, <1>18, <1>19

LEMMA PowerLossKeepsJournal ==
  ASSUME JournalInv, power = "panel", power' = "off", LosePower
  PROVE  JournalInv' /\ StoredStep
<1>1. /\ writing' = {} /\ calQueue' = <<>> /\ calPos' = 0 /\ calActive' = FALSE
      /\ auxQueue' = <<>> /\ auxPos' = 0 /\ auxActive' = FALSE
      /\ activeIndex' = 1 /\ generation' = Generations - 1
      /\ pendingCommit' = FALSE /\ pendingIndex' = 0 /\ pendingGeneration' = 0
  BY DEF LosePower, Cal!LosePower
<1>2. JournalTypeOK /\ WritersInv  BY DEF JournalInv
<1>3. /\ eeprom' \in [Cal!Cell -> Cal!Byte]
      /\ RecordsTyped' /\ Consecutive' /\ CertificateComplete' /\ StoredStep
  <2>1. CASE UNCHANGED eeprom
    <3>1. eeprom \in [Cal!Cell -> Cal!Byte]  BY <1>2, TypedJournal DEF Typed
    <3> QED BY <2>1, <3>1, SameMemory DEF JournalInv, StoredStep
  <2>2. CASE \E op \in writing : \E b \in {op.byte, Torn} :
               eeprom' = [eeprom EXCEPT ![op.cell] = b]
    <3>1. PICK op \in writing : \E b \in {op.byte, Torn} : Put(eeprom', op.cell, b)
      BY <2>2 DEF Put
    <3>2. PICK b \in {op.byte, Torn} : Put(eeprom', op.cell, b)  BY <3>1
    <3>3. /\ eeprom' \in [Cal!Cell -> Cal!Byte]
          /\ TypedIn(eeprom') /\ PairedIn(eeprom') /\ CompleteIn(eeprom')
          /\ ~OfCertificate(op) /\ pendingCommit =>
               StoredIn(eeprom') = {Saving.content} \/ StoredIn(eeprom') = Stored
          /\ ~OfCertificate(op) /\ ~pendingCommit =>
               StoredIn(eeprom') \subseteq {Cal!BodyOf(eeprom, i).content : i \in ValidRecords}
          /\ OfCertificate(op) => StoredIn(eeprom') = Stored
      BY <3>2, ByteEffect
    <3>4. StoredStep
      <4>1. ~OfCertificate(op) => calActive  BY <1>2, WritingOwner
      <4>2. CASE ~OfCertificate(op) /\ pendingCommit
        <5>1. SaveJob  BY <1>2, <4>1, <4>2 DEF WritersInv
        <5>2. ~Erasing  BY <1>2, <5>1, SaveIsNoErase
        <5>3. Stored' = {Saving.content} \/ Stored' = Stored  BY <3>3, <4>2, Readings
        <5> QED BY <4>1, <4>2, <5>2, <5>3 DEF StoredStep, Saving
      <4>3. CASE ~OfCertificate(op) /\ ~pendingCommit
        <5>1. EraseJob  BY <1>2, <4>1, <4>3 DEF WritersInv
        <5>2. Erasing  BY <4>1, <4>3, <5>1 DEF Erasing, EraseJob
        <5> QED BY <3>3, <4>3, <5>2, Readings DEF StoredStep
      <4>4. CASE OfCertificate(op)  BY <3>3, <4>4, Readings DEF StoredStep
      <4> QED BY <4>2, <4>3, <4>4
    <3> QED BY <3>3, <3>4, Readings, CertificateReadings
  <2> QED BY <2>1, <2>2 DEF LosePower, Cal!LosePower
<1>4. JournalTypeOK'
  <2>1. Generations - 1 \in Generation /\ 0 \in Generation
    BY JournalAssumption DEF Generation
  <2>2. 0 \in JournalRecord /\ 1 \in JournalRecord  BY DEF JournalRecord
  <2>3. <<>> \in Seq(Cal!Op) /\ 0 \in 0 .. Len(<<>>)  OBVIOUS
  <2>4. FALSE \in BOOLEAN  OBVIOUS
  <2>5. Typed'
    <3>1. /\ calQueue' \in Seq(Cal!Op) /\ calPos' \in 0 .. Len(calQueue')
          /\ auxQueue' \in Seq(Cal!Op) /\ auxPos' \in 0 .. Len(auxQueue')
      BY <1>1, <2>3
    <3>2. /\ activeIndex' \in JournalRecord /\ pendingIndex' \in JournalRecord
          /\ generation' \in Generation /\ pendingGeneration' \in Generation
      BY <1>1, <2>1, <2>2
    <3>3. calActive' \in BOOLEAN /\ auxActive' \in BOOLEAN /\ pendingCommit' \in BOOLEAN
      BY <1>1, <2>4
    <3>4. writing' \subseteq Cal!Op  BY <1>1
    <3> QED BY <1>3, <3>1, <3>2, <3>3, <3>4 DEF Typed
  <2> QED BY <2>5, TypedJournal
<1>5. ~calActive' /\ ~auxActive' /\ ~pendingCommit'  BY <1>1
<1>6. WritersInv'  BY <1>1, <1>5 DEF WritersInv, CalWriting
<1> QED BY <1>3, <1>4, <1>5, <1>6 DEF JournalInv

(* A power-up, or a load, finds the head again: no job is in the way. *)
LEMMA LoadKeepsJournal ==
  ASSUME JournalInv, ~calActive, LoadHead, power' = "panel",
         UNCHANGED <<deviceVars, calVars, auxVars, pendingVars>>
  PROVE  JournalInv' /\ Stored' = Stored
<1>1. JournalTypeOK /\ WritersInv /\ RecordsTyped /\ Consecutive /\ CertificateComplete
  BY DEF JournalInv
<1>2. UNCHANGED <<eeprom, writing, calQueue, calPos, calActive, auxQueue, auxPos, auxActive,
                  pendingIndex, pendingGeneration, pendingCommit>>
  BY DEF deviceVars, calVars, auxVars, pendingVars
<1>3. ~pendingCommit  BY <1>1 DEF WritersInv
<1>4. /\ Stored' = Stored /\ RecordsTyped' /\ Consecutive' /\ CertificateComplete'
      /\ CertificateMarker' = CertificateMarker /\ CertificateBody' = CertificateBody
  BY <1>1, <1>2, SameMemory
<1>5. /\ IF ValidRecords = {} THEN activeIndex' = 1 /\ generation' = Generations - 1
         ELSE activeIndex' = Latest /\ generation' = GenerationIn(Latest)
  BY DEF LoadHead
<1>6. activeIndex' \in JournalRecord /\ generation' \in Generation
  <2>1. CASE ValidRecords = {}
    BY <1>5, <2>1, JournalAssumption DEF JournalRecord, Generation
  <2>2. CASE ValidRecords # {}
    <3>1. Latest \in ValidRecords  BY <2>2, Readings, LatestIsValid
    <3>2. GenerationIn(Latest) \in Generation
      BY <1>1, <3>1 DEF RecordsTyped, GenerationIn
    <3> QED BY <1>5, <2>2, <3>1, <3>2 DEF ValidRecords
  <2> QED BY <2>1, <2>2
<1>7. JournalTypeOK'
  <2>1. Typed  BY <1>1, TypedJournal
  <2>2. Typed'  BY <1>2, <1>6, <2>1 DEF Typed
  <2> QED BY <2>2, TypedJournal
<1>8. AuxDone' = AuxDone /\ (CalWriting' <=> CalWriting) /\ (AuxWriting' <=> AuxWriting)
  BY <1>2 DEF AuxDone, CalWriting, AuxWriting
<1>9. (CertifyJob' <=> CertifyJob) /\ (ClearJob' <=> ClearJob)
  BY <1>2, <1>4, <1>8 DEF CertifyJob, ClearJob
<1>10. WritersInv'  BY <1>1, <1>2, <1>3, <1>8, <1>9 DEF WritersInv
<1>11. HeadInv'
  <2>1. HeadIn(eeprom, activeIndex', generation')
    BY <1>5, Readings DEF HeadIn, GenerationIn, Gen
  <2> QED BY <1>2, <1>3, <2>1, HeadReading DEF HeadInv
<1> QED BY <1>4, <1>7, <1>10, <1>11 DEF JournalInv

LEMMA CommitKeepsJournal ==
  ASSUME JournalInv, power = "panel", power' = power, ~Busy,
         NEW p \in Profile, SaveProfile(p)
  PROVE  /\ JournalInv' /\ Stored' = Stored
         /\ calActive' /\ pendingCommit' /\ Saving'.content = p
         /\ pendingGeneration' = (generation + 1) % Generations
         /\ UNCHANGED <<eeprom, auxVars, headVars>>
<1>1. JournalTypeOK /\ WritersInv /\ HeadInv /\ ~calActive /\ ~auxActive /\ ~pendingCommit
  BY DEF JournalInv, Busy
<1>2. Typed  BY <1>1, TypedJournal
<1>3. PICK image : image = [seq |-> (generation + 1) % Generations, content |-> p]  OBVIOUS
<1>4. /\ calQueue' = Cal!RecordOps((activeIndex + 1) % 2, image)
      /\ calPos' = 0 /\ calActive' = TRUE /\ pendingCommit' = TRUE
      /\ pendingIndex' = (activeIndex + 1) % 2
      /\ pendingGeneration' = (generation + 1) % Generations
      /\ UNCHANGED <<eeprom, writing, auxVars, headVars>>
  BY <1>3 DEF SaveProfile, Cal!Begin, Cal!deviceVars
<1>5. UNCHANGED <<auxQueue, auxPos, auxActive, activeIndex, generation>>
  BY <1>4 DEF auxVars, headVars
<1>6. /\ (activeIndex + 1) % 2 = 1 - activeIndex /\ 1 - activeIndex \in JournalRecord
  BY <1>2 DEF Typed, JournalRecord
<1>7. (generation + 1) % Generations \in Generation  BY <1>2, NextGeneration DEF Typed
<1>8. image \in ProfileImage  BY <1>3, <1>7 DEF ProfileImage
<1>9. pendingIndex' \in JournalRecord /\ pendingGeneration' \in Generation
  BY <1>4, <1>6, <1>7
<1>10. /\ calQueue' \in Seq(Cal!Op) /\ Len(calQueue') = BodyLen + 2
       /\ calQueue'[2].byte = image
  BY <1>4, <1>6, <1>8, SaveOps
<1>11. writing = {}
  <2>1. \A op \in writing : calActive \/ auxActive  BY <1>1, WritingOwner
  <2> QED BY <1>1, <2>1
<1>12. CalDone' = 0 /\ AuxDone' = auxPos  BY <1>4, <1>5, <1>11 DEF CalDone, AuxDone, CalWriting, AuxWriting
<1>13. BodyLen \in Nat \ {0}  BY CellAssumption
<1>14. JournalTypeOK'
  <2>1. TRUE \in BOOLEAN  OBVIOUS
  <2>2. calActive' \in BOOLEAN /\ pendingCommit' \in BOOLEAN  BY <1>4, <2>1
  <2>3. calPos' \in 0 .. Len(calQueue')  BY <1>4, <1>10, <1>13
  <2>4. Typed'  BY <1>2, <1>4, <1>5, <1>9, <1>10, <2>2, <2>3 DEF Typed
  <2> QED BY <2>4, TypedJournal
<1>15. /\ Stored' = Stored /\ RecordsTyped' /\ Consecutive' /\ CertificateComplete'
  BY <1>4, SameMemory DEF JournalInv
<1>16. SaveJob'
  <2>1. ~(CalDone' \in 1 .. BodyLen + 1) /\ CalDone' # BodyLen + 2
        /\ \A o \in 1 .. BodyLen : ~(CalDone' >= o + 1)
    BY <1>12, <1>13
  <2>2. calQueue' = Cal!RecordOps(pendingIndex', [seq |-> pendingGeneration', content |-> p])
    BY <1>3, <1>4
  <2>3. pendingIndex' = 1 - activeIndex'
        /\ pendingGeneration' = (generation' + 1) % Generations
    BY <1>4, <1>5, <1>6
  <2> QED BY <2>1, <2>2, <2>3 DEF SaveJob
<1>17. ~auxActive' /\ calActive' /\ pendingCommit' /\ writing' = {}
  BY <1>1, <1>4, <1>5, <1>11
<1>18. WritersInv'  BY <1>16, <1>17 DEF WritersInv, CalWriting
<1>19. HeadInv'
  <2>1. HeadIn(eeprom, activeIndex, generation)  BY <1>1, HeadReading DEF HeadInv
  <2>2. HeadIn(eeprom', activeIndex', generation')  BY <1>4, <1>5, <2>1
  <2>3. CalDone' # BodyLen + 2  BY <1>12, <1>13
  <2> QED BY <2>2, <2>3, HeadReading DEF HeadInv
<1>20. Saving'.content = p
  <2>1. Saving' = image  BY <1>10 DEF Saving
  <2> QED BY <1>3, <2>1
<1> QED BY <1>4, <1>14, <1>15, <1>17, <1>18, <1>19, <1>20 DEF JournalInv

LEMMA EraseKeepsJournal ==
  ASSUME JournalInv, power = "panel", power' = power, ~Busy,
         CertifiedGenerations = {}, EraseJournal
  PROVE  /\ JournalInv' /\ Stored' = Stored
         /\ calActive' /\ ~pendingCommit' /\ calQueue' = Cal!EraseOps(<<0, 1>>)
         /\ UNCHANGED <<eeprom, auxVars, headVars>>
<1>1. JournalTypeOK /\ WritersInv /\ HeadInv /\ ~calActive /\ ~auxActive /\ ~pendingCommit
  BY DEF JournalInv, Busy
<1>2. Typed  BY <1>1, TypedJournal
<1>3. /\ calQueue' = Cal!EraseOps(<<0, 1>>) /\ calPos' = 0 /\ calActive' = TRUE
      /\ UNCHANGED <<eeprom, writing, auxVars, headVars, pendingVars>>
  BY DEF EraseJournal, Cal!Begin, Cal!deviceVars
<1>4. UNCHANGED <<auxQueue, auxPos, auxActive, activeIndex, generation,
                  pendingIndex, pendingGeneration, pendingCommit>>
  BY <1>3 DEF auxVars, headVars, pendingVars
<1>5. writing = {}
  <2>1. \A op \in writing : calActive \/ auxActive  BY <1>1, WritingOwner
  <2> QED BY <1>1, <2>1
<1>6. CalDone' = 0  BY <1>3, <1>5 DEF CalDone, CalWriting
<1>7. calQueue' \in Seq(Cal!Op) /\ Len(calQueue') = 2  BY <1>3, JournalEraseOps
<1>8. JournalTypeOK'
  <2>1. TRUE \in BOOLEAN  OBVIOUS
  <2>2. calActive' \in BOOLEAN  BY <1>3, <2>1
  <2>3. calPos' \in 0 .. Len(calQueue')  BY <1>3, <1>7
  <2>4. Typed'  BY <1>2, <1>3, <1>4, <1>7, <2>2, <2>3 DEF Typed
  <2> QED BY <2>4, TypedJournal
<1>9. /\ Stored' = Stored /\ RecordsTyped' /\ Consecutive' /\ CertificateComplete'
      /\ CertifiedGenerations' = {}
  BY <1>3, SameMemory DEF JournalInv
<1>10. calActive' /\ ~auxActive' /\ ~pendingCommit' /\ writing' = {}
  BY <1>1, <1>3, <1>4, <1>5
<1>11. EraseJob'  BY <1>3, <1>6, <1>9, <1>10 DEF EraseJob
<1>12. WritersInv'  BY <1>10, <1>11 DEF WritersInv, CalWriting
<1>13. HeadInv'  BY <1>10 DEF HeadInv
<1> QED BY <1>3, <1>8, <1>9, <1>10, <1>12, <1>13 DEF JournalInv

LEMMA CertifyKeepsJournal ==
  ASSUME JournalInv, power = "panel", power' = power, ~Busy,
         NEW g \in Generation, NEW r \in Residual, SaveCertificate(g, r)
  PROVE  /\ JournalInv' /\ Stored' = Stored
         /\ auxActive' /\ auxQueue' = CertificateOps(g, r)
         /\ UNCHANGED <<eeprom, calVars, headVars, pendingVars>>
<1>1. JournalTypeOK /\ WritersInv /\ HeadInv /\ ~calActive /\ ~auxActive /\ ~pendingCommit
  BY DEF JournalInv, Busy
<1>2. Typed  BY <1>1, TypedJournal
<1>3. /\ auxQueue' = CertificateOps(g, r) /\ auxPos' = 0 /\ auxActive' = TRUE
      /\ UNCHANGED <<eeprom, writing, calVars, headVars, pendingVars>>
  BY DEF SaveCertificate, Aux!Begin, Aux!deviceVars
<1>4. UNCHANGED <<calQueue, calPos, calActive, activeIndex, generation,
                  pendingIndex, pendingGeneration, pendingCommit>>
  BY <1>3 DEF calVars, headVars, pendingVars
<1>5. writing = {}
  <2>1. \A op \in writing : calActive \/ auxActive  BY <1>1, WritingOwner
  <2> QED BY <1>1, <2>1
<1>6. AuxDone' = 0  BY <1>3, <1>5 DEF AuxDone, AuxWriting
<1>7. auxQueue' \in Seq(Cal!Op) /\ Len(auxQueue') = 3  BY <1>3, CertifyOps
<1>8. JournalTypeOK'
  <2>1. TRUE \in BOOLEAN  OBVIOUS
  <2>2. auxActive' \in BOOLEAN  BY <1>3, <2>1
  <2>3. auxPos' \in 0 .. Len(auxQueue')  BY <1>3, <1>7
  <2>4. Typed'  BY <1>2, <1>3, <1>4, <1>7, <2>2, <2>3 DEF Typed
  <2> QED BY <2>4, TypedJournal
<1>9. /\ Stored' = Stored /\ RecordsTyped' /\ Consecutive' /\ CertificateComplete'
  BY <1>3, SameMemory DEF JournalInv
<1>10. ~calActive' /\ auxActive' /\ ~pendingCommit' /\ writing' = {}
  BY <1>1, <1>3, <1>4, <1>5
<1>11. CertifyJob'
  <2>1. ~(AuxDone' >= 2) /\ AuxDone' # 3 /\ AuxDone' \notin {1, 2}  BY <1>6
  <2> QED BY <1>3, <1>10, <2>1 DEF CertifyJob
<1>12. WritersInv'  BY <1>10, <1>11 DEF WritersInv, CalWriting
<1>13. HeadInv'
  <2>1. HeadIn(eeprom, activeIndex, generation)  BY <1>1, HeadReading DEF HeadInv
  <2>2. HeadIn(eeprom', activeIndex', generation')  BY <1>3, <1>4, <2>1
  <2> QED BY <1>10, <2>2, HeadReading DEF HeadInv
<1> QED BY <1>3, <1>8, <1>9, <1>10, <1>12, <1>13 DEF JournalInv

(* The certificate may be queued for its erase while the journal is written. *)
LEMMA ClearKeepsJournal ==
  ASSUME JournalInv, power = "panel", power' = power, EraseCertificate
  PROVE  /\ JournalInv' /\ Stored' = Stored
         /\ auxActive' /\ auxQueue' = ClearOps
         /\ UNCHANGED <<eeprom, calVars, headVars, pendingVars>>
<1>1. JournalTypeOK /\ WritersInv /\ HeadInv /\ ~auxActive
  BY DEF JournalInv, EraseCertificate, Aux!Begin
<1>2. Typed  BY <1>1, TypedJournal
<1>3. /\ auxQueue' = ClearOps /\ auxPos' = 0 /\ auxActive' = TRUE
      /\ UNCHANGED <<eeprom, writing, calVars, headVars, pendingVars>>
  BY DEF EraseCertificate, Aux!Begin, Aux!deviceVars, ClearOps
<1>4. UNCHANGED <<calQueue, calPos, calActive, activeIndex, generation,
                  pendingIndex, pendingGeneration, pendingCommit>>
  BY <1>3 DEF calVars, headVars, pendingVars
<1>5. ~AuxWriting /\ ~AuxWriting'
  <2>1. ~AuxWriting  BY <1>1, WritingOwner DEF AuxWriting
  <2> QED BY <1>3, <2>1 DEF AuxWriting
<1>6. AuxDone' = 0  BY <1>3, <1>5 DEF AuxDone
<1>7. auxQueue' \in Seq(Cal!Op) /\ Len(auxQueue') = 2  BY <1>3, ClearOpsType
<1>8. JournalTypeOK'
  <2>1. TRUE \in BOOLEAN  OBVIOUS
  <2>2. auxActive' \in BOOLEAN  BY <1>3, <2>1
  <2>3. auxPos' \in 0 .. Len(auxQueue')  BY <1>3, <1>7
  <2>4. Typed'  BY <1>2, <1>3, <1>4, <1>7, <2>2, <2>3 DEF Typed
  <2> QED BY <2>4, TypedJournal
<1>9. /\ ValidRecords' = ValidRecords /\ Latest' = Latest
      /\ CertifiedGenerations' = CertifiedGenerations
      /\ Stored' = Stored /\ RecordsTyped' /\ Consecutive' /\ CertificateComplete'
  BY <1>3, SameMemory DEF JournalInv
<1>10. CalDone' = CalDone /\ Saving' = Saving  BY <1>3, <1>4 DEF CalDone, CalWriting, Saving
<1>11. ClearJob'
  <2>1. ~(AuxDone' >= 1)  BY <1>6
  <2> QED BY <1>3, <2>1 DEF ClearJob
<1>12. (SaveJob' <=> SaveJob) /\ (EraseJob => EraseJob')
  BY <1>3, <1>4, <1>9, <1>10 DEF SaveJob, EraseJob
<1>13. \A op \in writing' :
         ~OfCertificate(op) /\ calActive' /\ calPos' >= 1 /\ op = calQueue'[calPos']
  BY <1>1, <1>3, <1>4, <1>5 DEF WritersInv, AuxWriting
<1>14. WritersInv'
  BY <1>1, <1>3, <1>4, <1>5, <1>11, <1>12, <1>13 DEF WritersInv
<1>15. HeadInv'
  <2>1. HeadIs(activeIndex, generation)' <=> HeadIs(activeIndex, generation)
    BY <1>3, <1>4, HeadReading
  <2>2. Saved' <=> Saved
    <3>1. GenerationIn(pendingIndex)' = GenerationIn(pendingIndex)
      BY <1>3, <1>4 DEF GenerationIn
    <3> QED BY <1>4, <1>9, <1>10, <3>1 DEF Saved
  <2> QED BY <1>1, <1>4, <1>10, <2>1, <2>2 DEF HeadInv
<1> QED BY <1>3, <1>8, <1>9, <1>14, <1>15 DEF JournalInv

LEMMA ServiceKeepsJournal ==
  ASSUME JournalInv, power = "panel", power' = power, Service
  PROVE  /\ JournalInv' /\ UNCHANGED <<eeprom, pendingIndex, pendingGeneration>>
         /\ (calActive' => calActive) /\ (auxActive' => auxActive)
         /\ Busy
<1>1. JournalTypeOK  BY DEF JournalInv
<1>2. CASE Cal!Submit /\ ObserveWriter(calActive') /\ UNCHANGED auxVars
  BY <1>2, CalSubmitKeepsJournal DEF auxVars, pendingVars, Busy
<1>3. CASE Cal!Finish /\ ObserveWriter(calActive') /\ UNCHANGED auxVars
  <2>1. calActive /\ ~calActive' /\ UNCHANGED eeprom  BY <1>1, <1>3, Finishes
  <2>2. UNCHANGED <<pendingIndex, pendingGeneration>>
    BY <1>3 DEF ObserveWriter, pendingVars
  <2> QED BY <1>3, <2>1, <2>2, CalFinishKeepsJournal DEF auxVars, Busy
<1>4. CASE Aux!Submit /\ UNCHANGED <<calVars, headVars, pendingVars>>
  BY <1>4, AuxSubmitKeepsJournal DEF calVars, pendingVars, Busy
<1>5. CASE Aux!Finish /\ UNCHANGED <<calVars, headVars, pendingVars>>
  BY <1>1, <1>5, Finishes, AuxFinishKeepsJournal DEF calVars, pendingVars, Busy
<1> QED BY <1>2, <1>3, <1>4, <1>5 DEF Service

-----------------------------------------------------------------------------
(* What is ahead of a workflow stays ahead of it, or is done *)

(* A certificate job that ends leaves its marker; any other step of a writer
   leaves the certificate's queue alone. *)
CertificateStep ==
  /\ \A g \in Generation :
       (auxActive /\ ~auxActive' /\ \E r \in Residual : auxQueue = CertificateOps(g, r))
         => CertificateMarker' = MarkerFor(g)
  /\ auxActive /\ ~auxActive' /\ auxQueue = ClearOps => CertifiedGenerations' = {}
  /\ auxActive' => auxActive /\ auxQueue' = auxQueue
  /\ ~auxActive => /\ CertificateMarker' = CertificateMarker
                   /\ CertifiedGenerations' = CertifiedGenerations

LEMMA CertificateAhead ==
  ASSUME CertificateStep, NEW g \in Generation
  PROVE  /\ CertifyAhead(g) =>
              IF auxActive' THEN \E r \in Residual : auxQueue' = CertificateOps(g, r)
                            ELSE CertificateMarker' = MarkerFor(g)
         /\ ClearAhead => ClearAhead'
BY DEF CertificateStep, CertifyAhead, ClearAhead

(* The same for a generation that may change under the step. *)
LEMMA CertifyAheadPrimed ==
  /\ CertifyKept' <=>
       IF auxActive' THEN \E r \in Residual : auxQueue' = CertificateOps(LatestGeneration', r)
                     ELSE CertificateMarker' = MarkerFor(LatestGeneration')
  /\ CertifyReady' <=>
       /\ ~calActive'
       /\ IF auxActive'
            THEN \E r \in Residual : auxQueue' = CertificateOps((generation' + 1) % Generations, r)
            ELSE CertificateMarker' = MarkerFor((generation' + 1) % Generations)
BY DEF CertifyKept, CertifyReady, CertifyAhead

LEMMA ProgramKeepsAhead ==
  ASSUME JournalInv, ByteProgrammed, UNCHANGED <<power, running>>
  PROVE  /\ SaveKept => SaveKept'
         /\ CertifyKept => CertifyKept'
         /\ CertifyReady => CertifyReady'
         /\ ClearAhead => ClearAhead'
         /\ EraseKept => EraseKept'
<1>1. /\ ~auxActive => /\ CertifiedGenerations' = CertifiedGenerations
                       /\ CertificateMarker' = CertificateMarker
      /\ ~calActive => Stored' = Stored /\ ValidRecords' = ValidRecords /\ auxActive
  BY ProgramKeepsJournal
<1>2. UNCHANGED <<calQueue, calActive, auxQueue, auxActive, generation, pendingGeneration,
                  pendingCommit>>
  BY DEF ByteProgrammed, Cal!Programmed, auxVars, headVars, pendingVars
<1>3. Typed /\ WritersInv  BY TypedJournal DEF JournalInv
<1>4. CertificateStep  BY <1>1, <1>2 DEF CertificateStep
<1>5. LatestGeneration \in Generation /\ LatestGeneration' = LatestGeneration
      /\ (generation + 1) % Generations \in Generation
  BY <1>2, <1>3, NextGeneration DEF LatestGeneration, Typed
<1>6. /\ CertifyKept => CertifyKept'
      /\ CertifyReady => CertifyReady'
  BY <1>2, <1>4, <1>5, CertificateAhead, CertifyAheadPrimed DEF CertifyKept, CertifyReady
<1>7. ClearAhead => ClearAhead'  BY <1>4, <1>5, CertificateAhead
<1>8. SaveKept => SaveKept'
  <2>1. Saving' = Saving  BY <1>2 DEF Saving
  <2> QED BY <1>1, <1>2, <2>1 DEF SaveKept, SaveAhead
<1>9. EraseKept => EraseKept'  BY <1>1, <1>2 DEF EraseKept, EraseAhead
<1> QED BY <1>6, <1>7, <1>8, <1>9

LEMMA ServiceKeepsAhead ==
  ASSUME JournalInv, power = "panel", UNCHANGED <<power, running>>, Service
  PROVE  /\ SaveKept => SaveKept'
         /\ CertifyKept => CertifyKept'
         /\ CertifyReady => CertifyReady'
         /\ ClearAhead => ClearAhead'
         /\ EraseKept => EraseKept'
<1>1. Typed /\ WritersInv /\ JournalTypeOK  BY TypedJournal DEF JournalInv
<1>2. /\ UNCHANGED <<eeprom, pendingGeneration>>
      /\ (calActive' => calActive) /\ (auxActive' => auxActive)
  BY ServiceKeepsJournal
<1>3. /\ ValidRecords' = ValidRecords /\ Stored' = Stored
      /\ CertifiedGenerations' = CertifiedGenerations
      /\ CertificateMarker' = CertificateMarker
  BY <1>2, SameMemory
<1>4. LatestGeneration \in Generation /\ (generation + 1) % Generations \in Generation
  BY <1>1, NextGeneration DEF LatestGeneration, Typed
<1>5. CASE (Cal!Submit \/ Cal!Finish) /\ ObserveWriter(calActive') /\ UNCHANGED auxVars
  <2>1. UNCHANGED <<auxQueue, auxActive>>  BY <1>5 DEF auxVars
  <2>2. calActive /\ calQueue' = calQueue
    BY <1>5 DEF Cal!Submit, Cal!Finish
  <2>3. CertificateStep  BY <1>3, <2>1 DEF CertificateStep
  <2>4. LatestGeneration' = LatestGeneration
    <3>1. pendingCommit' => pendingCommit  BY <1>5 DEF ObserveWriter, pendingVars
    <3>2. pendingCommit /\ ~pendingCommit' => generation' = pendingGeneration
      BY <1>5 DEF ObserveWriter, pendingVars
    <3>3. ~pendingCommit => generation' = generation
      BY <1>5 DEF ObserveWriter, headVars
    <3> QED BY <1>2, <3>1, <3>2, <3>3 DEF LatestGeneration
  <2>5. CertifyKept => CertifyKept'
    BY <1>4, <2>3, <2>4, CertificateAhead, CertifyAheadPrimed DEF CertifyKept
  <2>6. CertifyReady => CertifyReady'  BY <2>2 DEF CertifyReady
  <2>7. ClearAhead => ClearAhead'  BY <1>4, <2>3, CertificateAhead
  <2>8. Saving' = Saving  BY <2>2 DEF Saving
  <2>9. CASE Cal!Submit
    <3>1. calActive' /\ UNCHANGED pendingCommit
      BY <1>5, <2>9, CalSubmitKeepsJournal DEF pendingVars
    <3>2. SaveKept => SaveKept'
      BY <1>3, <2>2, <2>8, <3>1 DEF SaveKept, SaveAhead
    <3>3. EraseKept => EraseKept'  BY <2>2, <3>1 DEF EraseKept, EraseAhead
    <3> QED BY <2>5, <2>6, <2>7, <3>2, <3>3
  <2>10. CASE Cal!Finish
    <3>1. ~calActive'  BY <2>10 DEF Cal!Finish
    <3>2. IF pendingCommit THEN Stored = {Saving.content} /\ ~pendingCommit'
                           ELSE ValidRecords = {} /\ ~pendingCommit'
      BY <1>5, <2>10, CalFinishKeepsJournal
    <3>3. SaveKept => SaveKept'
      BY <1>3, <2>2, <3>1, <3>2 DEF SaveKept, SaveAhead
    <3>4. EraseKept => EraseKept'  BY <1>3, <3>1, <3>2 DEF EraseKept, EraseAhead
    <3> QED BY <2>5, <2>6, <2>7, <3>3, <3>4
  <2> QED BY <1>5, <2>9, <2>10
<1>6. CASE (Aux!Submit \/ Aux!Finish) /\ UNCHANGED <<calVars, headVars, pendingVars>>
  <2>1. UNCHANGED <<calQueue, calActive, generation, pendingGeneration, pendingCommit>>
    BY <1>6 DEF calVars, headVars, pendingVars
  <2>2. CertificateStep
    <3>1. CASE Aux!Submit
      <4>1. auxActive /\ auxActive' /\ auxQueue' = auxQueue  BY <3>1 DEF Aux!Submit
      <4> QED BY <4>1 DEF CertificateStep
    <3>2. CASE Aux!Finish
      <4>1. auxActive /\ ~auxActive'  BY <3>2 DEF Aux!Finish
      <4>2. /\ \A g \in Generation, r \in Residual :
                 auxQueue = CertificateOps(g, r) => CertificateMarker = MarkerFor(g)
            /\ auxQueue = ClearOps => CertifiedGenerations = {}
        BY <1>1, <3>2, AuxFinishes
      <4> QED BY <1>3, <4>1, <4>2 DEF CertificateStep
    <3> QED BY <1>6, <3>1, <3>2
  <2>3. LatestGeneration' = LatestGeneration  BY <2>1 DEF LatestGeneration
  <2>4. CertifyKept => CertifyKept'
    BY <1>4, <2>2, <2>3, CertificateAhead, CertifyAheadPrimed DEF CertifyKept
  <2>5. CertifyReady => CertifyReady'
    BY <1>4, <2>1, <2>2, CertificateAhead, CertifyAheadPrimed DEF CertifyReady
  <2>6. ClearAhead => ClearAhead'  BY <1>4, <2>2, CertificateAhead
  <2>7. SaveKept => SaveKept'
    <3>1. Saving' = Saving  BY <2>1 DEF Saving
    <3> QED BY <1>3, <2>1, <3>1 DEF SaveKept, SaveAhead
  <2>8. EraseKept => EraseKept'  BY <1>3, <2>1 DEF EraseKept, EraseAhead
  <2> QED BY <2>4, <2>5, <2>6, <2>7, <2>8
<1> QED BY <1>5, <1>6 DEF Service

-----------------------------------------------------------------------------
(* The steps of the workflows: what comes next at each position, and what is
   left after it *)

StepName == {"adc", "dac", "verify", "adopt", "wait", "certifyNext", "commit", "match"}

(* Five steps and the save behind them: the two longest workflows. *)
LEMMA TailOfSave ==
  ASSUME NEW a \in StepName, NEW b \in StepName, NEW c \in StepName,
         NEW d \in StepName, NEW e \in StepName
  PROVE  /\ Head(<<a, b, c, d, e>> \o SaveWithQualification) = a
         /\ Tail(<<a, b, c, d, e>> \o SaveWithQualification) =
              <<b, c, d, e, "wait", "certifyNext", "wait", "commit", "wait", "match">>
<1> DEFINE joined == <<a, b, c, d, e>> \o SaveWithQualification
           whole  == <<a, b, c, d, e, "wait", "certifyNext", "wait", "commit", "wait", "match">>
<1>1. /\ Len(joined) = 11
      /\ joined[1] = a /\ joined[2] = b /\ joined[3] = c /\ joined[4] = d /\ joined[5] = e
      /\ joined[6] = "wait" /\ joined[7] = "certifyNext" /\ joined[8] = "wait"
      /\ joined[9] = "commit" /\ joined[10] = "wait" /\ joined[11] = "match"
  BY DEF SaveWithQualification
<1>2. /\ Len(whole) = 11
      /\ whole[1] = a /\ whole[2] = b /\ whole[3] = c /\ whole[4] = d /\ whole[5] = e
      /\ whole[6] = "wait" /\ whole[7] = "certifyNext" /\ whole[8] = "wait"
      /\ whole[9] = "commit" /\ whole[10] = "wait" /\ whole[11] = "match"
  OBVIOUS
<1>3. \A i \in 1 .. 11 : joined[i] = whole[i]
  <2>1. \A i \in 1 .. 11 : i = 1 \/ i = 2 \/ i = 3 \/ i = 4 \/ i = 5 \/ i = 6 \/ i = 7
                           \/ i = 8 \/ i = 9 \/ i = 10 \/ i = 11
    OBVIOUS
  <2> HIDE DEF joined, whole
  <2> QED BY <1>1, <1>2, <2>1
<1>4. joined \in Seq(StepName)
  <2>1. SaveWithQualification \in Seq(StepName)  BY DEF SaveWithQualification, StepName
  <2>2. <<a, b, c, d, e>> \in Seq(StepName)  OBVIOUS
  <2> QED BY <2>1, <2>2, ConcatProperties
<1>5. whole \in Seq(StepName)  BY DEF StepName
<1>6. joined = whole
  <2> HIDE DEF joined, whole
  <2> QED BY <1>1, <1>2, <1>3, <1>4, <1>5, SeqEqual
<1>7. Head(whole) = a  OBVIOUS
<1>8. Tail(whole) = <<b, c, d, e, "wait", "certifyNext", "wait", "commit", "wait", "match">>
  BY SMTT(60)
<1> QED BY <1>6, <1>7, <1>8

LEMMA Heads ==
  /\ Head(FullCalibration) = "adc" /\ Head(Full1) = "adc" /\ Head(AdcOnly) = "adc"
  /\ Head(Adc1) = "adc"
  /\ Head(Full2) = "dac" /\ Head(Full3) = "dac"
  /\ Head(Full4) = "verify" /\ Head(Ver2) = "verify"
  /\ Head(Full5) = "wait" /\ Head(Full7) = "wait" /\ Head(Kept1) = "wait"
  /\ Head(Adc2) = "wait" /\ Head(Adc4) = "wait" /\ Head(DacOnly) = "wait"
  /\ Head(Verification) = "wait" /\ Head(Ver3) = "wait" /\ Head(Erase2) = "wait"
  /\ Head(Erase4) = "wait"
  /\ Head(Full6) = "certifyNext"
  /\ Head(Full8) = "commit" /\ Head(Adc3) = "commit"
  /\ Head(Kept2) = "match"
  /\ Head(Adc5) = "pass"
  /\ Head(Dac1) = "adopt"
  /\ Head(Ver1) = "load"
  /\ Head(Ver4) = "certifyCurrent"
  /\ Head(OutputTest) = "try"
  /\ Head(Out1) = "measure"
  /\ Head(EraseAll) = "confirm"
  /\ Head(Erase1) = "eraseCertificate"
  /\ Head(Erase3) = "eraseJournal"
  /\ Head(Erase5) = "reset"
<1>1. Head(FullCalibration) = "adc" /\ Head(DacOnly) = "wait"
  <2>1. /\ "adc" \in StepName /\ "dac" \in StepName /\ "verify" \in StepName
        /\ "wait" \in StepName /\ "adopt" \in StepName
    BY DEF StepName
  <2>2. Head(FullCalibration) = "adc"
    BY <2>1, TailOfSave DEF FullCalibration
  <2>3. Head(DacOnly) = "wait"
    BY <2>1, TailOfSave DEF DacOnly
  <2> QED BY <2>2, <2>3
<1>2. /\ Head(Full1) = "adc" /\ Head(Full2) = "dac" /\ Head(Full3) = "dac"
      /\ Head(Full4) = "verify" /\ Head(Full5) = "wait" /\ Head(Full6) = "certifyNext"
      /\ Head(Full7) = "wait" /\ Head(Full8) = "commit" /\ Head(Kept1) = "wait"
      /\ Head(Kept2) = "match"
  BY DEF Full1, Full2, Full3, Full4, Full5, Full6, Full7, Full8, Kept1, Kept2
<1>3. /\ Head(AdcOnly) = "adc" /\ Head(Adc1) = "adc" /\ Head(Adc2) = "wait"
      /\ Head(Adc3) = "commit" /\ Head(Adc4) = "wait" /\ Head(Adc5) = "pass"
      /\ Head(Dac1) = "adopt"
  BY DEF AdcOnly, Adc1, Adc2, Adc3, Adc4, Adc5, Dac1
<1>4. /\ Head(Verification) = "wait" /\ Head(Ver1) = "load" /\ Head(Ver2) = "verify"
      /\ Head(Ver3) = "wait" /\ Head(Ver4) = "certifyCurrent" /\ Head(OutputTest) = "try"
      /\ Head(Out1) = "measure"
  BY DEF Verification, Ver1, Ver2, Ver3, Ver4, OutputTest, Out1
<1>5. /\ Head(EraseAll) = "confirm" /\ Head(Erase1) = "eraseCertificate"
      /\ Head(Erase2) = "wait" /\ Head(Erase3) = "eraseJournal" /\ Head(Erase4) = "wait"
      /\ Head(Erase5) = "reset"
  BY DEF EraseAll, Erase1, Erase2, Erase3, Erase4, Erase5
<1> QED BY <1>1, <1>2, <1>3, <1>4, <1>5

LEMMA Tails ==
  /\ Tail(FullCalibration) = Full1 /\ Tail(Full1) = Full2 /\ Tail(Full2) = Full3
  /\ Tail(Full3) = Full4 /\ Tail(Full4) = Full5 /\ Tail(Full5) = Full6
  /\ Tail(Full6) = Full7 /\ Tail(Full7) = Full8 /\ Tail(Full8) = Kept1
  /\ Tail(Kept1) = Kept2 /\ Tail(Kept2) = <<>> /\ Tail(AdcOnly) = Adc1
  /\ Tail(Adc1) = Adc2 /\ Tail(Adc2) = Adc3 /\ Tail(Adc3) = Adc4 /\ Tail(Adc4) = Adc5
  /\ Tail(Adc5) = <<>> /\ Tail(DacOnly) = Dac1 /\ Tail(Dac1) = Full2
  /\ Tail(Verification) = Ver1 /\ Tail(Ver1) = Ver2 /\ Tail(Ver2) = Ver3
  /\ Tail(Ver3) = Ver4 /\ Tail(Ver4) = Kept1 /\ Tail(OutputTest) = Out1
  /\ Tail(Out1) = <<>> /\ Tail(EraseAll) = Erase1 /\ Tail(Erase1) = Erase2
  /\ Tail(Erase2) = Erase3 /\ Tail(Erase3) = Erase4 /\ Tail(Erase4) = Erase5
  /\ Tail(Erase5) = <<>>
<1>1. Tail(FullCalibration) = Full1 /\ Tail(DacOnly) = Dac1
  <2>1. /\ "adc" \in StepName /\ "dac" \in StepName /\ "verify" \in StepName
        /\ "wait" \in StepName /\ "adopt" \in StepName
    BY DEF StepName
  <2>2. Tail(FullCalibration) = Full1
    BY <2>1, TailOfSave DEF FullCalibration, Full1
  <2>3. Tail(DacOnly) = Dac1
    BY <2>1, TailOfSave DEF DacOnly, Dac1
  <2> QED BY <2>2, <2>3
<1>2. Tail(Full1) = Full2  BY DEF Full1, Full2
<1>3. Tail(Full2) = Full3  BY DEF Full2, Full3
<1>4. Tail(Full3) = Full4  BY DEF Full3, Full4
<1>5. Tail(Full4) = Full5  BY DEF Full4, Full5
<1>6. Tail(Full5) = Full6  BY DEF Full5, Full6
<1>7. Tail(Full6) = Full7  BY DEF Full6, Full7
<1>8. Tail(Full7) = Full8  BY DEF Full7, Full8
<1>9. Tail(Full8) = Kept1  BY DEF Full8, Kept1
<1>10. Tail(Kept1) = Kept2  BY DEF Kept1, Kept2
<1>11. Tail(Kept2) = <<>>  BY DEF Kept2
<1>12. /\ Tail(AdcOnly) = Adc1 /\ Tail(Adc1) = Adc2 /\ Tail(Adc2) = Adc3
      /\ Tail(Adc3) = Adc4 /\ Tail(Adc4) = Adc5 /\ Tail(Adc5) = <<>>
      /\ Tail(Dac1) = Full2
  BY DEF AdcOnly, Adc1, Adc2, Adc3, Adc4, Adc5, Dac1, Full2
<1>13. /\ Tail(Verification) = Ver1 /\ Tail(Ver1) = Ver2 /\ Tail(Ver2) = Ver3
      /\ Tail(Ver3) = Ver4 /\ Tail(Ver4) = Kept1 /\ Tail(OutputTest) = Out1
      /\ Tail(Out1) = <<>>
  BY DEF Verification, Ver1, Ver2, Ver3, Ver4, OutputTest, Out1, Kept1
<1>14. /\ Tail(EraseAll) = Erase1 /\ Tail(Erase1) = Erase2 /\ Tail(Erase2) = Erase3
      /\ Tail(Erase3) = Erase4 /\ Tail(Erase4) = Erase5 /\ Tail(Erase5) = <<>>
  BY DEF EraseAll, Erase1, Erase2, Erase3, Erase4, Erase5
<1> QED BY <1>1, <1>2, <1>3, <1>4, <1>5, <1>6, <1>7, <1>8, <1>9, <1>10, <1>11, <1>12,
         <1>13, <1>14

-----------------------------------------------------------------------------
(* Where a workflow stands before each of its steps *)

LEMMA Unfinished ==
  /\ FullCalibration # <<>> /\ Full1 # <<>> /\ Full2 # <<>> /\ Full3 # <<>> /\ Full4 # <<>>
  /\ Full5 # <<>> /\ Full6 # <<>> /\ Full7 # <<>> /\ Full8 # <<>> /\ Kept1 # <<>> /\ Kept2 # <<>>
  /\ AdcOnly # <<>> /\ Adc1 # <<>> /\ Adc2 # <<>> /\ Adc3 # <<>> /\ Adc4 # <<>> /\ Adc5 # <<>>
  /\ DacOnly # <<>> /\ Dac1 # <<>>
  /\ Verification # <<>> /\ Ver1 # <<>> /\ Ver2 # <<>> /\ Ver3 # <<>> /\ Ver4 # <<>>
  /\ OutputTest # <<>> /\ Out1 # <<>>
  /\ EraseAll # <<>> /\ Erase1 # <<>> /\ Erase2 # <<>> /\ Erase3 # <<>> /\ Erase4 # <<>>
  /\ Erase5 # <<>>
<1>1. FullCalibration # <<>> /\ DacOnly # <<>>
  BY DEF FullCalibration, DacOnly, SaveWithQualification
<1>2. /\ Full1 # <<>> /\ Full2 # <<>> /\ Full3 # <<>> /\ Full4 # <<>> /\ Full5 # <<>>
      /\ Full6 # <<>> /\ Full7 # <<>> /\ Full8 # <<>> /\ Kept1 # <<>> /\ Kept2 # <<>>
  BY DEF Full1, Full2, Full3, Full4, Full5, Full6, Full7, Full8, Kept1, Kept2
<1>3. /\ AdcOnly # <<>> /\ Adc1 # <<>> /\ Adc2 # <<>> /\ Adc3 # <<>> /\ Adc4 # <<>>
      /\ Adc5 # <<>> /\ Dac1 # <<>>
  BY DEF AdcOnly, Adc1, Adc2, Adc3, Adc4, Adc5, Dac1
<1>4. /\ Verification # <<>> /\ Ver1 # <<>> /\ Ver2 # <<>> /\ Ver3 # <<>> /\ Ver4 # <<>>
      /\ OutputTest # <<>> /\ Out1 # <<>>
  BY DEF Verification, Ver1, Ver2, Ver3, Ver4, OutputTest, Out1
<1>5. /\ EraseAll # <<>> /\ Erase1 # <<>> /\ Erase2 # <<>> /\ Erase3 # <<>>
      /\ Erase4 # <<>> /\ Erase5 # <<>>
  BY DEF EraseAll, Erase1, Erase2, Erase3, Erase4, Erase5
<1> QED BY <1>1, <1>2, <1>3, <1>4, <1>5

LEMMA AtRest ==
  ASSUME FlowInv, flow = <<>>
  PROVE  Resting
BY Unfinished DEF FlowInv, Choosing, Measuring, Loading, ReadyToSave, Certifying, Committing,
   Keeping, Kept, PlainKeeping, PlainKept, Verifying, Clearing, Cleared, Wiping, Wiped

LEMMA Underway ==
  ASSUME FlowInv, NEW step, At(step)
  PROVE  flow # <<>> /\ power = "panel" /\ (steady => ~cancelled) /\ ~Resting
BY DEF At, FlowInv, Resting

(* The places of the steps that measure. *)
LEMMA AtMeasurement ==
  ASSUME FlowInv
  PROVE  /\ At("adc") => Measuring /\ flow \in {FullCalibration, Full1, AdcOnly, Adc1}
         /\ At("dac") => Measuring /\ flow \in {Full2, Full3}
         /\ At("verify") => (Measuring /\ flow = Full4) \/ (Verifying /\ flow = Ver2)
         /\ At("try") => Choosing /\ flow = OutputTest
         /\ At("measure") => Measuring /\ flow = Out1
<1>1. \A step : At(step) => Head(flow) = step /\ ~Resting  BY DEF At, Resting
<1> USE Heads, <1>1 DEF FlowInv, Choosing, Measuring, Loading, ReadyToSave, Certifying,
      Committing, Keeping, Kept, PlainKeeping, PlainKept, Verifying, Clearing, Cleared,
      Wiping, Wiped
<1>2. At("adc") => Measuring /\ flow \in {FullCalibration, Full1, AdcOnly, Adc1}  OBVIOUS
<1>3. At("dac") => Measuring /\ flow \in {Full2, Full3}  OBVIOUS
<1>4. At("verify") => (Measuring /\ flow = Full4) \/ (Verifying /\ flow = Ver2)  OBVIOUS
<1>5. At("try") => Choosing /\ flow = OutputTest  OBVIOUS
<1>6. At("measure") => Measuring /\ flow = Out1  OBVIOUS
<1> QED BY <1>2, <1>3, <1>4, <1>5, <1>6

(* The places of the steps that read or write the EEPROM. *)
LEMMA AtPersistence ==
  ASSUME FlowInv
  PROVE  /\ At("wait") =>
              \/ Choosing /\ flow \in {DacOnly, Verification}
              \/ Measuring /\ flow \in {Full5, Adc2}
              \/ Verifying /\ flow = Ver3
              \/ Certifying \/ Keeping \/ PlainKeeping \/ Clearing \/ Wiping
         /\ At("load") => Loading /\ flow = Ver1
         /\ At("adopt") => Loading /\ flow = Dac1
         /\ At("certifyNext") => ReadyToSave /\ flow = Full6
         /\ At("certifyCurrent") => Verifying /\ flow = Ver4
         /\ At("commit") => (ReadyToSave /\ flow = Adc3) \/ Committing
         /\ At("match") => Kept
         /\ At("pass") => PlainKept
<1>1. \A step : At(step) => Head(flow) = step /\ ~Resting  BY DEF At, Resting
<1> USE Heads, <1>1 DEF FlowInv, Choosing, Measuring, Loading, ReadyToSave, Certifying,
      Committing, Keeping, Kept, PlainKeeping, PlainKept, Verifying, Clearing, Cleared,
      Wiping, Wiped
<1>2. At("wait") => \/ Choosing /\ flow \in {DacOnly, Verification}
                    \/ Measuring /\ flow \in {Full5, Adc2}
                    \/ Verifying /\ flow = Ver3
                    \/ Certifying \/ Keeping \/ PlainKeeping \/ Clearing \/ Wiping
  OBVIOUS
<1>3. At("load") => Loading /\ flow = Ver1  OBVIOUS
<1>4. At("adopt") => Loading /\ flow = Dac1  OBVIOUS
<1>5. At("certifyNext") => ReadyToSave /\ flow = Full6  OBVIOUS
<1>6. At("certifyCurrent") => Verifying /\ flow = Ver4  OBVIOUS
<1>7. At("commit") => (ReadyToSave /\ flow = Adc3) \/ Committing  OBVIOUS
<1>8. (At("match") => Kept) /\ (At("pass") => PlainKept)  OBVIOUS
<1> QED BY <1>2, <1>3, <1>4, <1>5, <1>6, <1>7, <1>8

LEMMA AtErase ==
  ASSUME FlowInv
  PROVE  /\ At("confirm") => Choosing /\ flow = EraseAll
         /\ At("eraseCertificate") => Choosing /\ flow = Erase1
         /\ At("eraseJournal") => Cleared
         /\ At("reset") => Wiped
<1>1. \A step : At(step) => Head(flow) = step /\ ~Resting  BY DEF At, Resting
<1> USE Heads, <1>1 DEF FlowInv, Choosing, Measuring, Loading, ReadyToSave, Certifying,
      Committing, Keeping, Kept, PlainKeeping, PlainKept, Verifying, Clearing, Cleared,
      Wiping, Wiped
<1>2. At("confirm") => Choosing /\ flow = EraseAll  OBVIOUS
<1>3. At("eraseCertificate") => Choosing /\ flow = Erase1  OBVIOUS
<1>4. (At("eraseJournal") => Cleared) /\ (At("reset") => Wiped)  OBVIOUS
<1> QED BY <1>2, <1>3, <1>4

(* A step that leaves the writers and the EEPROM alone. *)
LEMMA Unmoved ==
  ASSUME UNCHANGED journalVars
  PROVE  /\ UNCHANGED <<eeprom, calActive, auxActive, pendingCommit, generation>>
         /\ Stored' = Stored /\ ValidRecords' = ValidRecords
         /\ CertifiedGenerations' = CertifiedGenerations
         /\ Busy' <=> Busy
         /\ running' = running => (SaveKept' <=> SaveKept)
         /\ CertifyKept' <=> CertifyKept
         /\ CertifyReady' <=> CertifyReady
         /\ ClearAhead' <=> ClearAhead
         /\ EraseKept' <=> EraseKept
<1>1. UNCHANGED <<eeprom, writing, calQueue, calPos, calActive, auxQueue, auxPos, auxActive,
                  activeIndex, generation, pendingIndex, pendingGeneration, pendingCommit>>
  BY DEF journalVars, deviceVars, calVars, auxVars, headVars, pendingVars
<1>2. /\ Stored' = Stored /\ ValidRecords' = ValidRecords
      /\ CertifiedGenerations' = CertifiedGenerations
      /\ CertificateMarker' = CertificateMarker
  BY <1>1, SameMemory
<1>3. Saving' = Saving /\ LatestGeneration' = LatestGeneration
  BY <1>1 DEF Saving, LatestGeneration
<1>4. running' = running => (SaveKept' <=> SaveKept)
  BY <1>1, <1>2, <1>3 DEF SaveKept, SaveAhead
<1>5. (CertifyKept' <=> CertifyKept) /\ (CertifyReady' <=> CertifyReady)
  BY <1>1, <1>2, <1>3, CertifyAheadPrimed DEF CertifyKept, CertifyReady, CertifyAhead
<1>6. (ClearAhead' <=> ClearAhead) /\ (EraseKept' <=> EraseKept)
  BY <1>1, <1>2 DEF ClearAhead, EraseKept, EraseAhead
<1> QED BY <1>1, <1>2, <1>4, <1>5, <1>6 DEF Busy

-----------------------------------------------------------------------------
(* Each step leaves the workflow at a place *)

LEMMA StartFlow ==
  ASSUME FlowInv, NEW w \in Workflow, Start(w), UNCHANGED steady
  PROVE  FlowInv'
<1>1. /\ power = "panel" /\ flow = <<>> /\ flow' = w /\ previous' = running /\ ~cancelled'
      /\ UNCHANGED <<journalVars, power, running, steady>>
  BY DEF Start
<1>2. /\ UNCHANGED <<calActive, auxActive>> /\ Stored' = Stored  BY <1>1, Unmoved
<1>3. steady => ~calActive /\ ~auxActive /\ IsStored(running)  BY <1>1, AtRest DEF Resting
<1>4. steady => ~calActive' /\ ~auxActive' /\ IsStored(previous)' /\ IsStored(running)'
  BY <1>1, <1>2, <1>3 DEF IsStored
<1>5. CASE w \in {FullCalibration, AdcOnly}
  <2>1. Measuring'  BY <1>1, <1>4, <1>5 DEF Measuring
  <2> QED BY <1>1, <2>1 DEF FlowInv
<1>6. CASE w \in {DacOnly, Verification, OutputTest, EraseAll}
  <2>1. Choosing'  BY <1>1, <1>4, <1>6 DEF Choosing
  <2> QED BY <1>1, <2>1 DEF FlowInv
<1> QED BY <1>5, <1>6 DEF Workflow

LEMMA CalibrateFlow ==
  ASSUME FlowInv, NEW p \in Profile, Calibrate(p), UNCHANGED steady
  PROVE  FlowInv'
<1>1. /\ At("adc") \/ At("dac")
      /\ flow' = Tail(flow)
      /\ UNCHANGED <<journalVars, power, previous, cancelled, steady>>
  BY DEF Calibrate, Proceed
<1>2. UNCHANGED <<calActive, auxActive>> /\ Stored' = Stored  BY <1>1, Unmoved
<1>3. Measuring /\ flow \in {FullCalibration, Full1, Full2, Full3, AdcOnly, Adc1}
  BY <1>1, AtMeasurement
<1>4. flow' \in {Full1, Full2, Full3, Full4, Adc1, Adc2}  BY <1>1, <1>3, Tails
<1>5. Measuring'  BY <1>1, <1>2, <1>3, <1>4 DEF Measuring, IsStored
<1> QED BY <1>1, <1>5, Underway DEF FlowInv

LEMMA VerifyFlow ==
  ASSUME FlowInv, NEW r, Verify(r), UNCHANGED steady
  PROVE  FlowInv'
<1>1. /\ At("verify") /\ flow' = Tail(flow)
      /\ UNCHANGED <<journalVars, power, running, previous, cancelled, steady>>
  BY DEF Verify, Proceed
<1>2. UNCHANGED <<calActive, auxActive>> /\ Stored' = Stored /\ (Busy' <=> Busy)
  BY <1>1, Unmoved
<1>3. CASE Measuring /\ flow = Full4
  <2>1. flow' = Full5  BY <1>1, <1>3, Tails
  <2>2. Measuring'  BY <1>1, <1>2, <1>3, <2>1 DEF Measuring, IsStored
  <2> QED BY <1>1, <2>2, Underway DEF FlowInv
<1>4. CASE Verifying /\ flow = Ver2
  <2>1. flow' = Ver3  BY <1>1, <1>4, Tails
  <2>2. Verifying'  BY <1>1, <1>2, <1>4, <2>1 DEF Verifying, IsStored
  <2> QED BY <1>1, <2>2, Underway DEF FlowInv
<1> QED BY <1>1, <1>3, <1>4, AtMeasurement

(* A measurement has written nothing: what it restores is stored. *)
LEMMA InterruptFlow ==
  ASSUME FlowInv, Interrupt, UNCHANGED steady
  PROVE  FlowInv'
<1>1. /\ At("adc") \/ At("dac") \/ At("verify")
      /\ UNCHANGED <<journalVars, power, previous, steady>>
      /\ \/ flow' = <<>> /\ running' = previous
         \/ ~steady /\ flow' = Tail(flow) /\ UNCHANGED running
  BY DEF Interrupt, Cancel, Break, Fail, Proceed
<1>2. UNCHANGED <<calActive, auxActive>> /\ Stored' = Stored /\ (Busy' <=> Busy)
  BY <1>1, Unmoved
<1>3. power = "panel" /\ flow # <<>>  BY <1>1, Underway
<1>4. \/ Measuring /\ flow \in {FullCalibration, Full1, Full2, Full3, Full4, AdcOnly, Adc1}
      \/ Verifying /\ flow = Ver2
  BY <1>1, AtMeasurement
<1>5. CASE flow' = <<>> /\ running' = previous
  <2>1. steady => ~calActive /\ ~auxActive /\ IsStored(previous)
    BY <1>4 DEF Measuring, Verifying, Busy
  <2>2. Resting'  BY <1>1, <1>2, <1>5, <2>1 DEF Resting, IsStored
  <2> QED BY <1>5, <2>2 DEF FlowInv
<1>6. CASE ~steady /\ flow' = Tail(flow) /\ UNCHANGED running
  <2>1. CASE Measuring /\ flow \in {FullCalibration, Full1, Full2, Full3, Full4, AdcOnly, Adc1}
    <3>1. flow' \in {Full1, Full2, Full3, Full4, Full5, Adc1, Adc2}  BY <1>6, <2>1, Tails
    <3>2. ~steady'  BY <1>1, <1>6
    <3>3. Measuring'  BY <3>1, <3>2 DEF Measuring
    <3> QED BY <1>1, <1>3, <3>2, <3>3 DEF FlowInv
  <2>2. CASE Verifying /\ flow = Ver2
    <3>1. flow' = Ver3  BY <1>6, <2>2, Tails
    <3>2. ~steady'  BY <1>1, <1>6
    <3>3. Verifying'  BY <1>2, <1>6, <2>2, <3>1, <3>2 DEF Verifying
    <3> QED BY <1>1, <1>3, <3>2, <3>3 DEF FlowInv
  <2> QED BY <1>4, <2>1, <2>2
<1> QED BY <1>1, <1>5, <1>6

LEMMA WaitDoneFlow ==
  ASSUME FlowInv, WaitDone, UNCHANGED steady
  PROVE  FlowInv'
<1>1. /\ At("wait") /\ ~Busy /\ flow' = Tail(flow)
      /\ UNCHANGED <<journalVars, power, running, previous, cancelled, steady>>
  BY DEF WaitDone, Proceed
<1>2. /\ UNCHANGED <<calActive, auxActive, pendingCommit, generation>>
      /\ Stored' = Stored /\ ~Busy'
      /\ SaveKept' <=> SaveKept
      /\ CertifyKept' <=> CertifyKept
      /\ CertifyReady' <=> CertifyReady
      /\ ClearAhead' <=> ClearAhead
      /\ EraseKept' <=> EraseKept
  BY <1>1, Unmoved
<1>3. (IsStored(previous)' <=> IsStored(previous)) /\ (IsStored(running)' <=> IsStored(running))
  BY <1>1, <1>2 DEF IsStored
<1>4. flow' # <<>> => power' = "panel"  BY <1>1, Underway
<1>5. steady' /\ cancelled' => flow' = <<>>  BY <1>1, Underway
<1>6. CASE Choosing /\ flow \in {DacOnly, Verification}
  <2>1. flow' \in {Dac1, Ver1}  BY <1>1, <1>6, Tails
  <2>2. Loading'  BY <1>1, <1>2, <1>3, <1>6, <2>1 DEF Loading, Choosing
  <2> QED BY <1>4, <1>5, <2>2 DEF FlowInv
<1>7. CASE Measuring /\ flow \in {Full5, Adc2}
  <2>1. flow' \in {Full6, Adc3}  BY <1>1, <1>7, Tails
  <2>2. ReadyToSave'  BY <1>1, <1>2, <1>3, <1>7, <2>1 DEF ReadyToSave, Measuring
  <2> QED BY <1>4, <1>5, <2>2 DEF FlowInv
<1>8. CASE Verifying /\ flow = Ver3
  <2>1. flow' = Ver4  BY <1>1, <1>8, Tails
  <2>2. Verifying'  BY <1>1, <1>2, <1>3, <1>8, <2>1 DEF Verifying
  <2> QED BY <1>4, <1>5, <2>2 DEF FlowInv
<1>9. CASE Certifying
  <2>1. flow' = Full8  BY <1>1, <1>9, Tails DEF Certifying
  <2>2. Committing'  BY <1>2, <1>9, <2>1 DEF Certifying, Committing
  <2> QED BY <1>4, <1>5, <2>2 DEF FlowInv
<1>10. CASE Keeping
  <2>1. flow' = Kept2  BY <1>1, <1>10, Tails DEF Keeping
  <2>2. Kept'  BY <1>2, <1>10, <2>1 DEF Keeping, Kept
  <2> QED BY <1>4, <1>5, <2>2 DEF FlowInv
<1>11. CASE PlainKeeping
  <2>1. flow' = Adc5  BY <1>1, <1>11, Tails DEF PlainKeeping
  <2>2. PlainKept'  BY <1>2, <1>11, <2>1 DEF PlainKeeping, PlainKept
  <2> QED BY <1>4, <1>5, <2>2 DEF FlowInv
<1>12. CASE Clearing
  <2>1. flow' = Erase3  BY <1>1, <1>12, Tails DEF Clearing
  <2>2. Cleared'  BY <1>2, <1>12, <2>1 DEF Clearing, Cleared
  <2> QED BY <1>4, <1>5, <2>2 DEF FlowInv
<1>13. CASE Wiping
  <2>1. flow' = Erase5  BY <1>1, <1>13, Tails DEF Wiping
  <2>2. Wiped'  BY <1>2, <1>13, <2>1 DEF Wiping, Wiped
  <2> QED BY <1>4, <1>5, <2>2 DEF FlowInv
<1> QED BY <1>1, <1>6, <1>7, <1>8, <1>9, <1>10, <1>11, <1>12, <1>13, AtPersistence

LEMMA ShowPassFlow ==
  ASSUME FlowInv, ShowPass, UNCHANGED steady
  PROVE  FlowInv'
<1>1. /\ At("match") \/ At("pass")
      /\ flow' = Tail(flow)
      /\ UNCHANGED <<journalVars, power, running, steady>>
  BY DEF ShowPass, Proceed
<1>2. UNCHANGED <<calActive, auxActive>> /\ Stored' = Stored  BY <1>1, Unmoved
<1>3. Kept \/ PlainKept  BY <1>1, AtPersistence
<1>4. flow' = <<>>  BY <1>1, <1>3, Tails DEF Kept, PlainKept
<1>5. ~calActive /\ ~auxActive /\ Stored = {running}
  BY <1>3 DEF Kept, PlainKept, Busy, SaveKept, SaveAhead
<1>6. Resting'  BY <1>1, <1>2, <1>4, <1>5 DEF Resting, IsStored
<1> QED BY <1>4, <1>6 DEF FlowInv

LEMMA ConfirmEraseFlow ==
  ASSUME FlowInv, ConfirmErase, UNCHANGED steady
  PROVE  FlowInv'
<1>1. /\ At("confirm")
      /\ (flow' = Tail(flow) /\ UNCHANGED cancelled) \/ flow' = <<>>
      /\ UNCHANGED <<journalVars, power, running, previous, steady>>
  BY DEF ConfirmErase, Proceed
<1>2. UNCHANGED <<calActive, auxActive>> /\ Stored' = Stored  BY <1>1, Unmoved
<1>3. Choosing /\ flow = EraseAll  BY <1>1, AtErase
<1>4. CASE flow' = Tail(flow) /\ UNCHANGED cancelled
  <2>1. flow' = Erase1  BY <1>3, <1>4, Tails
  <2>2. Choosing'  BY <1>1, <1>2, <1>3, <2>1 DEF Choosing, IsStored
  <2> QED BY <1>1, <1>4, <2>2, Underway DEF FlowInv
<1>5. CASE flow' = <<>>
  <2>1. Resting'  BY <1>1, <1>2, <1>3, <1>5 DEF Resting, Choosing, IsStored
  <2> QED BY <1>5, <2>1 DEF FlowInv
<1> QED BY <1>1, <1>4, <1>5

LEMMA LeaveOutputTestFlow ==
  ASSUME FlowInv, LeaveOutputTest, UNCHANGED steady
  PROVE  FlowInv'
<1>1. /\ At("measure") /\ flow' = <<>> /\ running' = previous
      /\ UNCHANGED <<journalVars, power, previous, steady>>
  BY DEF LeaveOutputTest, Fail
<1>2. UNCHANGED <<calActive, auxActive>> /\ Stored' = Stored  BY <1>1, Unmoved
<1>3. Measuring  BY <1>1, AtMeasurement
<1>4. Resting'  BY <1>1, <1>2, <1>3 DEF Resting, Measuring, IsStored
<1> QED BY <1>1, <1>4 DEF FlowInv

LEMMA EraseRefusedFlow ==
  ASSUME FlowInv, EraseRefused, UNCHANGED steady
  PROVE  FlowInv'
<1>1. At("eraseCertificate") /\ auxActive /\ flow' = <<>> /\ UNCHANGED steady
  BY DEF EraseRefused, Fail
<1>2. Choosing  BY <1>1, AtErase
<1>3. ~steady'  BY <1>1, <1>2 DEF Choosing
<1>4. Resting'  BY <1>1, <1>3 DEF Resting
<1> QED BY <1>1, <1>4 DEF FlowInv

(* What a power-up or a load puts in use is a profile, and the stored one. *)
LEMMA LoadedProfile ==
  ASSUME JournalInv
  PROVE  \A p \in Stored : p \in Profile /\ Stored = {p}
<1>1. CASE ValidRecords = {}  BY <1>1 DEF Stored
<1>2. CASE ValidRecords # {}
  <2>1. Latest \in ValidRecords  BY <1>2, Readings, LatestIsValid
  <2>2. Cal!BodyOf(eeprom, Latest) \in [seq : Generation, content : Profile]
    BY <2>1 DEF JournalInv, RecordsTyped
  <2>3. Stored = {Cal!BodyOf(eeprom, Latest).content}  BY <1>2 DEF Stored
  <2> QED BY <2>2, <2>3
<1> QED BY <1>1, <1>2

LEMMA PowerOnFlow ==
  ASSUME PanelInv, PowerOn, UNCHANGED steady
  PROVE  PanelTyped' /\ JournalInv' /\ Stored' = Stored /\ FlowInv'
<1>1. /\ power = "off" /\ power' = "panel" /\ LoadHead
      /\ running' \in IF Stored = {} THEN {FactoryProfile} ELSE Stored
      /\ UNCHANGED <<deviceVars, calVars, auxVars, pendingVars,
                     previous, residual, flow, cancelled, steady>>
  BY DEF PowerOn
<1>2. PanelTyped /\ JournalInv /\ FlowInv  BY DEF PanelInv
<1>3. ~calActive /\ ~auxActive /\ flow = <<>>
  <2>1. ~calActive /\ ~auxActive  BY <1>1, <1>2 DEF JournalInv
  <2>2. flow = <<>>  BY <1>1, <1>2 DEF FlowInv
  <2> QED BY <2>1, <2>2
<1>4. JournalInv' /\ Stored' = Stored  BY <1>1, <1>2, <1>3, LoadKeepsJournal
<1>5. running' \in Profile /\ IsStored(running)'
  <2>1. CASE Stored = {}
    BY <1>1, <1>4, <2>1, PanelAssumption DEF IsStored
  <2>2. CASE Stored # {}
    BY <1>1, <1>2, <1>4, <2>2, LoadedProfile DEF IsStored
  <2> QED BY <2>1, <2>2
<1>6. PanelTyped'  BY <1>1, <1>2, <1>5 DEF PanelTyped
<1>7. ~calActive' /\ ~auxActive'  BY <1>1, <1>3 DEF calVars, auxVars
<1>8. Resting'  BY <1>1, <1>3, <1>5, <1>7 DEF Resting
<1> QED BY <1>1, <1>3, <1>4, <1>6, <1>8 DEF FlowInv

LEMMA LoadStoredFlow ==
  ASSUME PanelInv, LoadStored, UNCHANGED steady
  PROVE  PanelTyped' /\ JournalInv' /\ Stored' = Stored /\ FlowInv'
<1>1. /\ At("load") \/ At("adopt") \/ (At("try") /\ ~Busy)
      /\ LoadHead
      /\ UNCHANGED <<deviceVars, calVars, auxVars, pendingVars,
                     power, residual, cancelled, steady>>
      /\ Stored # {} => /\ running' \in Stored
                        /\ previous' = IF At("adopt") THEN running' ELSE previous
                        /\ flow' = Tail(flow)
      /\ Stored = {} => /\ IF At("try") THEN flow' = Tail(flow) ELSE flow' = <<>>
                        /\ UNCHANGED <<running, previous>>
  BY DEF LoadStored, Proceed
<1>2. PanelTyped /\ JournalInv /\ FlowInv  BY DEF PanelInv
<1>3. power = "panel" /\ (steady => ~cancelled)  BY <1>1, <1>2, Underway
<1>4. ~Busy
  BY <1>1, <1>2, AtPersistence DEF Loading
<1>5. JournalInv' /\ Stored' = Stored
  <2>1. ~calActive /\ power' = "panel"  BY <1>1, <1>3, <1>4 DEF Busy
  <2> QED BY <1>1, <1>2, <2>1, LoadKeepsJournal
<1>6. ~calActive' /\ ~auxActive' /\ ~pendingCommit' /\ ~Busy'
  BY <1>1, <1>4 DEF Busy, calVars, auxVars, pendingVars
<1>7. running' \in Profile /\ previous' \in Profile
  BY <1>1, <1>2, LoadedProfile DEF PanelTyped
<1>8. PanelTyped'  BY <1>1, <1>2, <1>7 DEF PanelTyped
<1>9. power' = "panel" /\ (steady' => ~cancelled')  BY <1>1, <1>3
<1>10. CASE At("try")
  <2>1. Choosing /\ flow = OutputTest  BY <1>2, <1>10, AtMeasurement
  <2>2. ~At("adopt")  BY <1>10 DEF At
  <2>3. flow' = Out1 /\ previous' = previous  BY <1>1, <1>10, <2>1, <2>2, Tails
  <2>4. steady => IsStored(previous)  BY <2>1 DEF Choosing
  <2>5. Measuring'  BY <1>1, <1>5, <1>6, <2>3, <2>4 DEF Measuring, IsStored
  <2> QED BY <1>5, <1>8, <1>9, <2>5 DEF FlowInv
<1>11. CASE ~At("try") /\ Stored = {}
  <2>1. Loading  BY <1>1, <1>2, <1>11, AtPersistence
  <2>2. flow' = <<>> /\ UNCHANGED running  BY <1>1, <1>11
  <2>3. Resting'  BY <1>1, <1>5, <1>6, <2>1, <2>2 DEF Resting, Loading, IsStored
  <2> QED BY <1>5, <1>8, <2>2, <2>3 DEF FlowInv
<1>12. CASE At("load") /\ Stored # {}
  <2>1. Loading /\ flow = Ver1  BY <1>2, <1>12, AtPersistence
  <2>2. ~At("adopt")  BY <1>12 DEF At
  <2>3. flow' = Ver2 /\ previous' = previous /\ running' \in Stored
    BY <1>1, <1>12, <2>1, <2>2, Tails
  <2>4. Stored' = {running'}  BY <1>2, <1>5, <2>3, LoadedProfile
  <2>5. Verifying'  BY <1>1, <1>5, <1>6, <2>1, <2>3, <2>4 DEF Verifying, Loading, IsStored
  <2> QED BY <1>5, <1>8, <1>9, <2>5 DEF FlowInv
<1>13. CASE At("adopt") /\ Stored # {}
  <2>1. flow = Dac1  BY <1>2, <1>13, AtPersistence
  <2>2. flow' = Full2 /\ previous' = running' /\ running' \in Stored
    BY <1>1, <1>13, <2>1, Tails
  <2>3. Stored' = {previous'}  BY <1>2, <1>5, <2>2, LoadedProfile
  <2>4. Measuring'  BY <1>6, <2>2, <2>3 DEF Measuring, IsStored
  <2> QED BY <1>5, <1>8, <1>9, <2>4 DEF FlowInv
<1> QED BY <1>1, <1>10, <1>11, <1>12, <1>13

(* Only hasty waits give up on a busy writer. *)
LEMMA TimeoutFlow ==
  ASSUME PanelInv, WaitTimesOut \/ TryTimesOut, UNCHANGED steady
  PROVE  PanelTyped' /\ JournalInv' /\ Stored' = Stored /\ FlowInv'
<1>1. PanelTyped /\ JournalInv /\ FlowInv  BY DEF PanelInv
<1>2. /\ At("wait") \/ At("try")
      /\ ~steady /\ (Service \/ UNCHANGED journalVars)
      /\ UNCHANGED <<power, previous, residual, cancelled, steady>>
      /\ \/ flow' = <<>> /\ running' = previous
         \/ At("try") /\ flow' = Tail(flow) /\ UNCHANGED running
  BY DEF WaitTimesOut, TryTimesOut, Fail, Proceed
<1>3. power = "panel"  BY <1>1, <1>2, Underway
<1>4. JournalInv' /\ Stored' = Stored
  <2>1. CASE Service
    <3>1. JournalInv' /\ UNCHANGED eeprom  BY <1>1, <1>2, <1>3, <2>1, ServiceKeepsJournal
    <3> QED BY <3>1, SameMemory
  <2>2. CASE UNCHANGED journalVars  BY <1>1, <1>2, <2>2, QuietKeepsJournal
  <2> QED BY <1>2, <2>1, <2>2
<1>5. PanelTyped'  BY <1>1, <1>2 DEF PanelTyped
<1>6. ~steady' /\ power' = "panel"  BY <1>2, <1>3
<1>7. CASE flow' = <<>>
  <2>1. Resting'  BY <1>6, <1>7 DEF Resting
  <2> QED BY <1>4, <1>5, <1>6, <2>1 DEF FlowInv
<1>8. CASE At("try") /\ flow' = Tail(flow)
  <2>1. flow = OutputTest  BY <1>1, <1>8, AtMeasurement
  <2>2. flow' = Out1  BY <1>8, <2>1, Tails
  <2>3. Measuring'  BY <1>6, <2>2 DEF Measuring
  <2> QED BY <1>4, <1>5, <1>6, <2>3 DEF FlowInv
<1> QED BY <1>2, <1>7, <1>8

LEMMA ResetFlow ==
  ASSUME PanelInv, Reset, UNCHANGED steady
  PROVE  PanelTyped' /\ JournalInv' /\ Stored' = Stored /\ FlowInv'
<1>1. /\ At("reset") /\ LoadHead /\ running' = FactoryProfile /\ flow' = Tail(flow)
      /\ UNCHANGED <<deviceVars, calVars, auxVars, pendingVars,
                     power, previous, residual, cancelled, steady>>
  BY DEF Reset, Proceed
<1>2. PanelTyped /\ JournalInv /\ FlowInv  BY DEF PanelInv
<1>3. Wiped  BY <1>1, <1>2, AtErase
<1>4. ~calActive /\ ~auxActive /\ ValidRecords = {}
  BY <1>3 DEF Wiped, Busy, EraseKept, EraseAhead
<1>5. JournalInv' /\ Stored' = Stored
  <2>1. power' = "panel"  BY <1>1, <1>2, Underway
  <2> QED BY <1>1, <1>2, <1>4, <2>1, LoadKeepsJournal
<1>6. IsStored(running)'
  <2>1. Stored' = {}  BY <1>4, <1>5 DEF Stored
  <2> QED BY <1>1, <2>1 DEF IsStored
<1>7. ~calActive' /\ ~auxActive'  BY <1>1, <1>4 DEF calVars, auxVars
<1>8. flow' = <<>>  BY <1>1, <1>3, Tails DEF Wiped
<1>9. Resting'  BY <1>6, <1>7, <1>8 DEF Resting
<1>10. PanelTyped'  BY <1>1, <1>2, PanelAssumption DEF PanelTyped
<1> QED BY <1>5, <1>8, <1>9, <1>10 DEF FlowInv

LEMMA CertifyFlow ==
  ASSUME PanelInv, CertifyNext \/ CertifyCurrent, UNCHANGED steady
  PROVE  PanelTyped' /\ JournalInv' /\ Stored' = Stored /\ FlowInv'
<1>1. PanelTyped /\ JournalInv /\ FlowInv  BY DEF PanelInv
<1>2. UNCHANGED <<power, running, previous, residual, cancelled, steady>> /\ flow' = Tail(flow)
  BY DEF CertifyNext, CertifyCurrent, Proceed
<1>3. At("certifyNext") \/ At("certifyCurrent")  BY DEF CertifyNext, CertifyCurrent
<1>4. power = "panel" /\ (steady => ~cancelled)  BY <1>1, <1>3, Underway
<1>5. /\ generation \in Generation /\ (generation + 1) % Generations \in Generation
      /\ residual \in Residual
  <2>1. generation \in Generation  BY <1>1, TypedJournal DEF JournalInv, Typed
  <2> QED BY <1>1, <2>1, NextGeneration DEF PanelTyped
<1>6. PanelTyped'  BY <1>1, <1>2 DEF PanelTyped
<1>7. CASE CertifyNext
  <2>1. ReadyToSave /\ flow = Full6  BY <1>1, <1>7, AtPersistence DEF CertifyNext
  <2>2. ~Busy  BY <2>1 DEF ReadyToSave
  <2>3. /\ JournalInv' /\ Stored' = Stored
        /\ auxActive' /\ auxQueue' = CertificateOps((generation + 1) % Generations, residual)
        /\ UNCHANGED <<calVars, headVars>>
    BY <1>1, <1>2, <1>4, <1>5, <1>7, <2>2, CertifyKeepsJournal DEF CertifyNext
  <2>4. ~calActive' /\ generation' = generation  BY <2>2, <2>3 DEF Busy, calVars, headVars
  <2>5. CertifyReady'  BY <1>5, <2>3, <2>4, CertifyAheadPrimed
  <2>6. flow' = Full7  BY <1>2, <2>1, Tails
  <2>7. Certifying'  BY <1>2, <2>1, <2>3, <2>5, <2>6 DEF Certifying, ReadyToSave, IsStored
  <2> QED BY <1>2, <1>4, <1>6, <2>3, <2>7 DEF FlowInv
<1>8. CASE CertifyCurrent
  <2>1. Verifying /\ flow = Ver4  BY <1>1, <1>8, AtPersistence DEF CertifyCurrent
  <2>2. ~Busy /\ Stored = {running}  BY <2>1 DEF Verifying
  <2>3. /\ JournalInv' /\ Stored' = Stored
        /\ auxActive' /\ auxQueue' = CertificateOps(generation, residual)
        /\ UNCHANGED <<calVars, headVars, pendingVars>>
    BY <1>1, <1>2, <1>4, <1>5, <1>8, <2>2, CertifyKeepsJournal DEF CertifyCurrent
  <2>4. ~calActive' /\ ~pendingCommit' /\ generation' = generation
    BY <2>2, <2>3 DEF Busy, calVars, headVars, pendingVars
  <2>5. LatestGeneration' = generation  BY <2>4 DEF LatestGeneration
  <2>6. CertifyKept'  BY <1>5, <2>3, <2>5, CertifyAheadPrimed
  <2>7. SaveKept'  BY <1>2, <2>2, <2>3, <2>4 DEF SaveKept, SaveAhead
  <2>8. flow' = Kept1  BY <1>2, <2>1, Tails
  <2>9. Keeping'  BY <2>6, <2>7, <2>8 DEF Keeping
  <2> QED BY <1>2, <1>4, <1>6, <2>3, <2>9 DEF FlowInv
<1> QED BY <1>7, <1>8

LEMMA CommitFlow ==
  ASSUME PanelInv, Commit, UNCHANGED steady
  PROVE  PanelTyped' /\ JournalInv' /\ Stored' = Stored /\ FlowInv'
<1>1. PanelTyped /\ JournalInv /\ FlowInv  BY DEF PanelInv
<1>2. /\ At("commit") /\ SaveProfile(running) /\ flow' = Tail(flow)
      /\ UNCHANGED <<power, running, previous, residual, cancelled, steady>>
  BY DEF Commit, Proceed
<1>3. power = "panel" /\ (steady => ~cancelled)  BY <1>1, <1>2, Underway
<1>4. (ReadyToSave /\ flow = Adc3) \/ Committing  BY <1>1, <1>2, AtPersistence
<1>5. ~Busy  BY <1>4 DEF ReadyToSave, Committing
<1>6. running \in Profile  BY <1>1 DEF PanelTyped
<1>7. /\ JournalInv' /\ Stored' = Stored
      /\ calActive' /\ pendingCommit' /\ Saving'.content = running
      /\ pendingGeneration' = (generation + 1) % Generations
      /\ UNCHANGED <<eeprom, auxVars, headVars>>
  BY <1>1, <1>2, <1>3, <1>5, <1>6, CommitKeepsJournal
<1>8. ~auxActive'  BY <1>5, <1>7 DEF Busy, auxVars
<1>9. SaveKept'  BY <1>2, <1>7 DEF SaveKept, SaveAhead
<1>10. PanelTyped'  BY <1>1, <1>2 DEF PanelTyped
<1>11. CASE ReadyToSave /\ flow = Adc3
  <2>1. flow' = Adc4  BY <1>2, <1>11, Tails
  <2>2. PlainKeeping'  BY <1>8, <1>9, <2>1 DEF PlainKeeping
  <2> QED BY <1>2, <1>3, <1>7, <1>10, <2>2 DEF FlowInv
<1>12. CASE Committing
  <2>1. flow' = Kept1  BY <1>2, <1>12, Tails DEF Committing
  <2>2. CertificateMarker = MarkerFor((generation + 1) % Generations)
    BY <1>5, <1>12 DEF Committing, CertifyReady, CertifyAhead, Busy
  <2>3. CertificateMarker' = CertificateMarker  BY <1>7, SameMemory
  <2>4. LatestGeneration' = (generation + 1) % Generations  BY <1>7 DEF LatestGeneration
  <2>5. CertifyKept'  BY <1>8, <2>2, <2>3, <2>4, CertifyAheadPrimed
  <2>6. Keeping'  BY <1>9, <2>1, <2>5 DEF Keeping
  <2> QED BY <1>2, <1>3, <1>7, <1>10, <2>6 DEF FlowInv
<1> QED BY <1>4, <1>11, <1>12

LEMMA EraseFlow ==
  ASSUME PanelInv, BeginEraseCertificate \/ BeginEraseJournal, UNCHANGED steady
  PROVE  PanelTyped' /\ JournalInv' /\ Stored' = Stored /\ FlowInv'
<1>1. PanelTyped /\ JournalInv /\ FlowInv  BY DEF PanelInv
<1>2. UNCHANGED <<power, running, previous, residual, cancelled, steady>> /\ flow' = Tail(flow)
  BY DEF BeginEraseCertificate, BeginEraseJournal, Proceed
<1>3. At("eraseCertificate") \/ At("eraseJournal")
  BY DEF BeginEraseCertificate, BeginEraseJournal
<1>4. power = "panel" /\ (steady => ~cancelled)  BY <1>1, <1>3, Underway
<1>5. PanelTyped'  BY <1>1, <1>2 DEF PanelTyped
<1>6. CASE BeginEraseCertificate
  <2>1. Choosing /\ flow = Erase1  BY <1>1, <1>6, AtErase DEF BeginEraseCertificate
  <2>2. /\ JournalInv' /\ Stored' = Stored
        /\ auxActive' /\ auxQueue' = ClearOps
        /\ UNCHANGED <<calVars, pendingVars>>
    BY <1>1, <1>2, <1>4, <1>6, ClearKeepsJournal DEF BeginEraseCertificate
  <2>3. calActive' = calActive  BY <2>2 DEF calVars
  <2>4. ClearAhead'  BY <2>2 DEF ClearAhead
  <2>5. flow' = Erase2  BY <1>2, <2>1, Tails
  <2>6. Clearing'  BY <1>2, <2>1, <2>2, <2>3, <2>4, <2>5 DEF Clearing, Choosing, IsStored
  <2> QED BY <1>2, <1>4, <1>5, <2>2, <2>6 DEF FlowInv
<1>7. CASE BeginEraseJournal
  <2>1. Cleared  BY <1>1, <1>7, AtErase DEF BeginEraseJournal
  <2>2. ~Busy /\ CertifiedGenerations = {}  BY <2>1 DEF Cleared, ClearAhead, Busy
  <2>3. /\ JournalInv' /\ Stored' = Stored
        /\ calActive' /\ ~pendingCommit' /\ calQueue' = Cal!EraseOps(<<0, 1>>)
        /\ UNCHANGED <<eeprom, auxVars>>
    BY <1>1, <1>2, <1>4, <1>7, <2>2, EraseKeepsJournal DEF BeginEraseJournal
  <2>4. ~auxActive'  BY <2>2, <2>3 DEF Busy, auxVars
  <2>5. CertifiedGenerations' = {}  BY <2>2, <2>3, SameMemory
  <2>6. ClearAhead' /\ EraseKept'  BY <2>3, <2>4, <2>5 DEF ClearAhead, EraseKept, EraseAhead
  <2>7. flow' = Erase4  BY <1>2, <2>1, Tails DEF Cleared
  <2>8. Wiping'  BY <2>4, <2>6, <2>7 DEF Wiping
  <2> QED BY <1>2, <1>4, <1>5, <2>3, <2>8 DEF FlowInv
<1> QED BY <1>6, <1>7

(* The writers work on behind a workflow; at its idle places they have nothing
   left to do. *)
LEMMA PollFlow ==
  ASSUME PanelInv, Poll, UNCHANGED steady
  PROVE  PanelTyped' /\ JournalInv' /\ Stored' = Stored /\ FlowInv'
<1>1. PanelTyped /\ JournalInv /\ FlowInv  BY DEF PanelInv
<1>2. /\ power = "panel" /\ Service
      /\ UNCHANGED <<power, running, previous, residual, flow, cancelled, steady>>
  BY DEF Poll, panelVars
<1>3. /\ JournalInv' /\ UNCHANGED eeprom
      /\ (calActive' => calActive) /\ (auxActive' => auxActive) /\ Busy
  BY <1>1, <1>2, ServiceKeepsJournal
<1>4. Stored' = Stored  BY <1>3, SameMemory
<1>5. PanelTyped'  BY <1>1, <1>2 DEF PanelTyped
<1>6. (IsStored(previous)' <=> IsStored(previous)) /\ (IsStored(running)' <=> IsStored(running))
  BY <1>2, <1>4 DEF IsStored
<1>7. /\ SaveKept => SaveKept'
      /\ CertifyKept => CertifyKept'
      /\ CertifyReady => CertifyReady'
      /\ ClearAhead => ClearAhead'
      /\ EraseKept => EraseKept'
  BY <1>1, <1>2, ServiceKeepsAhead
<1>8. Resting => Resting'  BY <1>2, <1>3, <1>6 DEF Resting
<1>9. Choosing => Choosing'  BY <1>2, <1>3, <1>6 DEF Choosing
<1>10. Measuring => Measuring'  BY <1>2, <1>3, <1>6 DEF Measuring
<1>11. Certifying => Certifying'  BY <1>2, <1>6, <1>7 DEF Certifying
<1>12. Keeping => Keeping'  BY <1>2, <1>7 DEF Keeping
<1>13. PlainKeeping => PlainKeeping'  BY <1>2, <1>3, <1>7 DEF PlainKeeping
<1>14. Clearing => Clearing'  BY <1>2, <1>3, <1>6, <1>7 DEF Clearing
<1>15. Wiping => Wiping'  BY <1>2, <1>3, <1>7 DEF Wiping
<1>16. ~Loading /\ ~ReadyToSave /\ ~Committing /\ ~Kept /\ ~PlainKept /\ ~Verifying
       /\ ~Cleared /\ ~Wiped
  BY <1>3 DEF Loading, ReadyToSave, Committing, Kept, PlainKept, Verifying, Cleared, Wiped
<1> QED BY <1>1, <1>2, <1>3, <1>4, <1>5, <1>8, <1>9, <1>10, <1>11, <1>12, <1>13, <1>14,
         <1>15, <1>16 DEF FlowInv

(* A byte is only programmed for a writer that is active. *)
LEMMA ProgramFlow ==
  ASSUME PanelInv, Program, UNCHANGED steady
  PROVE  PanelTyped' /\ JournalInv' /\ StoredStep /\ FlowInv'
<1>1. PanelTyped /\ JournalInv /\ FlowInv  BY DEF PanelInv
<1>2. /\ ByteProgrammed
      /\ UNCHANGED <<power, running, previous, residual, flow, cancelled, steady>>
  BY DEF Program, panelVars
<1>3. /\ JournalInv' /\ StoredStep
      /\ ~calActive => Stored' = Stored /\ auxActive
  BY <1>1, <1>2, ProgramKeepsJournal
<1>4. UNCHANGED <<calActive, auxActive>>
  BY <1>2 DEF ByteProgrammed, Cal!Programmed, auxVars
<1>5. PanelTyped'  BY <1>1, <1>2 DEF PanelTyped
<1>6. ~calActive => /\ IsStored(previous)' <=> IsStored(previous)
                    /\ IsStored(running)' <=> IsStored(running)
  BY <1>2, <1>3 DEF IsStored
<1>7. /\ SaveKept => SaveKept'
      /\ CertifyKept => CertifyKept'
      /\ CertifyReady => CertifyReady'
      /\ ClearAhead => ClearAhead'
      /\ EraseKept => EraseKept'
  BY <1>1, <1>2, ProgramKeepsAhead
<1>8. Busy  BY <1>3 DEF Busy
<1>9. Resting => Resting'  BY <1>2, <1>3 DEF Resting
<1>10. Choosing => Choosing'  BY <1>2, <1>3 DEF Choosing
<1>11. Measuring => Measuring'  BY <1>2, <1>3 DEF Measuring
<1>12. Certifying => Certifying'  BY <1>2, <1>6, <1>7 DEF Certifying, CertifyReady
<1>13. Keeping => Keeping'  BY <1>2, <1>7 DEF Keeping
<1>14. PlainKeeping => PlainKeeping'  BY <1>2, <1>4, <1>7 DEF PlainKeeping
<1>15. Clearing => Clearing'  BY <1>2, <1>4, <1>6, <1>7 DEF Clearing
<1>16. Wiping => Wiping'  BY <1>2, <1>4, <1>7 DEF Wiping
<1>17. ~Loading /\ ~ReadyToSave /\ ~Committing /\ ~Kept /\ ~PlainKept /\ ~Verifying
       /\ ~Cleared /\ ~Wiped
  BY <1>8 DEF Loading, ReadyToSave, Committing, Kept, PlainKept, Verifying, Cleared, Wiped
<1> QED BY <1>1, <1>2, <1>3, <1>5, <1>9, <1>10, <1>11, <1>12, <1>13, <1>14,
         <1>15, <1>16, <1>17 DEF FlowInv

LEMMA PowerLossFlow ==
  ASSUME PanelInv, PowerLoss, UNCHANGED steady
  PROVE  PanelTyped' /\ JournalInv' /\ StoredStep /\ FlowInv'
<1>1. PanelTyped /\ JournalInv  BY DEF PanelInv
<1>2. /\ power = "panel" /\ power' = "off" /\ LosePower /\ flow' = <<>> /\ cancelled' = FALSE
      /\ running' = FactoryProfile /\ previous' = FactoryProfile /\ residual' = NoResidual
      /\ UNCHANGED steady
  BY DEF PowerLoss
<1>3. JournalInv' /\ StoredStep  BY <1>1, <1>2, PowerLossKeepsJournal
<1>4. ~calActive' /\ ~auxActive'  BY <1>2 DEF LosePower, Cal!LosePower
<1>5. PanelTyped'  BY <1>1, <1>2, PanelAssumption, JournalAssumption DEF PanelTyped
<1>6. Resting'  BY <1>2, <1>4 DEF Resting
<1> QED BY <1>2, <1>3, <1>5, <1>6 DEF FlowInv

-----------------------------------------------------------------------------
(* The invariant of the panel *)

(* CancelCommitsNothing, of one step. *)
CancelStep ==
  steady /\ ((calActive' /\ ~calActive) \/ (auxActive' /\ ~auxActive)) => ~cancelled

LEMMA PanelInit == Init => PanelInv
<1> SUFFICES ASSUME Init PROVE PanelInv  OBVIOUS
<1>1. JournalInit /\ power = "off" /\ running = FactoryProfile /\ previous = FactoryProfile
      /\ residual = NoResidual /\ flow = <<>> /\ cancelled = FALSE /\ steady \in BOOLEAN
  BY DEF Init
<1>2. PanelTyped  BY <1>1, PanelAssumption, JournalAssumption DEF PanelTyped
<1>3. /\ eeprom = [c \in Cal!Cell |-> Erased] /\ writing = {}
      /\ calQueue = <<>> /\ calPos = 0 /\ calActive = FALSE
      /\ auxQueue = <<>> /\ auxPos = 0 /\ auxActive = FALSE
      /\ activeIndex = 1 /\ generation = Generations - 1
      /\ pendingIndex = 0 /\ pendingGeneration = 0 /\ pendingCommit = FALSE
  BY <1>1 DEF JournalInit
<1>4. JournalTypeOK
  <2>1. eeprom \in [Cal!Cell -> Cal!Byte]  BY <1>3 DEF Cal!Byte
  <2>2. calQueue \in Seq(Cal!Op) /\ auxQueue \in Seq(Cal!Op)
        /\ Len(calQueue) = 0 /\ Len(auxQueue) = 0
    BY <1>3
  <2>3. calPos \in 0 .. Len(calQueue) /\ auxPos \in 0 .. Len(auxQueue)  BY <1>3, <2>2
  <2>4. /\ activeIndex \in JournalRecord /\ pendingIndex \in JournalRecord
        /\ generation \in Generation /\ pendingGeneration \in Generation
    BY <1>3, JournalAssumption DEF JournalRecord, Generation
  <2>5. calActive \in BOOLEAN /\ auxActive \in BOOLEAN /\ pendingCommit \in BOOLEAN
    BY <1>3
  <2>6. Typed  BY <1>3, <2>1, <2>2, <2>3, <2>4, <2>5 DEF Typed
  <2> QED BY <2>6, TypedJournal
<1>5. Erased # Marked /\ Erased \notin Cal!Image  BY CellAssumption
<1>6. ValidRecords = {}
  <2>1. \A i \in JournalRecord : <<i, 0>> \in Cal!Cell  BY Cells
  <2> QED BY <1>3, <1>5, <2>1 DEF ValidRecords, Cal!Valid
<1>7. RecordsTyped /\ Consecutive
  <2>1. {} # JournalRecord  BY DEF JournalRecord
  <2> QED BY <1>6, <2>1 DEF RecordsTyped, Consecutive
<1>8. CertifiedGenerations = {}
  <2>1. CertificateMarker = Erased  BY <1>3, Cells DEF CertificateMarker
  <2> QED BY <2>1, Bytes DEF CertifiedGenerations, CertificateMarker
<1>9. CertificateComplete  BY <1>8 DEF CertificateComplete
<1>10. WritersInv  BY <1>3 DEF WritersInv, CalWriting
<1>11. JournalInv
  <2>1. power # "panel"  BY <1>1
  <2> QED BY <1>3, <1>4, <1>7, <1>9, <1>10, <2>1 DEF JournalInv
<1>12. Resting  BY <1>1, <1>3 DEF Resting
<1>13. FlowInv  BY <1>1, <1>12 DEF FlowInv
<1> QED BY <1>2, <1>11, <1>13 DEF PanelInv

(* A step of a workflow that leaves the EEPROM to the writers. *)
LEMMA QuietStep ==
  ASSUME PanelInv, UNCHANGED <<journalVars, power, steady>>, FlowInv',
         running' \in Profile, previous' \in Profile, residual' \in Residual
  PROVE  PanelInv' /\ StoredStep /\ CancelStep
<1>1. PanelTyped /\ JournalInv  BY DEF PanelInv
<1>2. JournalInv' /\ Stored' = Stored  BY <1>1, QuietKeepsJournal
<1>3. UNCHANGED <<calActive, auxActive>>  BY Unmoved
<1>4. PanelTyped'  BY <1>1 DEF PanelTyped
<1>5. StoredStep /\ CancelStep  BY <1>2, <1>3 DEF StoredStep, CancelStep
<1> QED BY <1>2, <1>4, <1>5 DEF PanelInv

LEMMA PanelStep ==
  ASSUME PanelInv, Step, UNCHANGED steady
  PROVE  PanelInv' /\ StoredStep /\ CancelStep
<1>1. PanelTyped /\ JournalInv /\ FlowInv  BY DEF PanelInv
<1>2. running \in Profile /\ previous \in Profile /\ residual \in Residual
  BY <1>1 DEF PanelTyped
<1>3. CASE PowerOn
  <2>1. UNCHANGED <<calActive, auxActive>>  BY <1>3 DEF PowerOn, calVars, auxVars
  <2>2. PanelInv' /\ Stored' = Stored  BY <1>3, PowerOnFlow DEF PanelInv
  <2> QED BY <2>1, <2>2 DEF StoredStep, CancelStep
<1>4. CASE \E w \in Workflow : Start(w)
  <2>1. PICK w \in Workflow : Start(w)  BY <1>4
  <2>2. UNCHANGED <<journalVars, power>> /\ running' = running /\ previous' = running
        /\ residual' = NoResidual
    BY <2>1 DEF Start
  <2>3. FlowInv'  BY <1>1, <2>1, StartFlow
  <2> QED BY <1>2, <2>2, <2>3, QuietStep, JournalAssumption
<1>5. CASE \E p \in Profile : Calibrate(p)
  <2>1. PICK p \in Profile : Calibrate(p)  BY <1>5
  <2>2. UNCHANGED <<journalVars, power, previous, residual>> /\ running' = p
    BY <2>1 DEF Calibrate
  <2>3. FlowInv'  BY <1>1, <2>1, CalibrateFlow
  <2> QED BY <1>2, <2>2, <2>3, QuietStep
<1>6. CASE \E r \in Measured(steady) : Verify(r)
  <2>1. PICK r \in Measured(steady) : Verify(r)  BY <1>6
  <2>2. UNCHANGED <<journalVars, power, running, previous>> /\ residual' = r
    BY <2>1 DEF Verify
  <2>3. r \in Residual  BY <1>1, <2>1, PanelAssumption DEF PanelTyped
  <2>4. FlowInv'  BY <1>1, <2>1, VerifyFlow
  <2> QED BY <1>2, <2>2, <2>3, <2>4, QuietStep
<1>7. CASE Interrupt
  <2>1. UNCHANGED <<journalVars, power, previous, residual>>
        /\ (running' = previous \/ running' = running)
    BY <1>7 DEF Interrupt, Cancel, Break, Fail
  <2>2. FlowInv'  BY <1>1, <1>7, InterruptFlow
  <2> QED BY <1>2, <2>1, <2>2, QuietStep
<1>8. CASE WaitDone
  <2>1. UNCHANGED <<journalVars, power, running, previous, residual>>
    BY <1>8 DEF WaitDone
  <2>2. FlowInv'  BY <1>1, <1>8, WaitDoneFlow
  <2> QED BY <1>2, <2>1, <2>2, QuietStep
<1>9. CASE WaitTimesOut \/ TryTimesOut
  <2>1. PanelInv' /\ Stored' = Stored  BY <1>9, TimeoutFlow DEF PanelInv
  <2>2. ~steady  BY <1>9 DEF WaitTimesOut, TryTimesOut
  <2> QED BY <2>1, <2>2 DEF StoredStep, CancelStep
<1>10. CASE LoadStored
  <2>1. UNCHANGED <<calActive, auxActive>>  BY <1>10 DEF LoadStored, calVars, auxVars
  <2>2. PanelInv' /\ Stored' = Stored  BY <1>10, LoadStoredFlow DEF PanelInv
  <2> QED BY <2>1, <2>2 DEF StoredStep, CancelStep
<1>11. CASE LeaveOutputTest
  <2>1. UNCHANGED <<journalVars, power, previous, residual>> /\ running' = previous
    BY <1>11 DEF LeaveOutputTest, Fail
  <2>2. FlowInv'  BY <1>1, <1>11, LeaveOutputTestFlow
  <2> QED BY <1>2, <2>1, <2>2, QuietStep
<1>12. CASE CertifyNext \/ CertifyCurrent
  <2>1. PanelInv' /\ Stored' = Stored  BY <1>12, CertifyFlow DEF PanelInv
  <2>2. At("certifyNext") \/ At("certifyCurrent")  BY <1>12 DEF CertifyNext, CertifyCurrent
  <2>3. steady => ~cancelled  BY <1>1, <2>2, Underway
  <2> QED BY <2>1, <2>3 DEF StoredStep, CancelStep
<1>13. CASE Commit
  <2>1. PanelInv' /\ Stored' = Stored  BY <1>13, CommitFlow DEF PanelInv
  <2>2. steady => ~cancelled  BY <1>1, <1>13, Underway DEF Commit
  <2> QED BY <2>1, <2>2 DEF StoredStep, CancelStep
<1>14. CASE ShowPass
  <2>1. UNCHANGED <<journalVars, power, running, previous, residual>>
    BY <1>14 DEF ShowPass
  <2>2. FlowInv'  BY <1>1, <1>14, ShowPassFlow
  <2> QED BY <1>2, <2>1, <2>2, QuietStep
<1>15. CASE ConfirmErase
  <2>1. UNCHANGED <<journalVars, power, running, previous, residual>>
    BY <1>15 DEF ConfirmErase
  <2>2. FlowInv'  BY <1>1, <1>15, ConfirmEraseFlow
  <2> QED BY <1>2, <2>1, <2>2, QuietStep
<1>16. CASE BeginEraseCertificate \/ BeginEraseJournal
  <2>1. PanelInv' /\ Stored' = Stored  BY <1>16, EraseFlow DEF PanelInv
  <2>2. At("eraseCertificate") \/ At("eraseJournal")
    BY <1>16 DEF BeginEraseCertificate, BeginEraseJournal
  <2>3. steady => ~cancelled  BY <1>1, <2>2, Underway
  <2> QED BY <2>1, <2>3 DEF StoredStep, CancelStep
<1>17. CASE EraseRefused
  <2>1. UNCHANGED <<journalVars, power, previous, residual>> /\ running' = previous
    BY <1>17 DEF EraseRefused, Fail
  <2>2. FlowInv'  BY <1>1, <1>17, EraseRefusedFlow
  <2> QED BY <1>2, <2>1, <2>2, QuietStep
<1>18. CASE Reset
  <2>1. UNCHANGED <<calActive, auxActive>>  BY <1>18 DEF Reset, calVars, auxVars
  <2>2. PanelInv' /\ Stored' = Stored  BY <1>18, ResetFlow DEF PanelInv
  <2> QED BY <2>1, <2>2 DEF StoredStep, CancelStep
<1>19. CASE Poll
  <2>1. PanelInv' /\ Stored' = Stored  BY <1>19, PollFlow DEF PanelInv
  <2>2. (calActive' => calActive) /\ (auxActive' => auxActive)
    BY <1>1, <1>19, ServiceKeepsJournal DEF Poll, panelVars
  <2> QED BY <2>1, <2>2 DEF StoredStep, CancelStep
<1>20. CASE Program
  <2>1. UNCHANGED <<calActive, auxActive>>
    BY <1>20 DEF Program, ByteProgrammed, Cal!Programmed, auxVars
  <2> QED BY <1>20, <2>1, ProgramFlow DEF PanelInv, CancelStep
<1>21. CASE PowerLoss
  <2>1. ~calActive' /\ ~auxActive'  BY <1>21 DEF PowerLoss, LosePower, Cal!LosePower
  <2> QED BY <1>21, <2>1, PowerLossFlow DEF PanelInv, CancelStep
<1> QED BY <1>3, <1>4, <1>5, <1>6, <1>7, <1>8, <1>9, <1>10, <1>11, <1>12, <1>13, <1>14,
         <1>15, <1>16, <1>17, <1>18, <1>19, <1>20, <1>21 DEF Step

LEMMA PanelNext ==
  ASSUME PanelInv, [Next]_vars
  PROVE  PanelInv' /\ StoredStep /\ CancelStep
<1>1. CASE Next  BY <1>1, PanelStep DEF Next
<1>2. CASE UNCHANGED vars
  <2>1. UNCHANGED <<journalVars, power, running, previous, residual, flow, cancelled, steady>>
    BY <1>2 DEF vars, panelVars
  <2>2. PanelTyped /\ FlowInv  BY DEF PanelInv
  <2>3. FlowInv'
    <3>1. UNCHANGED <<calActive, auxActive>> /\ Stored' = Stored /\ (Busy' <=> Busy)
      BY <2>1, Unmoved
    <3>2. /\ IsStored(previous)' <=> IsStored(previous)
          /\ IsStored(running)' <=> IsStored(running)
      BY <2>1, <3>1 DEF IsStored
    <3>3. /\ SaveKept' <=> SaveKept
          /\ CertifyKept' <=> CertifyKept
          /\ CertifyReady' <=> CertifyReady
          /\ ClearAhead' <=> ClearAhead
          /\ EraseKept' <=> EraseKept
      BY <2>1, Unmoved
    <3>4. (Resting' <=> Resting) /\ (Choosing' <=> Choosing) /\ (Measuring' <=> Measuring)
      BY <2>1, <3>1, <3>2 DEF Resting, Choosing, Measuring
    <3>5. /\ Loading' <=> Loading
          /\ ReadyToSave' <=> ReadyToSave
          /\ Verifying' <=> Verifying
      BY <2>1, <3>1, <3>2 DEF Loading, ReadyToSave, Verifying
    <3>6. /\ Certifying' <=> Certifying
          /\ Committing' <=> Committing
          /\ Keeping' <=> Keeping
          /\ Kept' <=> Kept
      BY <2>1, <3>1, <3>2, <3>3 DEF Certifying, Committing, Keeping, Kept
    <3>7. /\ PlainKeeping' <=> PlainKeeping
          /\ PlainKept' <=> PlainKept
          /\ Clearing' <=> Clearing
          /\ Cleared' <=> Cleared
          /\ Wiping' <=> Wiping
          /\ Wiped' <=> Wiped
      BY <2>1, <3>1, <3>2, <3>3 DEF PlainKeeping, PlainKept, Clearing, Cleared, Wiping, Wiped
    <3> QED BY <2>1, <2>2, <3>4, <3>5, <3>6, <3>7 DEF FlowInv
  <2> QED BY <2>1, <2>2, <2>3, QuietStep DEF PanelTyped
<1> QED BY <1>1, <1>2

(* What the theorems below rest on: the writers, the journal, and where the
   workflow stands. *)
THEOREM PanelAlwaysInv == Spec => []PanelInv
<1>1. PanelInv /\ [Next]_vars => PanelInv'  BY PanelNext
<1> QED BY <1>1, PanelInit, PTL DEF Spec

-----------------------------------------------------------------------------
(* What the panel promises *)

LEMMA InvImpliesSound ==
  ASSUME PanelInv
  PROVE  JournalIsSound
<1>1. JournalInv /\ power \in {"off", "panel"}  BY DEF PanelInv, PanelTyped
<1>2. CertificateComplete /\ Consecutive /\ WritersInv  BY <1>1 DEF JournalInv
<1>3. ASSUME power = "panel", ~calActive, ValidRecords # {}
      PROVE  activeIndex = Latest /\ generation = GenerationIn(Latest)
  <2>1. HeadInv /\ ~pendingCommit  BY <1>1, <1>2, <1>3 DEF JournalInv, WritersInv
  <2> QED BY <1>3, <2>1 DEF HeadInv, HeadIs
<1> QED BY <1>2, <1>3 DEF JournalIsSound, HeadIsLatest, Consecutive

LEMMA InvImpliesTrueSignals ==
  ASSUME PanelInv
  PROVE  SignalsAreTrue
<1>1. JournalInv /\ FlowInv  BY DEF PanelInv
<1>2. WritersInv  BY <1>1 DEF JournalInv
<1>3. At("match") => Stored = {running} /\ Certified
  <2> SUFFICES ASSUME At("match") PROVE Stored = {running} /\ Certified  OBVIOUS
  <2>1. Kept /\ power = "panel"  BY <1>1, AtPersistence, Underway
  <2>2. ~calActive /\ ~auxActive /\ ~pendingCommit  BY <2>1 DEF Kept, Busy
  <2>3. Stored = {running}  BY <2>1, <2>2 DEF Kept, SaveKept, SaveAhead
  <2>4. CertificateMarker = MarkerFor(generation)
    BY <2>1, <2>2 DEF Kept, CertifyKept, CertifyAhead, LatestGeneration
  <2>5. ValidRecords # {}  BY <2>3 DEF Stored
  <2>6. GenerationIn(Latest) = generation
    BY <1>1, <2>1, <2>2, <2>5 DEF JournalInv, HeadInv, HeadIs
  <2>7. generation \in Generation  BY <1>1, TypedJournal DEF JournalInv, Typed
  <2> QED BY <2>3, <2>4, <2>5, <2>6, <2>7
          DEF Certified, CertifiedGenerations, CertificateMarker
<1>4. At("pass") => Stored = {running}
  BY <1>1, AtPersistence DEF PlainKept, Busy, SaveKept, SaveAhead
<1>5. Erasing => CertifiedGenerations = {}
  <2> SUFFICES ASSUME Erasing PROVE CertifiedGenerations = {}  OBVIOUS
  <2>1. calActive  BY DEF Erasing
  <2>2. ~(pendingCommit /\ SaveJob)  BY <1>1, SaveIsNoErase DEF JournalInv
  <2> QED BY <1>2, <2>1, <2>2 DEF WritersInv, EraseJob
<1>6. At("reset") => Stored = {} /\ CertifiedGenerations = {}
  BY <1>1, AtErase DEF Wiped, Busy, ClearAhead, EraseKept, EraseAhead, Stored
<1> QED BY <1>3, <1>4, <1>5, <1>6 DEF SignalsAreTrue, PassMeansKept, EraseNeverCertifies

LEMMA InvImpliesRunningStored ==
  ASSUME PanelInv
  PROVE  RunningIsStored
<1> SUFFICES ASSUME steady, power = "panel", flow = <<>>
             PROVE  IF Stored = {} THEN running = FactoryProfile ELSE Stored = {running}
  BY DEF RunningIsStored
<1>1. Resting  BY AtRest DEF PanelInv
<1> QED BY <1>1 DEF Resting, IsStored

(* Between any two bytes, and after any power loss: two valid records are
   consecutive generations, so that CalibrationReader's cyclic order picks the
   later one across the wrap; an idle store's head is the record a power-up
   would load; and a certificate counts only with its residuals complete. *)
THEOREM JournalAlwaysSound == Spec => []JournalIsSound
BY PanelAlwaysInv, InvImpliesSound, PTL

(* Where the panel shows PASS, the profile in use is the stored one and, after
   a workflow that verified it, the certificate is of its generation; from the
   first byte of a journal erase on nothing is certified, and when the erase is
   reported nothing is left. *)
THEOREM SignalsAlwaysTrue == Spec => []SignalsAreTrue
BY PanelAlwaysInv, InvImpliesTrueSignals, PTL

(* However the last workflow ended (PASS, cancelled, failed or erased), the
   profile in use between workflows is the one a power-up would load, or the
   factory profile when nothing is stored; under steady buttons and waits that
   do not give up. *)
THEOREM RunningAlwaysStored == Spec => []RunningIsStored
BY PanelAlwaysInv, InvImpliesRunningStored, PTL

(* What a power-up loads changes only by a save, in one step and to the saved
   profile, or by an erase, to what was stored before or to nothing; and under
   steady buttons a workflow whose prompt was cancelled begins no job. *)
THEOREM StoreOnlyChangesBySaves == Spec => OnlySavesChangeTheStore
<1>1. PanelInv /\ [Next]_vars => [StoredStep]_vars /\ [CancelStep]_vars  BY PanelNext
<1>2. Spec => [][StoredStep]_vars /\ [][CancelStep]_vars
  BY <1>1, PanelAlwaysInv, PTL DEF Spec
<1> QED BY <1>2, PTL DEF OnlySavesChangeTheStore, StoredChangesBySave, CancelCommitsNothing,
   StoredStep, CancelStep
=============================================================================
