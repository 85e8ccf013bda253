------------------------- MODULE CalibrationJournal -------------------------
(***************************************************************************)
(* The persistent calibration data: the redundant journal of two profile   *)
(* records (CalibrationReader.cpp, CalibrationStore.cpp) and the two-byte  *)
(* certificate bound to a generation (CalibrationQualificationStore.cpp).  *)
(* Each store has a writer of its own; both writers share one EEPROM.      *)
(***************************************************************************)
EXTENDS Integers, Sequences

CONSTANTS
  Profile,         \* calibration profiles
  Residual,        \* packed maximum residuals of both channels
  NoResidual,      \* residuals 0/0: what the panel's variables start with
  Qualified,       \* 0xD0, the high nibble of the certificate's marker
  Generations,     \* generation numbers in use (16 in the firmware)
  BodyLen, Marked, Erased, Torn

ASSUME JournalAssumption ==
  /\ Generations \in Nat /\ Generations >= 4
  /\ NoResidual \in Residual
  /\ Profile \cap Residual = {} /\ Qualified \notin Profile \cup Residual

JournalRecord == {0, 1}
Certificate   == 2
Generation    == 0 .. Generations - 1

VARIABLES
  eeprom, writing,                   \* the device
  calQueue, calPos, calActive,       \* calibrationWriter_
  auxQueue, auxPos, auxActive,       \* auxWriter, behind qualificationStore_
  activeIndex, generation,           \* activeIndex_ and generation_
  pendingIndex, pendingGeneration, pendingCommit

deviceVars  == <<eeprom, writing>>
calVars     == <<calQueue, calPos, calActive>>
auxVars     == <<auxQueue, auxPos, auxActive>>
headVars    == <<activeIndex, generation>>
pendingVars == <<pendingIndex, pendingGeneration, pendingCommit>>
journalVars == <<deviceVars, calVars, auxVars, headVars, pendingVars>>

Payload == Profile \cup Residual \cup {Qualified}

Cal == INSTANCE EepromWriter WITH
         Record <- JournalRecord \cup {Certificate}, Content <- Payload,
         queue <- calQueue, pos <- calPos, active <- calActive

Aux == INSTANCE EepromWriter WITH
         Record <- JournalRecord \cup {Certificate}, Content <- Payload,
         queue <- auxQueue, pos <- auxPos, active <- auxActive

ASSUME CellAssumption ==
  /\ BodyLen \in Nat \ {0}
  /\ Marked \notin Cal!Image /\ Erased \notin Cal!Image /\ Torn \notin Cal!Image
  /\ Marked # Erased /\ Marked # Torn /\ Erased # Torn

-----------------------------------------------------------------------------
(* CalibrationReader *)

ValidRecords == {i \in JournalRecord : Cal!Valid(eeprom, i)}

GenerationIn(i) == Cal!BodyOf(eeprom, i).seq

(* Mutant of IsNewer: generations compared without the wrap. *)
IsNewerPlain(g, reference) == g > reference

(* generationIsNewer(): cyclic, by less than half of the generations. *)
IsNewer(g, reference) ==
  LET delta == (g - reference) % Generations
  IN  delta # 0 /\ delta < Generations \div 2

(* The second record wins only when it is newer than a valid first one. *)
Latest ==
  CHOOSE i \in ValidRecords :
    ValidRecords = JournalRecord =>
      (i = 1 <=> IsNewer(GenerationIn(1), GenerationIn(0)))

(* What load() puts out, as a set of at most one profile. *)
Stored ==
  IF ValidRecords = {} THEN {} ELSE {Cal!BodyOf(eeprom, Latest).content}

LoadHead ==
  IF ValidRecords = {}
    THEN activeIndex' = 1 /\ generation' = Generations - 1
    ELSE activeIndex' = Latest /\ generation' = GenerationIn(Latest)

-----------------------------------------------------------------------------
(* CalibrationStore *)

(* Mutant of SaveProfile: the record a power-up would load is overwritten. *)
SaveProfileInPlace(p) ==
  LET next == (generation + 1) % Generations
  IN  /\ ~pendingCommit
      /\ Cal!Begin(Cal!RecordOps(activeIndex, [seq |-> next, content |-> p]))
      /\ pendingIndex' = activeIndex
      /\ pendingGeneration' = next
      /\ pendingCommit' = TRUE
      /\ UNCHANGED <<auxVars, headVars>>

SaveProfile(p) ==
  LET index == (activeIndex + 1) % 2
      next  == (generation + 1) % Generations
  IN  /\ ~pendingCommit
      /\ Cal!Begin(Cal!RecordOps(index, [seq |-> next, content |-> p]))
      /\ pendingIndex' = index
      /\ pendingGeneration' = next
      /\ pendingCommit' = TRUE
      /\ UNCHANGED <<auxVars, headVars>>

EraseJournal ==
  /\ ~pendingCommit
  /\ Cal!Begin(Cal!EraseOps(<<0, 1>>))
  /\ UNCHANGED <<auxVars, headVars, pendingVars>>

ObserveWriter(busy) ==
  IF pendingCommit /\ ~busy
    THEN /\ activeIndex' = pendingIndex
         /\ generation' = pendingGeneration
         /\ pendingCommit' = FALSE
         /\ UNCHANGED <<pendingIndex, pendingGeneration>>
    ELSE UNCHANGED <<headVars, pendingVars>>

-----------------------------------------------------------------------------
(* CalibrationQualificationStore *)

MarkerFor(g) == [seq |-> g, content |-> Qualified]

CertifiedGenerations ==
  {g \in Generation : eeprom[<<Certificate, 0>>] = MarkerFor(g)}

CertificateOps(g, residual) ==
  << [cell |-> <<Certificate, 0>>, byte |-> Erased],
     [cell |-> <<Certificate, 1>>, byte |-> [seq |-> 0, content |-> residual]],
     [cell |-> <<Certificate, 0>>, byte |-> MarkerFor(g)] >>

SaveCertificate(g, residual) ==
  /\ Aux!Begin(CertificateOps(g, residual))
  /\ UNCHANGED <<calVars, headVars, pendingVars>>

EraseCertificate ==
  /\ Aux!Begin(<<[cell |-> <<Certificate, 0>>, byte |-> Erased],
                 [cell |-> <<Certificate, 1>>, byte |-> Erased]>>)
  /\ UNCHANGED <<calVars, headVars, pendingVars>>

(* A profile is stored and a certificate matches its generation: the report
   printed at power-up says OVERALL: PASS. *)
Certified ==
  ValidRecords # {} /\ GenerationIn(Latest) \in CertifiedGenerations

-----------------------------------------------------------------------------
Busy == calActive \/ auxActive \/ pendingCommit

(* service() of the panel gives each writer a turn, in which it moves when the
   device is ready; the second one can move in the same poll when the first has met
   a byte that its cell holds already, or has ended its job.  A turn is a step
   here, and the turns are taken in any order, so those of the code are among
   them. *)
Service ==
  \/ /\ Cal!Submit \/ Cal!Finish
     /\ ObserveWriter(calActive')
     /\ UNCHANGED auxVars
  \/ /\ Aux!Submit \/ Aux!Finish
     /\ UNCHANGED <<calVars, headVars, pendingVars>>

ByteProgrammed ==
  /\ Cal!Programmed
  /\ UNCHANGED <<auxVars, headVars, pendingVars>>

(* RAM is lost; the constructors' values come back. *)
LosePower ==
  /\ Cal!LosePower
  /\ auxQueue' = <<>> /\ auxPos' = 0 /\ auxActive' = FALSE
  /\ activeIndex' = 1 /\ generation' = Generations - 1
  /\ pendingCommit' = FALSE /\ pendingIndex' = 0 /\ pendingGeneration' = 0

JournalInit ==
  /\ eeprom = [c \in Cal!Cell |-> Erased] /\ writing = {}
  /\ calQueue = <<>> /\ calPos = 0 /\ calActive = FALSE
  /\ auxQueue = <<>> /\ auxPos = 0 /\ auxActive = FALSE
  /\ activeIndex = 1 /\ generation = Generations - 1
  /\ pendingIndex = 0 /\ pendingGeneration = 0 /\ pendingCommit = FALSE

JournalTypeOK ==
  /\ Cal!WriterTypeOK /\ Aux!WriterTypeOK
  /\ activeIndex \in JournalRecord /\ pendingIndex \in JournalRecord
  /\ generation \in Generation /\ pendingGeneration \in Generation
  /\ pendingCommit \in BOOLEAN
=============================================================================
