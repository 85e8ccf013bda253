-------------------------- MODULE CalibrationPanel --------------------------
(***************************************************************************)
(* The maintenance image (CalibrationFirmwareController.cpp) from the end  *)
(* of the live-state migration on, and its panel workflows                 *)
(* (CalibrationPanelController.cpp): blocking wizards that measure, verify *)
(* and write the calibration journal and the certificate, with power       *)
(* losses between any two bytes.                                           *)
(*                                                                         *)
(* A workflow is the sequence of the steps it has left.                    *)
(***************************************************************************)
EXTENDS CalibrationJournal

CONSTANTS
  FactoryProfile,  \* resetActiveCalibrationProfile()
  Measured(_)      \* bound: the residuals a verification may measure, for
                   \* either value of steady

ASSUME PanelAssumption ==
  FactoryProfile \in Profile /\ \A s \in BOOLEAN : Measured(s) \subseteq Residual

VARIABLES
  power,     \* "off" or "panel"
  running,   \* activeCalibrationProfile()
  previous,  \* previous: what a failed workflow restores
  residual,  \* residualA and residualB, packed
  flow,      \* the steps left of the workflow, <<>> when idle
  cancelled, \* LOAD cancelled a prompt of this workflow
  steady     \* chosen once: a LOAD press lasts until the panel reads it again,
             \* and waitForPersistence() never gives up

panelVars == <<power, running, previous, residual, flow, cancelled>>
vars == <<journalVars, panelVars, steady>>

-----------------------------------------------------------------------------
(* The workflows *)

SaveWithQualification == <<"wait", "certifyNext", "wait", "commit", "wait", "match">>

FullCalibration == <<"adc", "adc", "dac", "dac", "verify">> \o SaveWithQualification
AdcOnly         == <<"adc", "adc", "wait", "commit", "wait", "pass">>
DacOnly         == <<"wait", "adopt", "dac", "dac", "verify">> \o SaveWithQualification
Verification    == <<"wait", "load", "verify", "wait", "certifyCurrent", "wait", "match">>
OutputTest      == <<"try", "measure">>
(* Mutant of EraseAll: the journal goes before the certificate. *)
EraseAllJournalFirst ==
  <<"confirm", "eraseJournal", "wait", "eraseCertificate", "wait", "reset">>

EraseAll        == <<"confirm", "eraseCertificate", "wait", "eraseJournal", "wait", "reset">>

Workflow == {FullCalibration, AdcOnly, DacOnly, Verification, OutputTest, EraseAll}

Init ==
  /\ JournalInit
  /\ power = "off"
  /\ running = FactoryProfile /\ previous = FactoryProfile
  /\ residual = NoResidual
  /\ flow = <<>> /\ cancelled = FALSE
  /\ steady \in BOOLEAN

(* load() and setActiveCalibrationProfile(), or the factory profile. *)
PowerOn ==
  /\ power = "off"
  /\ power' = "panel"
  /\ LoadHead
  /\ running' \in IF Stored = {} THEN {FactoryProfile} ELSE Stored
  /\ UNCHANGED <<deviceVars, calVars, auxVars, pendingVars,
                 previous, residual, flow, cancelled>>

Start(w) ==
  /\ power = "panel" /\ flow = <<>>
  /\ flow' = w
  /\ previous' = running
  /\ residual' = NoResidual
  /\ cancelled' = FALSE
  /\ UNCHANGED <<journalVars, power, running>>

-----------------------------------------------------------------------------
(* Parts of a step *)

At(step) == power = "panel" /\ flow # <<>> /\ Head(flow) = step

Proceed == flow' = Tail(flow)

(* Mutant of Fail: the profile of the failed workflow stays in use. *)
FailUnrestored ==
  /\ flow' = <<>>
  /\ UNCHANGED running

(* failAndRestore() *)
Fail ==
  /\ flow' = <<>>
  /\ running' = previous

(* A prompt is cancelled; the caller sees no error and reads LOAD again. *)
Cancel ==
  /\ cancelled' = TRUE
  /\ \/ Fail
     \/ ~steady /\ Proceed /\ UNCHANGED running
  /\ UNCHANGED <<journalVars, power, previous, residual>>

(* A measurement fails, or LOAD is down when the step has succeeded. *)
Break ==
  /\ Fail
  /\ UNCHANGED <<journalVars, power, previous, residual, cancelled>>

(* calibrateAdcChannel(), selfCalibrateDacChannel(): a new working profile. *)
Calibrate(p) ==
  /\ At("adc") \/ At("dac")
  /\ Proceed
  /\ running' = p
  /\ UNCHANGED <<journalVars, power, previous, residual, cancelled>>

(* verifyBoth() *)
Verify(r) ==
  /\ At("verify")
  /\ Proceed
  /\ residual' = r
  /\ UNCHANGED <<journalVars, power, running, previous, cancelled>>

Interrupt ==
  /\ At("adc") \/ At("dac") \/ At("verify")
  /\ Cancel \/ Break

-----------------------------------------------------------------------------
(* Persistence steps *)

WaitDone ==
  /\ At("wait")
  /\ ~Busy
  /\ Proceed
  /\ UNCHANGED <<journalVars, power, running, previous, residual, cancelled>>

(* The last poll of the wait may do its part before the time is up. *)
WaitTimesOut ==
  /\ At("wait")
  /\ Busy /\ ~steady
  /\ Service \/ UNCHANGED journalVars
  /\ Fail
  /\ UNCHANGED <<power, previous, residual, cancelled>>

(* calibrationStore_.load(), which also moves the journal's head.  The output
   test goes on without a profile; DAC calibration restores the stored one. *)
LoadStored ==
  /\ At("load") \/ At("adopt") \/ (At("try") /\ ~Busy)
  /\ LoadHead
  /\ IF Stored # {}
       THEN /\ running' \in Stored
            /\ previous' = IF At("adopt") THEN running' ELSE previous
            /\ Proceed
       ELSE /\ IF At("try") THEN Proceed ELSE flow' = <<>>
            /\ UNCHANGED <<running, previous>>
  /\ UNCHANGED <<deviceVars, calVars, auxVars, pendingVars,
                 power, residual, cancelled>>

(* The output test falls back to raw mode, without a profile. *)
TryTimesOut ==
  /\ At("try")
  /\ Busy /\ ~steady
  /\ Service \/ UNCHANGED journalVars
  /\ Proceed
  /\ UNCHANGED <<power, running, previous, residual, cancelled>>

LeaveOutputTest ==
  /\ At("measure")
  /\ Fail
  /\ UNCHANGED <<journalVars, power, previous, residual, cancelled>>

CertifyNext ==
  /\ At("certifyNext")
  /\ SaveCertificate((generation + 1) % Generations, residual)
  /\ Proceed
  /\ UNCHANGED <<power, running, previous, residual, cancelled>>

CertifyCurrent ==
  /\ At("certifyCurrent")
  /\ SaveCertificate(generation, residual)
  /\ Proceed
  /\ UNCHANGED <<power, running, previous, residual, cancelled>>

Commit ==
  /\ At("commit")
  /\ SaveProfile(running)
  /\ Proceed
  /\ UNCHANGED <<power, running, previous, residual, cancelled>>

(* The PASS signal: of the whole calibration, or of a plain save.  That the
   head has reached the certified generation, which the code tests here once
   more, is PassMeansKept. *)
ShowPass ==
  /\ At("match") \/ At("pass")
  /\ Proceed
  /\ UNCHANGED <<journalVars, power, running, previous, residual, cancelled>>

-----------------------------------------------------------------------------
(* The erase workflow *)

ConfirmErase ==
  /\ At("confirm")
  /\ \/ Proceed /\ UNCHANGED cancelled
     \/ flow' = <<>> /\ cancelled' = TRUE
  /\ UNCHANGED <<journalVars, power, running, previous, residual>>

BeginEraseCertificate ==
  /\ At("eraseCertificate")
  /\ EraseCertificate
  /\ Proceed
  /\ UNCHANGED <<power, running, previous, residual, cancelled>>

(* The other writer may still be busy with a save whose wait timed out. *)
EraseRefused ==
  /\ At("eraseCertificate") /\ auxActive
  /\ Fail
  /\ UNCHANGED <<journalVars, power, previous, residual, cancelled>>

BeginEraseJournal ==
  /\ At("eraseJournal")
  /\ EraseJournal
  /\ Proceed
  /\ UNCHANGED <<power, running, previous, residual, cancelled>>

Reset ==
  /\ At("reset")
  /\ LoadHead
  /\ running' = FactoryProfile
  /\ Proceed
  /\ UNCHANGED <<deviceVars, calVars, auxVars, pendingVars,
                 power, previous, residual, cancelled>>

-----------------------------------------------------------------------------
Poll ==
  /\ power = "panel"
  /\ Service
  /\ UNCHANGED panelVars

Program ==
  /\ ByteProgrammed
  /\ UNCHANGED panelVars

PowerLoss ==
  /\ power = "panel"
  /\ power' = "off"
  /\ LosePower
  /\ flow' = <<>> /\ cancelled' = FALSE
  /\ running' = FactoryProfile /\ previous' = FactoryProfile
  /\ residual' = NoResidual

Step ==
  \/ PowerOn
  \/ \E w \in Workflow : Start(w)
  \/ \E p \in Profile : Calibrate(p)
  \/ \E r \in Measured(steady) : Verify(r)
  \/ Interrupt
  \/ WaitDone \/ WaitTimesOut
  \/ LoadStored \/ TryTimesOut \/ LeaveOutputTest
  \/ CertifyNext \/ CertifyCurrent \/ Commit
  \/ ShowPass
  \/ ConfirmErase \/ BeginEraseCertificate \/ EraseRefused
  \/ BeginEraseJournal \/ Reset
  \/ Poll \/ Program
  \/ PowerLoss

Next == Step /\ UNCHANGED steady

Spec == Init /\ [][Next]_vars

-----------------------------------------------------------------------------
(* Properties *)

Remaining == {SubSeq(w, i + 1, Len(w)) : w \in Workflow, i \in 0 .. 11}

TypeOK ==
  /\ JournalTypeOK
  /\ power \in {"off", "panel"}
  /\ running \in Profile /\ previous \in Profile
  /\ residual \in Residual
  /\ flow \in Remaining
  /\ cancelled \in BOOLEAN /\ steady \in BOOLEAN

Erasing == calActive /\ calQueue = Cal!EraseOps(<<0, 1>>)

(* What a power-up loads changes only by a save, in one step and to the saved
   profile, or by an erase, which may bring back the older record but never
   anything that was not stored before. *)
StoredChangesBySave ==
  [][ Stored' # Stored =>
        IF Erasing
          THEN Stored' \subseteq {Cal!BodyOf(eeprom, i).content : i \in ValidRecords}
          ELSE calActive /\ Stored' = {calQueue[2].byte.content} ]_vars

(* Two valid records are consecutive generations, so that the cyclic order
   picks the later one across the wrap; and while the writer is idle the
   store's head is the record a power-up would pick. *)
HeadIsLatest ==
  /\ ValidRecords = JournalRecord =>
       (GenerationIn(Latest) - GenerationIn(1 - Latest)) % Generations = 1
  /\ power = "panel" /\ ~calActive /\ ValidRecords # {} =>
       activeIndex = Latest /\ generation = GenerationIn(Latest)

(* A PASS signal means that the profile in use is the stored one and, for a
   workflow that verified it, that the certificate matches its generation. *)
PassMeansKept ==
  /\ At("match") => Stored = {running} /\ Certified
  /\ At("pass") => Stored = {running}

(* From the first byte of a journal erase on, nothing is certified, so that an
   older profile an interrupted erase leaves behind is not either; when the
   workflow reports the erase, nothing is left. *)
EraseNeverCertifies ==
  /\ Erasing => CertifiedGenerations = {}
  /\ At("reset") => Stored = {} /\ CertifiedGenerations = {}

(* Each signal the panel shows at the end of a workflow is true of the EEPROM:
   PASS of what is in use, and the reset of everything. *)
SignalsAreTrue == PassMeansKept /\ EraseNeverCertifies

(* A certificate is never seen with residuals that are not fully written. *)
CertificateComplete ==
  CertifiedGenerations # {} =>
    \E r \in Residual : eeprom[<<Certificate, 1>>] = [seq |-> 0, content |-> r]

(* Whenever power fails, the journal and the certificate read as they were
   written: the newer record is the later one, and nothing half-written counts. *)
JournalIsSound == HeadIsLatest /\ CertificateComplete

(* Between workflows the profile in use is the one a power-up would load,
   however the last workflow ended; under steady buttons and timely writes. *)
RunningIsStored ==
  steady /\ power = "panel" /\ flow = <<>> =>
    IF Stored = {} THEN running = FactoryProfile ELSE Stored = {running}

(* A workflow whose prompt was cancelled with LOAD begins no EEPROM job;
   under steady buttons. *)
CancelCommitsNothing ==
  [][ steady /\ ((calActive' /\ ~calActive) \/ (auxActive' /\ ~auxActive))
        => ~cancelled ]_vars

(* The EEPROM changes by what was saved or erased on purpose, and by nothing else. *)
OnlySavesChangeTheStore == StoredChangesBySave /\ CancelCommitsNothing
=============================================================================
