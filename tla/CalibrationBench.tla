--------------------------- MODULE CalibrationBench ---------------------------
(***************************************************************************)
(* The measurements of the maintenance panel for one channel               *)
(* (calibrateAdcChannel, selfCalibrateDacChannel, verifyDacChannel in      *)
(* CalibrationPanelController.cpp), with the converters they are made on:  *)
(* an input and an output whose gain and offset are off and whose line is  *)
(* bowed, and a noise that averaging leaves in every reading.  Module      *)
(* CalibrationPanel has when they are called and what is stored of them.   *)
(*                                                                         *)
(* A voltage is counted in half codes of an ideal output.                  *)
(***************************************************************************)
EXTENDS CalibrationSolver

CONSTANTS
    InputErrors, OutputErrors,  \* what is wrong with the converters
    GoodInputs, GoodOutputs,    \* those of a module that is in order
    OutputAccuracy,             \* how far a note may be off as a voltage
    LoopAccuracy,               \* and as a pitch, when it is read back
    AdcNoise, LoopNoise,        \* codes by which an average may be off
    FitTolerance,               \* kMaintenanceAdcFitToleranceCodes
    VerificationTolerance,      \* kMaintenanceAdcVerificationToleranceCodes
    ZeroRawMaximum,             \* kMaintenanceAdcZeroRawMaximumCode
    MaxFitResidual,             \* kSelfCalibrationMaxFitResidualDacCodes
    MaxVerifyResidual           \* kSelfCalibrationMaxVerifyResidualDacCodes

\* The gain in percent, the offset and the bow in the middle of the range in codes.
HardwareError == [gain : Nat, offset : Int, bow : Int]

ASSUME BenchAssumption ==
    /\ InputErrors \cup OutputErrors \subseteq HardwareError
    /\ AdcNoise \cup LoopNoise \subseteq Int
    /\ {FitTolerance, VerificationTolerance, ZeroRawMaximum, MaxFitResidual,
        MaxVerifyResidual} \subseteq Nat

SelfFitDacCodes == <<384, 1024, 2048, 3072, 3712>>      \* kSelfFitDacCodes
SelfVerifyDacCodes == <<640, 1536, 2560, 3456>>         \* kSelfVerifyDacCodes

VARIABLES
    input,      \* the errors of the channel's input
    output,     \* the errors of its output
    step,       \* which sequence of measurements runs, or how it ended
    samples,    \* rawFitPoints, samples[].adcCode: the fit points so far
    fit,        \* fit.calibration of the input
    verified,   \* verification points passed
    adc, dac    \* working.adc[channel], working.dac[channel]

vars == <<input, output, step, samples, fit, verified, adc, dac>>

TypeOK ==
    /\ input \in InputErrors
    /\ output \in OutputErrors
    /\ step \in {"adcFit", "adcVerify", "dacFit", "dacVerify", "accepted",
                 "rejected", "unstable"}
    /\ samples \in Seq(AdcCode)
    /\ fit \in LinearCalibration
    /\ verified \in 0 .. 4
    /\ adc \in LinearCalibration
    /\ dac \in LinearCalibration

Init ==
    /\ input \in InputErrors
    /\ output \in OutputErrors
    /\ step = "adcFit"
    /\ samples = <<>>
    /\ fit = FactoryCalibration
    /\ verified = 0
    /\ adc = FactoryCalibration
    /\ dac = FactoryCalibration

-----------------------------------------------------------------------------
(***************************************************************************)
(* The converters                                                          *)
(***************************************************************************)

TopVoltage == 2 * DacMaximumCode
OfVolts(volts) == (TopVoltage * volts) \div 10

\* The share of the bow at a voltage, in percent.
Bow(voltage) ==
    (voltage * (TopVoltage - voltage)) \div ((TopVoltage * TopVoltage) \div 400)

InputReads(voltage, noise) ==
    Clamp((voltage * AdcMaximumCode * input.gain) \div (TopVoltage * 100)
              + input.offset + (input.bow * Bow(voltage)) \div 100 + noise,
          0, AdcMaximumCode)

OutputPlays(code) ==
    Clamp(2 * ((code * output.gain) \div 100 + output.offset
                   + (output.bow * Bow(2 * code)) \div 100),
          0, 2 * TopVoltage)

LoopReads(code, noise) ==
    ApplyAdcCalibration(InputReads(OutputPlays(code), noise), adc)

-----------------------------------------------------------------------------
(***************************************************************************)
(* The input                                                               *)
(***************************************************************************)

Ends(outcome) ==
    /\ step' = outcome
    /\ UNCHANGED <<input, output, samples, fit, verified, adc, dac>>

\* A capture that times out or whose values spread too far ends the workflow, and
\* so does a cancel at a prompt.
CaptureFails ==
    /\ step \in {"adcFit", "adcVerify", "dacFit", "dacVerify"}
    /\ Ends("unstable")

MeasureVoltage ==
    /\ step = "adcFit"
    /\ Len(samples) < 5
    /\ \E noise \in AdcNoise :
        samples' = Append(samples,
                          InputReads(OfVolts(AdcFitVolts[Len(samples) + 1]), noise))
    /\ UNCHANGED <<input, output, step, fit, verified, adc, dac>>

SolveInput ==
    /\ step = "adcFit"
    /\ Len(samples) = 5
    /\ LET solved == SolveAdcMultiPointCalibration(samples)
       IN  IF solved.status # "Ok" \/ solved.residual > FitTolerance
           THEN Ends("rejected")
           ELSE /\ fit' = solved.calibration
                /\ step' = "adcVerify"
                /\ samples' = <<>>
                /\ UNCHANGED <<input, output, verified, adc, dac>>

\* Zero volts are judged by what was read, as the conversion hides an offset there.
VoltageIsRight(volts, raw) ==
    IF volts = 0 THEN raw <= ZeroRawMaximum
    ELSE AbsoluteDifference(ApplyAdcCalibration(raw, fit), NominalAdcCodeForVolts(volts))
            <= VerificationTolerance

\* The verified line goes into the working profile, and the next workflow starts.
VerifyVoltage ==
    /\ step = "adcVerify"
    /\ \E noise \in AdcNoise :
        LET volts == AdcVerificationVolts[verified + 1]
        IN  IF ~VoltageIsRight(volts, InputReads(OfVolts(volts), noise))
            THEN Ends("rejected")
            ELSE /\ verified' = (verified + 1) % 5
                 /\ IF verified' # 0
                    THEN UNCHANGED <<step, adc>>
                    ELSE /\ adc' = fit
                         /\ step' = "dacFit"
                 /\ UNCHANGED <<input, output, samples, fit, dac>>

-----------------------------------------------------------------------------
(***************************************************************************)
(* The output, patched to the input                                        *)
(***************************************************************************)

MeasureLoop ==
    /\ step = "dacFit"
    /\ Len(samples) < 5
    /\ \E noise \in LoopNoise :
        samples' = Append(samples, LoopReads(SelfFitDacCodes[Len(samples) + 1], noise))
    /\ UNCHANGED <<input, output, step, fit, verified, adc, dac>>

SolveOutput ==
    /\ step = "dacFit"
    /\ Len(samples) = 5
    /\ LET solved == SolveDacSelfCalibration(SelfFitDacCodes, samples)
       IN  IF solved.status # "Ok" \/ solved.residual > MaxFitResidual
           THEN Ends("rejected")
           ELSE /\ dac' = solved.calibration
                /\ step' = "dacVerify"
                /\ samples' = <<>>
                /\ UNCHANGED <<input, output, fit, verified, adc>>

CodeIsRight(nominal, read) ==
    AbsoluteDifference(AdcCodeToEquivalentDac(read), nominal) <= MaxVerifyResidual

VerifyLoop ==
    /\ step = "dacVerify"
    /\ \E noise \in LoopNoise :
        LET nominal == SelfVerifyDacCodes[verified + 1]
        IN  IF ~CodeIsRight(nominal, LoopReads(ApplyDacCalibration(nominal, dac), noise))
            THEN Ends("rejected")
            ELSE /\ verified' = (verified + 1) % 4
                 /\ step' = IF verified' = 0 THEN "accepted" ELSE step
                 /\ UNCHANGED <<input, output, samples, fit, adc, dac>>

-----------------------------------------------------------------------------

Next ==
    \/ CaptureFails
    \/ MeasureVoltage \/ SolveInput \/ VerifyVoltage
    \/ MeasureLoop \/ SolveOutput \/ VerifyLoop

Spec == Init /\ [][Next]_vars

-----------------------------------------------------------------------------
(***************************************************************************)
(* Properties                                                              *)
(***************************************************************************)
\* The semitones whose codes lie between the first and the last that are measured.
MeasuredNotes ==
    {note \in Semitone : SemitonesToNominalDac(note * One) \in
                            SelfFitDacCodes[1] .. SelfFitDacCodes[5]}

Played(note) == OutputPlays(SemitonesToDac(note * One, dac))

NoteVoltage(note) == (TopVoltage * note) \div MaxSemitone

Within(distance, a, b) == -distance <= a - b /\ a - b <= distance

(* What the four points of the verification let through bounds every note
   between them: on an accepted channel a note that is played and read back is
   off by at most LoopAccuracy, whatever was wrong with the converters. *)
NotesSurviveTheLoop ==
    step = "accepted" =>
        \A note \in MeasuredNotes :
            Within(LoopAccuracy, AdcToSemitones(InputReads(Played(note), 0), adc), note * One)

(* The output is only ever compared with the input, whose own error it inherits:
   on an accepted channel each note is still within OutputAccuracy of its
   voltage. *)
VoltagesAreTrue ==
    step = "accepted" =>
        \A note \in MeasuredNotes :
            Within(OutputAccuracy, Played(note), NoteVoltage(note))

(* No rounding on the way, of the mean, the gain, the offset or the residual,
   uses up a tolerance: converters whose lines are straight and whose gain and
   offset are those of good parts are never rejected. *)
GoodModulesPass ==
    input \in GoodInputs /\ output \in GoodOutputs => step # "rejected"
=============================================================================
