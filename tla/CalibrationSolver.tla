-------------------------- MODULE CalibrationSolver --------------------------
(***************************************************************************)
(* How the maintenance image computes a calibration from what it has       *)
(* measured: the line through five voltages at an input                    *)
(* (AdcCalibration.cpp), and the line through five codes of an output that *)
(* is patched back to the calibrated input (SelfCalibration.cpp).          *)
(***************************************************************************)
EXTENDS PitchConversion, Sequences

CONSTANTS
    MinimumEightVoltSpan,   \* kMinimumEightVoltSpan
    GainBits,               \* kGainQuantizationDenominator is 2 ^ GainBits
    GainMaximum,            \* UINT16_MAX
    OffsetMaximum,          \* INT16_MAX
    MinimumRawSpan,         \* kMinimumRawSpan
    MaximumDacOffset        \* kMaximumAbsoluteOffset

ASSUME SolverAssumption ==
    {MinimumEightVoltSpan, GainBits, GainMaximum, OffsetMaximum, MinimumRawSpan,
     MaximumDacOffset} \subseteq Nat

Gcd[a \in Nat, b \in Nat] == IF b # 0 THEN Gcd[b, a % b] ELSE IF a # 0 THEN a ELSE 1

(* Mutant of AbsoluteDifference: the sign is kept, so that what is too low passes. *)
SignedDifference(a, b) == a - b

AbsoluteDifference(a, b) == IF a >= b THEN a - b ELSE b - a

RoundedSignedDivision(numerator, denominator) ==
    IF numerator >= 0 THEN RoundedQuotient(numerator, denominator)
    ELSE -RoundedQuotient(-numerator, denominator)

Gain(numerator, denominator, offset) ==
    LET divisor == Gcd[numerator, denominator]
    IN  [offset |-> offset, gainNumerator |-> numerator \div divisor,
         gainDenominator |-> denominator \div divisor]

Increasing(codes) == \A i \in DOMAIN codes : i > 1 => codes[i - 1] < codes[i]

Solved(calibration, residuals) ==
    [status |-> "Ok", calibration |-> calibration, residual |-> Max(residuals)]

Unsolved(status) ==
    [status |-> status, calibration |-> FactoryCalibration, residual |-> 0]

-----------------------------------------------------------------------------
(***************************************************************************)
(* An input                                                                *)
(***************************************************************************)

AdcFitVolts == <<1, 3, 5, 7, 9>>            \* kAdcCalibrationFitVolts
AdcVerificationVolts == <<0, 2, 4, 6, 8>>   \* kAdcCalibrationVerificationVolts
AdcFitPoints == DOMAIN AdcFitVolts

(* Mutant of NominalAdcCodeForVolts: the code of a volt is rounded before it is
   multiplied. *)
WholeCodesPerVolt(volts) == RoundedQuotient(AdcMaximumCode, 10) * Clamp(volts, 0, 10)

NominalAdcCodeForVolts(volts) == RoundedQuotient(AdcMaximumCode * Clamp(volts, 0, 10), 10)

\* The code multiplies by the denominator in 64 bits; here the quotient gets one
\* bit after the other.
QuantizedGain(numerator, denominator) ==
    LET division[k \in 0 .. GainBits] ==
            IF k = 0
            THEN [quotient |-> numerator \div denominator, rest |-> numerator % denominator]
            ELSE LET last == division[k - 1]
                 IN  [quotient |-> 2 * last.quotient + (2 * last.rest) \div denominator,
                      rest |-> (2 * last.rest) % denominator]
        all == division[GainBits]
    IN  all.quotient + (all.rest + denominator \div 2) \div denominator

(* Mutant of FitAdc: the offset is the one before the gain was rounded to a
   unit. *)
FitAdcUnityOffset(raw, gain) ==
    LET Sum(Value(_)) == MapThenSumSet(Value, AdcFitPoints)
        sumX == Sum(LAMBDA i : raw[i])
        sumY == Sum(LAMBDA i : NominalAdcCodeForVolts(AdcFitVolts[i]))
    IN  Gain(gain, 2 ^ GainBits, RoundedSignedDivision(sumY - sumX, 5))

\* The line of the rounded gain through the centre of the points.
FitAdc(raw, gain) ==
    LET Sum(Value(_)) == MapThenSumSet(Value, AdcFitPoints)
        sumX == Sum(LAMBDA i : raw[i])
        sumY == Sum(LAMBDA i : NominalAdcCodeForVolts(AdcFitVolts[i]))
        unit == Gain(gain, 2 ^ GainBits, 0)
    IN  [unit EXCEPT !.offset =
            RoundedSignedDivision(sumY * unit.gainDenominator - sumX * unit.gainNumerator,
                                  Cardinality(AdcFitPoints) * unit.gainNumerator)]

\* Least squares over the raw codes of the five voltages.  The slope of increasing
\* codes is positive, so the code's test for a zero slope has no case here.
SolveAdcMultiPointCalibration(raw) ==
    LET n == Cardinality(AdcFitPoints)
        Y(i) == NominalAdcCodeForVolts(AdcFitVolts[i])
        Sum(Value(_)) == MapThenSumSet(Value, AdcFitPoints)
        sumX == Sum(LAMBDA i : raw[i])
        slopeNumerator == n * Sum(LAMBDA i : raw[i] * Y(i)) - sumX * Sum(Y)
        slopeDenominator == n * Sum(LAMBDA i : raw[i] * raw[i]) - sumX * sumX
        gain == QuantizedGain(slopeNumerator, slopeDenominator)
        fit == FitAdc(raw, gain)
    IN  IF ~Increasing(raw) THEN Unsolved("NonIncreasing")
        ELSE IF raw[n] - raw[1] < MinimumEightVoltSpan THEN Unsolved("SpanTooSmall")
        ELSE IF gain \notin 1 .. GainMaximum THEN Unsolved("GainOutOfRange")
        ELSE IF fit.offset \notin -OffsetMaximum - 1 .. OffsetMaximum
             THEN Unsolved("OffsetOutOfRange")
        ELSE Solved(fit, {AbsoluteDifference(ApplyAdcCalibration(raw[i], fit), Y(i)) :
                             i \in AdcFitPoints})

-----------------------------------------------------------------------------
(***************************************************************************)
(* An output                                                               *)
(***************************************************************************)

AdcCodeToEquivalentDac(code) ==
    RoundedQuotient(Clamp(code, 0, AdcMaximumCode) * DacMaximumCode, AdcMaximumCode)

NominalFromRaw(raw, calibration) ==
    Clamp(RoundedQuotient(Max({raw - calibration.offset, 0}) * calibration.gainDenominator,
                          calibration.gainNumerator),
          0, DacMaximumCode)

\* The gain that maps what was measured back to what was sent, through the first
\* point.
FitDac(first, rawSpan, measured, measuredSpan) ==
    LET unit == Gain(rawSpan, measuredSpan, 0)
    IN  [unit EXCEPT !.offset = first - Scaled(measured, unit)]

\* The line through the first and the last of the samples, each a code sent to the
\* output and the calibrated code read back. A gain off by a quarter is no loop.
SolveDacSelfCalibration(sent, read) ==
    LET n == Len(sent)
        Equivalent(i) == AdcCodeToEquivalentDac(read[i])
        rawSpan == sent[n] - sent[1]
        measuredSpan == Equivalent(n) - Equivalent(1)
        fit == FitDac(sent[1], rawSpan, Equivalent(1), measuredSpan)
    IN  IF n < 3 THEN Unsolved("TooFewSamples")
        ELSE IF ~Increasing(sent) \/ ~Increasing(read) \/ measuredSpan <= 0
             THEN Unsolved("NonMonotonic")
        ELSE IF rawSpan < MinimumRawSpan \/ measuredSpan < MinimumRawSpan \div 2
             THEN Unsolved("SpanTooSmall")
        ELSE IF 4 * measuredSpan \notin 3 * rawSpan .. 5 * rawSpan
             THEN Unsolved("ImplausibleGain")
        ELSE IF fit.offset \notin -MaximumDacOffset .. MaximumDacOffset
             THEN Unsolved("OffsetOutOfRange")
        ELSE Solved(fit, {AbsoluteDifference(Equivalent(i), NominalFromRaw(sent[i], fit)) :
                             i \in 1 .. n})
=============================================================================
