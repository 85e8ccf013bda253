--------------------------- MODULE PitchConversion ---------------------------
(***************************************************************************)
(* PitchConversion.cpp: from a converter's code to a pitch and back, with  *)
(* the calibration of each side.  A calibration is the line                *)
(* (code + offset) * gain of an input and code * gain + offset of an       *)
(* output; the sums fit the 32 bits the code calculates in.                *)
(***************************************************************************)
EXTENDS NoteSelection

CONSTANTS
    AdcMaximumCode,     \* kAdcMaximumCode
    DacMaximumCode      \* kDacMaximumCode

\* The conversion to a code divides by the highest pitch.
ASSUME ConverterAssumption ==
    {AdcMaximumCode, DacMaximumCode, MaxSemitone} \subseteq Nat \ {0}

AdcCode == 0 .. AdcMaximumCode
DacCode == 0 .. DacMaximumCode
MaxPitch == MaxSemitone * One

LinearCalibration ==
    [offset : Int, gainNumerator : Nat \ {0}, gainDenominator : Nat \ {0}]

\* The values of AnalogConfig.h, in force when nothing valid is stored.
FactoryCalibration == [offset |-> 0, gainNumerator |-> 1, gainDenominator |-> 1]

\* An integer division of naturals that rounds halves up.
RoundedQuotient(numerator, denominator) ==
    (numerator + denominator \div 2) \div denominator

Scaled(code, calibration) ==
    RoundedQuotient(code * calibration.gainNumerator, calibration.gainDenominator)

\* Code 0 stays 0 V: a negative offset of the input may have been cut off there.
ApplyAdcCalibration(raw, calibration) ==
    IF raw = 0 THEN 0
    ELSE Clamp(Scaled(Clamp(raw + calibration.offset, 0, AdcMaximumCode), calibration),
               0, AdcMaximumCode)

ApplyDacCalibration(code, calibration) ==
    Clamp(Scaled(Clamp(code, 0, DacMaximumCode), calibration) + calibration.offset,
          0, DacMaximumCode)

AdcToSemitones(raw, calibration) ==
    RoundedQuotient(ApplyAdcCalibration(raw, calibration) * MaxPitch, AdcMaximumCode)

SemitonesToNominalDac(pitch) ==
    RoundedQuotient(Clamp(pitch, 0, MaxPitch) * DacMaximumCode, MaxPitch)

SemitonesToDac(pitch, calibration) ==
    ApplyDacCalibration(SemitonesToNominalDac(pitch), calibration)
=============================================================================
