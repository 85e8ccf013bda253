SPECIFICATION Spec
CONSTANTS
  NoteCount = 12
  MaxSemitone = 120
  One = 256
  HysteresisAmount = 0
  AdcMaximumCode = 1023
  DacMaximumCode = 4095
  MinimumEightVoltSpan = 650
  GainBits = 15
  GainMaximum = 65535
  OffsetMaximum = 32767
  MinimumRawSpan = 2048
  MaximumDacOffset = 512
  FitTolerance = 3
  VerificationTolerance = 3
  ZeroRawMaximum = 8
  MaxFitResidual = 20
  MaxVerifyResidual = 15
  InputErrors <- MCInputErrors
  OutputErrors <- MCOutputErrors
  GoodInputs <- MCGoodInputs
  GoodOutputs <- MCGoodOutputs
  AdcNoise <- MCAdcNoise
  LoopNoise <- MCLoopNoise
  OutputAccuracy = 51
  LoopAccuracy = 192
INVARIANTS
  NotesSurviveTheLoop
  VoltagesAreTrue
  GoodModulesPass
CHECK_DEADLOCK FALSE
