SPECIFICATION PathSpec
CONSTANTS
  NoteCount = 2
  MaxSemitone = 3
  One = 4
  HysteresisAmount = 1
  GlideOne = 4
  MaxGlideAmount = 2
  MaxTriggerDelayAmount = 0
  TriggerLedTimeSamples = 1
  TriggerCvTimeSamples = 1
  CounterMaximum = 1
  Configs <- MCConfigs
  Inputs <- MCInputs
  Modes = {"TrackAndHold"}
  GlideAmounts = {0, 3}
PROPERTIES
  NoChatter
  NotesFitTheInput
  GlideSettles
