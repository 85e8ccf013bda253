SPECIFICATION FairSpec
CONSTANTS
  NoteCount = 2
  MaxSemitone = 3
  One = 4
  HysteresisAmount = 1
  GlideOne = 4
  MaxGlideAmount = 2
  MaxTriggerDelayAmount = 2
  TriggerLedTimeSamples = 2
  TriggerCvTimeSamples = 2
  CounterMaximum = 2
  Inputs = {0}
  Configs <- MCConfigs
  Scale = {0}
  Modes = {"Continuous", "TrackAndHold"}
  PanelSettings <- MCPanelSettings
  AdcMaximumCode = 3
  DacMaximumCode = 3
  LastChannel = 1
  FilterWindow = 3
  Levels <- MCLevels
  Spikes <- MCSpikes
  CvLevels = {0, 1}
  CvSpikes = {3}
  LadderLevels = {3}
  CvInput = 1
  AdcCalibration <- MCCalibration
  DacCalibration <- MCCalibration
  ArpIntervals = {8}
  PendingMaximum = 2
PROPERTIES
  OnlyRealLevels
  PulsesLast
  PitchesComeWithTriggers
  SteadyInputIsPlayed
