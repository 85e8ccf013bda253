SPECIFICATION FairSpec
CONSTANTS
  NoteCount = 2
  MaxSemitone = 3
  One = 4
  HysteresisAmount = 1
  GlideOne = 1
  MaxGlideAmount = 2
  MaxTriggerDelayAmount = 2
  TriggerLedTimeSamples = 1
  TriggerCvTimeSamples = 1
  CounterMaximum = 2
  CountMaximum = 1
  Configs <- MCConfigs
  Inputs = {0, 5}
  Scales = {{0, 1}, {1}}
  Modes = {"TrackAndHold", "SampleAndHold", "Continuous"}
  GlideAmounts = {0}
  Delays = {0, 3}
  Shifts = {0}
PROPERTIES
  OneNotePerEdge
  EditsGiveNoPulse
  NoPhantomRise
  GateAnswered
