SPECIFICATION Spec
CONSTANTS
  NoteCount = 1
  MaxScalar = 0
  ContinuousInUi = FALSE
  ChannelScalar = {glide}
  ArpScalar = {rate}
  Brightness = {dim}
  DefaultBrightness = dim
  DefaultSetting <- MCDefaultSetting
  FactoryScales <- MCFactoryScales
  StoredRecords <- MCStoredRecords
INVARIANTS
  PagesConsistent
  NoHiddenArpeggio
  LinkedChannelsAgree
  RestoreIsExact
PROPERTIES
  ImplementsPanel
  ChangesAreMarked
