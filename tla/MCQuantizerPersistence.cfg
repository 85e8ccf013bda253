SPECIFICATION FairSpec
CONSTANTS
  SlotCount = 3
  BodyLen = 2
  Marked = Marked
  Erased = Erased
  Torn = Torn
  n1 = n1
  n2 = n2
  r1 = r1
  scaleSlot = scaleSlot
  configSlot = configSlot
  MaxOperations = 2
  Record <- MCRecord
  Content <- MCContent
  Factory <- MCFactory
  ScaleSlots <- MCScaleSlots
  ConfigSlots <- MCConfigSlots
  Notes <- MCNotes
  Rest <- MCRest
  Memories <- MCMemories
  FactoryPreset <- MCFactoryPreset
INVARIANTS
  TypeOK
  MarkerDiscipline
  HeadTracksNewest
  CachesAreTrue
PROPERTIES
  ImplementsRegister
  EditsEventuallyKept
