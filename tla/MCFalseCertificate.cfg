SPECIFICATION HistorySpec
CONSTANTS
  factory = factory
  p1 = p1
  r0 = r0
  r1 = r1
  Profile <- MCProfile
  Residual <- MCResidual
  NoResidual = r0
  Measured <- MCMeasured
  Qualified = Qualified
  Generations = 4
  BodyLen = 1
  Marked = Marked
  Erased = Erased
  Torn = Torn
  FactoryProfile = factory
INVARIANTS
  CertifiedMeansVerified
