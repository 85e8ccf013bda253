SPECIFICATION Spec
CONSTANTS
  Rate = {"d3", "x2", "x3", "ms500"}
  FreeRate <- MCFreeRate
  ClockDivider <- MCDivider
  ClockMultiplier <- MCMultiplier
  Configs <- MCConfigs
  CounterModulus = 2
  WordModulus = 65536
  MaxTick = 1
  MaxInterval = 2
  MaxEdges = 1
  Rates = {"ms500"}
  Modes = {"Free"}
  Swings = {11}
  Enabling = {TRUE}
PROPERTY SwingStaysBounded
