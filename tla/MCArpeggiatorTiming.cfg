SPECIFICATION Spec
CONSTANTS
  Rate = {"d3", "x2", "x3", "ms500"}
  FreeRate <- MCFreeRate
  ClockDivider <- MCDivider
  ClockMultiplier <- MCMultiplier
  Configs <- MCConfigs
  CounterModulus = 4
  WordModulus = 65536
  MaxTick = 2
  MaxInterval = 14
  MaxEdges = 3
  Rates = {"d3", "x2", "x3"}
  Modes = {"Free", "Reset", "Clock"}
  Swings = {0, 11}
  Enabling = {TRUE, FALSE}
PROPERTIES
  StepsFollowEdges
  PeriodApproaches
  MultipliedInTime
  SwingStaysBounded
