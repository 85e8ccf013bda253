SPECIFICATION InputSpec
CONSTANTS
  Debounce = 2
  MaxPress = 3
  Gap = 3
  MaxStep = 2
  NoKey = 12
  ExpectedValues <- MCExpectedValues
  MinimumValidRest = 548
  AcceptanceDelta = 10
  AdcMaximumCode = 1023
  Readings = {8, 526, 547}
  LadderWindow = 2
  ButtonWindow = 1
  LongPress = 3
INVARIANTS
  GestureIsDeliberate
  KeysAreApart
PROPERTIES
  StableLevelsOnly
  ReportsFollow
