CONSTANTS
  Numbers <- MCNumbers
  MaxArgs = 3
  Kilo = 2
  LongMax = 15
SPECIFICATION OSpec
CHECK_DEADLOCK FALSE
INVARIANT OptionsAreFollowed
