CONSTANTS
  N = 2
  MaxAttempts = 2
  MaxBreaks = 0
  MaxEvictions = 0
SPECIFICATION Spec
PROPERTIES
  OthersAreUp
CHECK_DEADLOCK FALSE
