CONSTANTS
  N = 2
  MaxAttempts = 2
  MaxBreaks = 1
  MaxEvictions = 1
SPECIFICATION Spec
INVARIANTS
  AllRenewed
PROPERTIES
  OneAtATime
  Implements
CHECK_DEADLOCK FALSE
