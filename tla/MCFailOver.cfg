CONSTANTS
  N = 3
  MaxCrashes = 1
  MaxTouches = 1
  MaxFaults = 1
SPECIFICATION FairSpec
INVARIANTS
  TypeOK
  QuorumSurvives
  OffTheOldClaim
PROPERTIES
  ModeIsReset
  Returns
CHECK_DEADLOCK FALSE
