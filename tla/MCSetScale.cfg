CONSTANTS
  First = 0
  Last = 2
  MaxSize = 1
  Limit = 1
  Expandable = TRUE
  Unstable = FALSE
  MaxEdits = 2
  MaxScales = 1
  MaxFaults = 1
SPECIFICATION FairSpec
INVARIANTS
  TypeOK
PROPERTIES
  OneStep
  ClaimsOfMembersStay
  Reaches
CHECK_DEADLOCK FALSE
