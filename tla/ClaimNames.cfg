CONSTANTS
  First = 8
  Last = 10
  MaxSize = 1
  Limit = 1
  Expandable = TRUE
  Unstable = FALSE
  MaxEdits = 1
  MaxScales = 0
  MaxFaults = 0
SPECIFICATION Spec
PROPERTIES
  ClaimsOfMembersStay
CHECK_DEADLOCK FALSE
