CONSTANTS
  First = 0
  Last = 1
  MaxSize = 3
  Limit = 2
  Expandable = TRUE
  Unstable = TRUE
  MaxEdits = 2
  MaxScales = 1
  MaxFaults = 1
SPECIFICATION FairSpec
INVARIANTS
  GrownFirst
PROPERTIES
  Reaches
CHECK_DEADLOCK FALSE
