CONSTANTS
  Component <- MCComponent
  Line <- MCLine
  Unstable = {}
  MaxEdits = 2
  MaxFaults = 0
  MaxStale = 0
SPECIFICATION Spec
PROPERTIES
  ConflictKeepsStatus
CHECK_DEADLOCK FALSE
