CONSTANTS
  Component <- MCComponent
  Line <- MCLine
  Unstable = {"Service"}
  MaxEdits = 2
  MaxFaults = 0
  MaxStale = 0
SPECIFICATION FairSpec
INVARIANTS
  RestartNotForgotten
PROPERTIES
  Converges
  TemplateBeforeRestart
CHECK_DEADLOCK FALSE
