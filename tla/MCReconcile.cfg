CONSTANTS
  Component <- MCComponent
  Line <- MCLine
  Unstable = {}
  MaxEdits = 2
  MaxFaults = 1
  MaxStale = 1
SPECIFICATION FairSpec
INVARIANTS
  TypeOK
  RestartNotForgotten
  RestartSkipsNewborn
  SleepsWhenApplied
PROPERTIES
  KeepsJournal
  ConfigBeforeRestart
  Converges
  GoneIsFinal
CHECK_DEADLOCK FALSE
