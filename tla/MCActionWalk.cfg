CONSTANTS
  Resource <- MCResource
  Action <- MCAction
  MaxAdds = 6
SPECIFICATION Spec
INVARIANTS
  WalkIsMoveIfAbsent
  NewestIsKept
  OrderIsKept
  OnlyHeadRepeats
CHECK_DEADLOCK FALSE
