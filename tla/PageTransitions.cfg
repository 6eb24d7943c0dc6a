SPECIFICATION FairSpec
CONSTANTS
  None = None
  Elements <- MCElements
  Managers <- MCManagers
  MaxNested = 1
  Templates <- MCTemplates
  Crossing = FALSE
CHECK_DEADLOCK FALSE
INVARIANTS LeavesAfterOutros PromiseAfterAll
PROPERTY EveryCallEnds
