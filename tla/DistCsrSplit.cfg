SPECIFICATION FairSpec
CONSTANTS
  Ranks = {0, 1, 2}
  RowsOf <- WithEmpty
  Patterns <- Patterns4
  MaxCalls = 2
  MaxUpdates = 1
INVARIANTS PlanKernelIsAx GhostPartExact
PROPERTY EveryProductReturns
