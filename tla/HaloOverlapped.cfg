SPECIFICATION FairSpec
CONSTANTS
  Ranks = {1, 2, 3}
  MaxCalls = 2
  Edges <- PairAndFeeder
  Discipline = "overlapped"
  Caller = "DistCsrOp"
INVARIANTS SlotsConserved NoReuseInFlight
PROPERTIES PromiseKept EveryCallReturns
