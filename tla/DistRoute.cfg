SPECIFICATION FairSpec
CONSTANTS
  Ranks <- TwoRanks
  Collective <- WithAmg
  Options <- ManyOptions
  MaxVersion = 2
  MaxGen = 2
  MaxSetups = 3
INVARIANTS RequestedInUse RanksAlike
PROPERTY EveryRankReturns
CHECK_DEADLOCK FALSE
