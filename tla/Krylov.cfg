SPECIFICATION FairSpec
CONSTANTS
  Ranks <- TwoRanks
  Edges <- Coupled
  MaxIters = 3
  Settings <- Uniform
INVARIANTS TypeOK SameReduction SameVectors SameVerdict DirectionFits UpdateOfThisCycle ConvergedSeen WithinModel
PROPERTY EveryRankReturns
CHECK_DEADLOCK FALSE
