SPECIFICATION FairSpec
CONSTANTS
  Ranks <- TwoRanks
  Edges <- Coupled
  MaxIters = 3
  Settings <- VanishingBeta
INVARIANT ConvergedSeen
CHECK_DEADLOCK FALSE
