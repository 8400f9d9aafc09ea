SPECIFICATION FairSpec
CONSTANTS
  Ranks = {1, 2, 3, 4, 5}
  MaxCalls = 2
  Edges <- CircleAndSkipper
  Discipline = "sequential"
  Caller = "LocalPC"
CHECK_DEADLOCK FALSE
INVARIANT GhostsOfSameCall
PROPERTY ReturnsUnlessPeerSkips
