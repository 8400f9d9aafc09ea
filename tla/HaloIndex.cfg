SPECIFICATION FairSpec
CONSTANTS
  Size = 3
  NGlobal = 4
  First <- FirstOf3
  Layouts <- BothLayouts
  Columns <- OneBeyond
  MaxEntries = 3
INVARIANTS PlansAgree NothingLeftOver GhostsComplete NobodyAheadOfRefused
PROPERTY EveryRankReady
CHECK_DEADLOCK FALSE
