\* AMG set-ups over three ranks, with failures of one of them.
CONSTANTS
  Size = 3
  Edges <- Line
  Settings <- AnyFailure
SPECIFICATION FairSpec
INVARIANTS ErrorsSynchronized CurrentInUse
PROPERTIES EveryRankReturns
\* The calls of a setting end.
CHECK_DEADLOCK FALSE
