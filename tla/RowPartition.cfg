SPECIFICATION FairPartitionSpec
CONSTANTS
  Size = 5
  NGlobal = 7
  Columns <- AllColumns
INVARIANT OwnerFound
PROPERTY SearchEnds
