SPECIFICATION Spec
CONSTANTS
  Ranks = {0, 1, 2}
  RowsOf <- ThreeByFour
  Patterns <- Tridiagonal12
  MaxCalls = 1
  MaxUpdates = 0
INVARIANT MatvecIsAx
