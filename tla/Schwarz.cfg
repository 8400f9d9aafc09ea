\* Additive Schwarz over three ranks that enter the same exchanges.
CONSTANTS
  Size = 3
  N = 6
  Settings <- EvenSettings
SPECIFICATION FairSpec
INVARIANTS CallsMatch SubdomainExact ContributionsExact
PROPERTIES EveryRankReturns
\* A rank that gives up leaves the others waiting.
CHECK_DEADLOCK FALSE
