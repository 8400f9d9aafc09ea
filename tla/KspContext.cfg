SPECIFICATION Spec
CONSTANTS
  Sizes <- TwoSizes
  Comms = {"c", "d"}
  Types <- SolverTypes
  PcKinds <- SomePcs
  Deferred <- NeedsMatrix
  Numeric <- UpdatesNumbers
  Candidates = 2
  MaxVersion = 3
INVARIANTS SolverReady CurrentPc ChosenPcUsed
PROPERTY SetupIsCheap
