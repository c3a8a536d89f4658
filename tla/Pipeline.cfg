SPECIFICATION FairSpec
CONSTANTS
  Chains <- MCChains
  MaxPrograms = 4
  PipeSize = 1
  Size = 2
INVARIANTS EndsAreNeighbours ShellIsLeftClean
PROPERTIES ImplementsProgramChain PipelineReturns
CHECK_DEADLOCK FALSE
