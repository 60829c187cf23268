SPECIFICATION Spec
CONSTANTS
  MaxSize = 2
  Branching = 4
  PerCentroid = 1
  Weight = 1
  MoveLimit = 1
  FactorNum = 4
  FactorDen = 1
  MaxReplicas = 2
  Inf = Inf
  EpsNum = 1
  EpsDen = 1
  BootstrapLimit = 1
  Unit = 2
  Queries <- MCQueries
INVARIANT
  RngRule
