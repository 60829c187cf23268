SPECIFICATION Spec
CONSTANTS
  Inf = Inf
  Cids = {1, 2, 3, 4}
  Ids = {1, 2, 3, 4, 5}
  EpsNum = 1
  EpsDen = 1
  BootstrapLimit = 1
  Inputs <- MCInputs
INVARIANTS
  TypeOK
  StaleSeedSafe
  NothingLost
PROPERTIES
  DistkMonotone
  Implements
