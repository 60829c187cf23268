SPECIFICATION Spec
CONSTANTS
  Inf = Inf
  Ids = {0, 1, 2, 3}
  IdSpan = 4
  IvfInputs <- MCIvfInputs
  FlatInputs <- MCFlatInputs
INVARIANTS
  NothingLost
  ProbesBest
PROPERTIES
  Implements
