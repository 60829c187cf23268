CONSTANTS
  Requests <- MCRequests
  MaxCluster = 40
  MaxSaves = 2
  MaxFaults = 1
SPECIFICATION Spec
INVARIANT
  SavedAlwaysLoads
