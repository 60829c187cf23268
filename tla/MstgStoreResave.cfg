SPECIFICATION Spec
CONSTANTS
  v1 = v1
  v2 = v2
  Versions = {v1, v2}
  Sizes <- MCSizes
  NoVersion = NoVersion
  MaxSaves = 2
  MaxFaults = 0
PROPERTIES
  SavedLoads
