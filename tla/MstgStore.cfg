SPECIFICATION Spec
CONSTANTS
  v1 = v1
  v2 = v2
  Versions = {v1, v2}
  Sizes <- MCSizes
  NoVersion = NoVersion
  MaxSaves = 3
  MaxFaults = 2
INVARIANTS
  ListsWhole
PROPERTIES
  LoadsWhatWasSaved
  SavedFromMemoryLoads
  SearchesOwn
