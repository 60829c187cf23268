SPECIFICATION SoundSpec
CONSTANTS
  w1 = w1
  w2 = w2
  w3 = w3
  c1 = c1
  c2 = c2
  c3 = c3
  NoThread = NoThread
  Workers = {w1, w2}
  Callers = {c1, c2, c3}
  NQueries = 2
  NCentroids = 3
  NLists = 2
INVARIANTS
  BuiltOnce
  ReadersSeeWholeGraph
  CollectedComplete
PROPERTIES
  AllReturn
