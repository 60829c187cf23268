SPECIFICATION ColdBatchSpec
CONSTANTS
  w1 = w1
  w2 = w2
  w3 = w3
  c1 = c1
  c2 = c2
  c3 = c3
  NoThread = NoThread
  Workers = {w1, w2, w3}
  Callers = {c1}
  NQueries = 3
  NCentroids = 2
  NLists = 0
PROPERTIES
  AllReturn
CHECK_DEADLOCK FALSE
