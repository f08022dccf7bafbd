SPECIFICATION FairSpec
CONSTANTS
  N = 4
  Start = 0
  Infinity = 100
  Edge <- MCEdge
  Graphs <- MCGraphs
  SparseDiv = 2
  DenseDiv = 1
  CooPart <- Identity
  CscPart <- Identity
INVARIANTS Shortest RoundBound RoundsHandOver
PROPERTIES Terminates
