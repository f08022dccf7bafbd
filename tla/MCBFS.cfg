SPECIFICATION Spec
CONSTANTS
  N = 5
  Start = 0
  Edge <- MCEdge
  Graphs <- AllGraphs
  SparseDiv = 2
  DenseDiv = 1
  CooPart <- Identity
  CscPart <- Identity
INVARIANTS ShortestPathTree NoDuplicates
PROPERTIES RefinesLevelBFS
