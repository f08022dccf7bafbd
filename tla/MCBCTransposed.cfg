SPECIFICATION Spec
CONSTANTS
  N = 5
  Start = 0
  Unit = 12
  Edge <- MCEdge
  Graphs <- HalfTransposed
  SparseDiv = 20
  DenseDiv = 2
  CooPart <- Identity
  CscPart <- Identity
PROPERTY WalksOutEdges
