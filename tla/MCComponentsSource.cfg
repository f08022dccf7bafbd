SPECIFICATION Spec
CONSTANTS
  N = 3
  Edge <- MCEdge
  Graphs <- CooBySourceGraphs
  SparseDiv = 2
  DenseDiv = 1
  CooPart <- Identity
  CscPart <- Identity
INVARIANTS Converged
