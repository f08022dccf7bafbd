SPECIFICATION FairSpec
CONSTANTS
  N = 6
  Edge <- MCEdge
  Graphs <- MCGraphs
  SparseDiv = 2
  DenseDiv = 1
  CooPart <- Identity
  CscPart <- Identity
INVARIANTS TypeOK Converged PendingIsActive FrontierIsChanged NoAbort
PROPERTIES RefinesMinLabel Terminates
