SPECIFICATION Spec
CONSTANTS
  N = 5
  Start = 0
  Unit = 12
  Edge <- MCEdge
  Graphs <- WellBehaved
  SparseDiv = 2
  DenseDiv = 1
  CooPart <- Identity
  CscPart <- Identity
INVARIANTS PathsAreCounted ScoresAreAccumulated
PROPERTIES RefinesLevelBFS
