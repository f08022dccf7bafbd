SPECIFICATION MFairSpec
CONSTANTS
  N = 4
  Edge <- mcEdge
  Graphs <- mcGraphs
  SparseDiv = 1
  DenseDiv = 1
  CooPart <- OwnPart
  CscPart <- OwnPart
  Apps <- AllApps
  MaxIter = 4
  Unit <- mcUnit
  Damping <- mcDamping
  Epsilon = 1000
  Epsilon2s <- mcEpsilon2s
INVARIANTS ResultsAreRight DroppedDeltasAreSmall AbortsOnlyWithoutCycle PointersAreLive OnlyConversionsLeak
PROPERTIES Terminates
