SPECIFICATION Spec
CONSTANTS
  BSIZE = 2
  ISORT = 3
  Radix = 3
  StringLen = 4
  Chunk = 5
  EdgeLists <- mcEdgeLists
  TableOrders <- mcTableOrders
INVARIANTS LoadedAsListed InEdgesAreOutEdges TextIsReadBack FrontierIsCounted
