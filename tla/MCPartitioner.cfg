SPECIFICATION LSpec
CONSTANTS
  Inputs <- AllInputs
  Garbage = {0, 1, 50}
  Raw <- RawGraphs
INVARIANTS RangesTile VisitedOnce EdgesAreBalanced CutsAreRight PlacementIsRight ListsAreRight ExitsForAReason
