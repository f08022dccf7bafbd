SPECIFICATION Spec
CONSTANTS
  Key = {1,2,3}
  Data = {0, 1}
  m = 8
  Strand = {1, 2, 3}
  MaxPhases = 2
  HashStructs <- mcHashStructs
  Args <- mcArgs
  ConcurrentDeletes = FALSE
INVARIANTS HistoryIndependent AnswersAreRight
PROPERTIES ImplementsPhaseSet Terminates
