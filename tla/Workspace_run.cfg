CONSTANTS
  Works = {w1, w2, w3}
  Empty = Empty  Torn = Torn  None = None
  Mission = TRUE  Continuation = TRUE  Refactoring = TRUE
  MaxLoops = 4  MaxRuns = 3
SYMMETRY WorkSymmetry
SPECIFICATION Spec
INVARIANT RowIsBacked
PROPERTIES KeepsPromise RowsMatchFiles
CHECK_DEADLOCK FALSE
