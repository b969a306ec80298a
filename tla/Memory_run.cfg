CONSTANTS
  Checks = {a, b}  Reusable = {a, b}  AutoPromote = TRUE
  Operators = {ann, bob}
  MaxLoops = 2  MaxRuns = 2  MaxCommands = 2
SPECIFICATION Spec
INVARIANTS RememberedOnce ApprovedIsKept DecisionsAgree NothingForgotten
SYMMETRY Interchangeable
CHECK_DEADLOCK FALSE
