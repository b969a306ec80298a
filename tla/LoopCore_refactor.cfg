CONSTANTS
  a = a  b = b  a1 = a1  a2 = a2  b1 = b1  b2 = b2
  Shape = "one"
  NoItem = NoItem  NoTxn = NoTxn
  Items <- TheItems  Checks <- TheChecks  ItemOf <- TheItemOf  Mode <- AllMode
  Continuation = FALSE
  Seeded = {a}
  Tier <- SameTier  Priority <- Weights
  Flaky = {}
  MaxLoops = 3  MaxItemFailures = 2  MaxStreak = 2
  Refactoring = TRUE  DeadlineLoops = 1  MaxDeclared = 1  MinNewly = 1
  DiskFails = TRUE
  RefillLoops = 1
  MaxRuns = 2
SPECIFICATION Spec
PROPERTY RollbackIsNoLoss
CHECK_DEADLOCK FALSE
