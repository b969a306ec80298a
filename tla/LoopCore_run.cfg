CONSTANTS
  a = a  b = b  a1 = a1  a2 = a2  b1 = b1  b2 = b2
  Shape = "mixed"
  NoItem = NoItem  NoTxn = NoTxn
  Items <- TheItems  Checks <- TheChecks  ItemOf <- TheItemOf  Mode <- MixedMode
  Continuation = TRUE
  Seeded = {a}
  Tier <- TierOfB  Priority <- Weights
  Flaky = {a1}
  MaxLoops = 3  MaxItemFailures = 2  MaxStreak = 2
  Refactoring = FALSE  DeadlineLoops = 1  MaxDeclared = 1  MinNewly = 1
  DiskFails = FALSE
  RefillLoops = 1
  MaxRuns = 1
SPECIFICATION FairSpec
INVARIANTS BestKeepsAccepted LedgerIsEarned DoneIsDone
PROPERTIES AcceptedNeverShrinks EveryRunEnds
CHECK_DEADLOCK FALSE
