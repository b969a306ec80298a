CONSTANTS
  Ceiling = 5
  Prices = {2}
  MaxTokens = 3
  MaxToolCalls = 3
  MaxModelRetries = 1
  MaxRepairs = 2
  Verified = TRUE
  MaxAnswer = 2
  MaxAttempts = 2
SPECIFICATION Spec
INVARIANTS CeilingBoundsBilling LossIsBounded BudgetGovernsTools
PROPERTIES ImplementsAttempt EveryAttemptAnswers
CHECK_DEADLOCK FALSE
