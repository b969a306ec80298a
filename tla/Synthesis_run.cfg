CONSTANTS
  Core = {c1}
  Syn = {s1, s2, s3}
  Noticed = {s3}
  Flaky = {s3}
  Batch = 1
  MaxTotal = 2
  MaxActive = 2
  Threshold = 2
  Continuation = FALSE
  MaxItemFailures = 2
  MaxParallel = 2
  MaxLoops = 3
SPECIFICATION Spec
SYMMETRY Interchangeable
INVARIANTS CreditIsGuarded GuardIsCredited LifetimeCap UntestedUntilBaseline
PROPERTY QuarantineIsFinal
CHECK_DEADLOCK FALSE
