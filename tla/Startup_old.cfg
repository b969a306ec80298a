CONSTANTS
  Runs = {r1, r2, r3}
  Pids = {p1, p2, p3}
  NoRun = NoRun
  NoPid = NoPid
  StaleAfter = 1
  StealWhen = "stale"
  Latest = 7  Rerunnable = {3, 6, 7}  Initial = 2
SPECIFICATION StartupSpec
PROPERTY ForwardOnly
CHECK_DEADLOCK FALSE
