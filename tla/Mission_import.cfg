CONSTANTS
  Phases = {1, 2, 3}  Features = {1, 2, 3}  PhaseOf <- ThePhaseOf
  Late = {3}  LatePhases = {3}  Specs <- TheSpecs  Extras = {}  Issues = {}
  Commands = TRUE
  MaxLoops = 3  MaxItemFailures = 2  MaxStreak = 2  LoopCap = 6  Slots = 2
  MaxRuns = 2  MaxTroubles = 2
SPECIFICATION Spec
INVARIANT DonePhaseIsWhole
CHECK_DEADLOCK FALSE
