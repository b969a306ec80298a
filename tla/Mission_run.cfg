CONSTANTS
  Phases = {1, 2}  Features = {1, 2}  PhaseOf <- ThePhaseOf
  Late = {}  LatePhases = {}  Specs = {}  Extras = {4}  Issues = {5}
  Commands = TRUE
  MaxLoops = 3  MaxItemFailures = 2  MaxStreak = 2  LoopCap = 6  Slots = 2
  MaxRuns = 1  MaxTroubles = 1
SPECIFICATION FairSpec
INVARIANTS DonePhaseIsValidated FlawlessRunIsDone
PROPERTIES DoneIsDone PhaseDoneOnCommittedWork EveryRunEnds
CHECK_DEADLOCK FALSE
