CONSTANTS
  Ceiling = 1
  Prices = {0, 1}
  MaxRetries = 1
  Drafts = 2
  Backlogs <- Work
  Outcomes = {"done", "timeout"}
  Evaluations <- Found
  MaxLoose = 1
SPECIFICATION Spec
INVARIANTS PlanIsClosed NoLaneStarves SkipsExactly EveryAnswerHasItsRow OneDraftLeaves
PROPERTIES SettlesAtOnce WorkEnds
CHECK_DEADLOCK FALSE
