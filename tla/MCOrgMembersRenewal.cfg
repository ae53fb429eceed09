SPECIFICATION Spec
CONSTANTS
  Procs = {p1, p2}
  MaxPasses = 3
  Scenes <- RenewalScenes
INVARIANTS
  SeatsWithinLimit
CHECK_DEADLOCK FALSE
