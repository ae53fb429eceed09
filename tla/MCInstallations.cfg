SPECIFICATION FairSpec
CONSTANTS
  Procs = {p1, p2}
  w1 = w1
  w2 = w2
  Workers = {w1, w2}
  MaxIds = 2
  MaxOps = 3
  Scenes <- MCScenes
INVARIANTS
  ConsentBinds
PROPERTIES
  OnlyStepOrCoreActivates
  PendingSettles
CHECK_DEADLOCK FALSE
