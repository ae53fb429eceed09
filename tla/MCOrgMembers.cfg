SPECIFICATION Spec
CONSTANTS
  Procs = {p1, p2}
  MaxPasses = 3
  Scenes <- MCScenes
SYMMETRY Symmetry
INVARIANTS
  SeatsWithinLimit
  AdministrationLocksQueue
PROPERTIES
  AdminsContinue
  GrantsLandOnMembers
  EndsAreFinal
CHECK_DEADLOCK FALSE
