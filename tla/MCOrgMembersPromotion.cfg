SPECIFICATION Spec
CONSTANTS
  Procs = {p1, p2}
  MaxPasses = 3
  Scenes <- PromotionScenes
PROPERTIES
  AdminsContinue
CHECK_DEADLOCK FALSE
