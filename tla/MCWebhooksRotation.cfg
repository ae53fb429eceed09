SPECIFICATION Spec
CONSTANTS
  w1 = w1  w2 = w2  d1 = d1  d2 = d2
  Deliveries = {d1, d2}
  Workers = {w1, w2}
  Rotators = {r1, r2}
  Nobody = Nobody
  MaxAttempts = 2
  Scenes <- RotationScenes
INVARIANTS
  PriorKeySigns
CHECK_DEADLOCK FALSE
