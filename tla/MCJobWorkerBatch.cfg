SPECIFICATION FairSpec
CONSTANTS
  None = None
  Jobs = {j1, j2}
  Workers = {w1}
  Stoppable = {w1}
  BatchSize = 2
  MaxAttempts = 1
  Faults = TRUE
  MaxCrashes = 0
INVARIANTS
  ShutdownWaitsForHandlers
PROPERTIES
  ShutdownStops
  LostLeaseIsNoticed
CHECK_DEADLOCK FALSE
