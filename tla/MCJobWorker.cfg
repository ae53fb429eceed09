SPECIFICATION FairSpec
CONSTANTS
  None = None
  Jobs = {j1}
  Workers = {w1, w2}
  Stoppable = {w1}
  BatchSize = 2
  MaxAttempts = 2
  Faults = TRUE
  MaxCrashes = 1
INVARIANTS
  OutcomeIsTheHandlersOwn
  ShutdownWaitsForHandlers
PROPERTIES
  EveryJobSettles
  ShutdownStops
  LostLeaseIsNoticed
