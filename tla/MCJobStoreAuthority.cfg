SPECIFICATION Spec
CONSTANTS
  None = None
  host = host  mod = mod  inst = inst  org1 = org1  org2 = org2
  k1 = k1  k2 = k2  k3 = k3  b1 = b1  b2 = b2  jobs = jobs  ord1 = ord1
  Workers = {host, mod}
  Installations = {inst}
  InstOrg <- MCInstOrg
  WorkerInst <- MCWorkerInst
  AllowsGlobal = {}
  Producers = {p1}
  Requests <- CoreRequests
  ReplayKeys = {k3}
  Queues = {jobs}
  LeaseDuration = 1
  RetryDelay = 1
  Limit = 2
  MaxJobs = 2
  MaxAttempts = 2
  MaxOrd = 3
  MaxTime = 2
  MaxTxLag = 0
  MaxRevision = 2
INVARIANTS
  LedgerAgreement
  ModuleHoldsOwnTenant
  OnlyReplaysOutliveAuthority
PROPERTIES
  ImplementsLifecycle
CHECK_DEADLOCK FALSE
