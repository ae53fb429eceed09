SPECIFICATION FairSpec
CONSTANTS
  Procs = {p1, p2}
  Keys = {k1, k2}
  Meters = {"jobs"}
  Payloads <- MixedLoads
  MaxMonth = 2
  Limits <- SomeLimits
  MaxInt = 3
  NoReceipt = NoReceipt
INVARIANTS
  AnswersAgree
PROPERTIES
  ImplementsLedger
  RequestsEnd
