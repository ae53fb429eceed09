SPECIFICATION Spec
CONSTANTS
  Procs = {p1, p2}
  p1 = p1
  p2 = p2
  Actors = {a1, a2, a3}
  a1 = a1
  a2 = a2
  a3 = a3
  Nobody = Nobody
  MaxQuorum = 2
  MaxSet = 2
  End = 2
  Windows <- Deadlines
SYMMETRY Symmetry
INVARIANT QuorumIsExact
INVARIANT OneRecordPerTransition
INVARIANT GateCanPass
CHECK_DEADLOCK FALSE
