SPECIFICATION Spec
CONSTANTS
  a1 = a1  a2 = a2  b1 = b1  n1 = n1  o1 = o1  w1 = w1
  p1 = p1  p2 = p2  r1 = r1  r2 = r2
  Events = {a1, a2, b1, n1}
  Partition <- Keys
  NoKey = ""
  Internal = {n1}
  Subs = {o1, w1}
  Ordered = {o1}
  Webhooks = {w1}
  Match <- Pairs
  Producers = {p1, p2}
  Relays = {r1, r2}
  MaxBatches = 2
  MaxAttempts = 2
  PageSize = 1
  Scenes <- PairScenes
INVARIANTS
  OrderedFifo
CHECK_DEADLOCK FALSE
