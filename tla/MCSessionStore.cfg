SPECIFICATION FairSpec
CONSTANTS
  NoOne = NoOne
  Procs = {p1, p2}
  o1 = o1  o2 = o2  r1 = r1  r2 = r2
  Scenes <- MCScenes
INVARIANTS
  OneLivePerFamily
  DeviceCap
  RevokedFamiliesEnd
  StaleOnlyIfOvertaken
PROPERTIES
  TransactionsEnd
CHECK_DEADLOCK FALSE
