SPECIFICATION FairSpec
CONSTANTS
  Conns = {k1, k2}
  Sessions = {s1, s2}
  FdCount = 2
  MaxClientCount = 2
  MaxLines = 1
  QuitStates = {5}
  MayFail = {"thread"}
INVARIANT NoOrphan
PROPERTIES TimeoutTeardown BacklogDrains
CHECK_DEADLOCK FALSE
