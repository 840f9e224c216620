SPECIFICATION Spec
CONSTANTS
  Conns = {k1, k2}
  Sessions = {s1, s2}
  FdCount = 2
  MaxClientCount = 1
  MaxLines = 1
  QuitStates = {5}
  MayFail = {}
INVARIANT NoOrphan
CHECK_DEADLOCK FALSE
