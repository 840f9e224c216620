SPECIFICATION Spec
CONSTANTS
  Conns = {k1, k2}
  Sessions = {s1, s2, s3}
  FdCount = 2
  MaxClientCount = 1
  MaxLines = 2
  QuitStates = {4, 6}
  MayFail = {"alloc", "init", "peer", "thread", "overload", "greeting", "destroy", "close"}
SYMMETRY Symmetry
INVARIANTS TypeOK DescriptorOwned HeldIsLive WithinClientLimit
PROPERTY HookProtocol
CHECK_DEADLOCK FALSE
