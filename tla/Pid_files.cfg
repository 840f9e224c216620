SPECIFICATION PidFairSpec
CONSTANTS
  Procs = {p1, p2, p3, p4}
  NoPid = nopid
INVARIANTS PidTypeOK ProtectedUntilFound
PROPERTIES NeverOverwritten CallsEnd
CHECK_DEADLOCK FALSE
