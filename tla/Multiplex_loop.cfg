SPECIFICATION StartSpec
CONSTANTS
  Constructors = 2
  Addresses = 2
  LocalOnes = {2}
  Port <- MCPort
  ControllerMax = 4
  Earlier = {0, 2}
  MaxPending = 2
INVARIANTS HandlersMatch AllServed PrivilegesDropped
PROPERTY NoStarvation
CHECK_DEADLOCK FALSE
