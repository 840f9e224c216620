SPECIFICATION NccFairSpec
CONSTANTS
  Autos = 4
  BodyLen = 8
  CatchLen = 6
  FinallyLen = 6
INVARIANTS NccTypeOK CleanedUp CatchOnce ErrorReported
PROPERTY Terminates
CHECK_DEADLOCK FALSE
