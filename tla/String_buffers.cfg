SPECIFICATION Spec
CONSTANTS
  Strs = {s1, s2}
  Bufs = {b1, b2, b3}
  Array = array
  NULL = NULL
  ArrayLen = 1
  InitialSize = 2
  StringMax = 4
SYMMETRY Symmetry
INVARIANTS InBounds BuffersOwned
CHECK_DEADLOCK FALSE
