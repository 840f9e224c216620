SPECIFICATION FairSpec
CONSTANTS
  MaxBytes = 6
  BufSize = 6
  Alphabet = {120, 13, 10}
INVARIANTS LinesPreserved FragmentPresent
PROPERTY LinesComeOut
CHECK_DEADLOCK FALSE
