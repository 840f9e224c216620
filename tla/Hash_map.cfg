SPECIFICATION HashSpec
CONSTANTS
  Keys <- ThreeKeys
  Values <- FiveValues
  Given <- FirstAgain
  Slots = {0, 1}
  HashOf <- Shared
  NULL = NULL
  MaxCount = 3
INVARIANT PairsIntact
 
CHECK_DEADLOCK FALSE
