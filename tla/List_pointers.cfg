SPECIFICATION Spec
CONSTANTS
  Entries = {e1, e2, e3}
  Lists = {l1, l2}
  Values = {1, 2, 3}
  NotNumeric = {1}
  TextOf <- EmptyAndNumbers
  NumberOf <- Numbers
  NULL = NULL
SYMMETRY Symmetry
INVARIANTS TypeOK HeapIntact
PROPERTY ImplementsList
CHECK_DEADLOCK FALSE
