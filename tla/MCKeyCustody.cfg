SPECIFICATION Spec
CONSTANTS
  Tab = {A, B}
  Password = {p, q}
  Fragment = {1, 2, 3, 4, 5}
  None = None
  MaxWrites = 1
SYMMETRY Symmetry
INVARIANTS
  CustodyTypeOK
  KeyAtHand
PROPERTIES
  ReopensAlone
CHECK_DEADLOCK TRUE
