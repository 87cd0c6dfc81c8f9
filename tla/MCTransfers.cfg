SPECIFICATION Spec
CONSTANTS
  a = a
  b = b
  mail = mail
  link = link
  None = None
  Person = {p, q}
  NumFiles = 2
  MaxRuns = 2
  List = List
  Tab <- MCTab
  Kind <- MCKind
INVARIANTS
  TransfersTypeOK
  ActiveIsComplete
  ActiveHasItsKeys
  FulfilledIsActive
\* Every run of transfer() ends.
CHECK_DEADLOCK FALSE
