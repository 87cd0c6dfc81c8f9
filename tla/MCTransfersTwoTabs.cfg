SPECIFICATION Spec
CONSTANTS
  a = a
  b = b
  mail = mail
  link = link
  None = None
  Person = {p}
  NumFiles = 1
  MaxRuns = 2
  List = List
  Tab <- MCTab
  Kind <- MCKind
INVARIANT KeysOpenFiles
\* Every run of transfer() ends.
CHECK_DEADLOCK FALSE
