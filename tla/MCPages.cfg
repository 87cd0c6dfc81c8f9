SPECIFICATION Spec
CONSTANTS
  Tab = {A}
  Approval = {x, y}
  None = None
  MaxOffers = 1
  MaxMarks = 2
  File = {f, g}
  MaxCalls = 2
  Run = {r, s}
  Part = {p, q}
  PartSize = 2
  NoRun = NoRun
  MaxTotal = 5
INVARIANTS
  MarksAndListsAgree
  ShownOpens
  PromisedFilesArrive
  ProgressIsTrue
PROPERTY GuestKeysStay
\* The peers of a transfer may both have left their pages for good, and every upload have ended.
CHECK_DEADLOCK FALSE
