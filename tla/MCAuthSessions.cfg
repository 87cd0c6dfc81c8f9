SPECIFICATION FairSpec
CONSTANTS
  here = here
  there = there
  h1 = h1
  h2 = h2
  read = read
  write = write
  None = None
  Browser = {here, there}
  Tab = {h1, h2}
  Request = {read, write}
  Home <- MCHome
  Sender <- MCSender
  MaxExpiries = 1
INVARIANTS
  AuthTypeOK
  SignedOutForAReason
  SignOutIsThorough
PROPERTIES
  DeadStaysDead
  EveryRequestSettles
\* Every tab signs out, or has no request left.
CHECK_DEADLOCK FALSE
