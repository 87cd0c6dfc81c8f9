SPECIFICATION FairSpec
CONSTANTS
  s = s
  r1 = r1
  r2 = r2
  None = None
  MaxMishaps = 2
  MaxStarted = 2
  Page <- MCPage
  Outgoing <- MCOutgoing
  User <- MCUser
INVARIANTS SignalingTypeOK NoCandidateStranded OneTabNeverFails
PROPERTIES SenderFirstConnects LeaveReachesRoom
\* Both pages may be closed, and then nothing happens.
CHECK_DEADLOCK FALSE
