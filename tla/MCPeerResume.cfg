SPECIFICATION ResumeSpec
CONSTANTS
  NumFiles <- MCNumFiles
  Chunks <- MCChunks
  Partial <- MCPartial
  MaxCalls = 2
INVARIANTS
  ResumeTypeOK
  NothingDeliveredEarly
\* Both pages may be gone, and then nothing happens.
CHECK_DEADLOCK FALSE
