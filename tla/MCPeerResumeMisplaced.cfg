SPECIFICATION ResumeSpec
CONSTANTS
  NumFiles <- MCNumFiles
  Chunks <- MCChunks
  Partial <- MCPartial
  MaxCalls = 2
INVARIANT
  ChunksInPlace
CHECK_DEADLOCK FALSE
