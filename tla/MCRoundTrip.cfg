SPECIFICATION RoundTripSpec
CONSTANTS
  Sizes = {0, 6, 7}
  MaxBlockSize = 3
  MaxPartSize = 2
  Overhead = 1
  Limit = 2
  MaxRetries = 1
  Sent = Sent
  Other = Other
  Chunks = 2
INVARIANTS
  FirstTryIntact
  RecordedIsStored
  SavedIsOriginal
  ShortArchiveIsTold
PROPERTIES
  RoundTripEnds
\* Upload and download end.
CHECK_DEADLOCK FALSE
