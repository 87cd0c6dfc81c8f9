SPECIFICATION FairSpec
CONSTANTS
  NumFiles <- MCNumFiles
  Chunks <- MCChunks
  Partial <- MCPartial
INVARIANTS
  TypeOK
  StopAndWait
  ChunksInPlace
  SenderNeverAhead
  SavedProgressIsStored
  SomebodyMoves
PROPERTIES
  CompletedMeansStored
  ImplementsDelivery
  EventuallyDelivered
\* Both pages may be gone, and then nothing happens.
CHECK_DEADLOCK FALSE
