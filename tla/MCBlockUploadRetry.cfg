SPECIFICATION FairSpec
CONSTANTS
  Sizes = {0, 6, 7}
  MaxBlockSize = 3
  MaxPartSize = 2
  Overhead = 1
  Limit = 2
  MaxRetries = 1
INVARIANT UploadedIntact
CHECK_DEADLOCK FALSE
