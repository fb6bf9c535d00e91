SPECIFICATION FairSpecOnDisk
CONSTANTS
  Writers = {w1}
  Listers = {l1}
  Filters = {f1}
  NoFilter = NoFilter
  RedisMayFail = TRUE
  MaxRetries <- MCOneRetry
  MaxCrashes = 2
INVARIANT StaleOnlyUntilCrash
PROPERTY ConvergesAfterCrash
CHECK_DEADLOCK FALSE
