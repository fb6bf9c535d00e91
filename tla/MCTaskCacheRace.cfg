SPECIFICATION Spec
CONSTANTS
  Writers = {w1, w2}
  Listers = {l1, l2}
  Filters = {f1}
  NoFilter = NoFilter
  RedisMayFail = FALSE
  MaxRetries <- MCNoRetry
INVARIANT InvalidationTakesEffect
SYMMETRY Symmetry
CHECK_DEADLOCK FALSE
