SPECIFICATION FairBreakerSpec
CONSTANTS
  Calls = {c1, c2, c3}
  MaxRequests = 2
  Interval = 2
  OpenFor = 2
  Trip = 3
  CallTimeout = 2
INVARIANTS TrialLoadIsBounded
PROPERTIES OpensOnBurst Recovers
