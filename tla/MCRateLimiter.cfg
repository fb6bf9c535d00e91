SPECIFICATION Spec
CONSTANTS
  Reqs = {r1}
  Users = {u1}
  Hosts = {h1}
  NoUser = NoUser
  Limit = 2
  Minute = 3
  Slack = 1
  MaxRetries = 1
  MaxClock = 4
  MaxTravel = 4
  NoKey = NoKey
  NoBucket = NoBucket
  NoWindow = NoWindow
INVARIANTS GrantsAreBounded WaitingIsRewarded
PROPERTY ExpiryGrantsNothing
CHECK_DEADLOCK FALSE
