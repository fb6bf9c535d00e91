SPECIFICATION ApiSpec
CONSTANTS
  u1 = u1
  u2 = u2
  x1 = x1
  blank = blank
  padded = padded
  d1 = d1
  d1b = d1b
  Users = {u1}
  Teams = {team1}
  TaskIds = {t1}
  Titles = {x1}
  RawTitles = {x1}
  Trim <- MCTrim
  Descriptions = {d1}
  Truncate <- MCTruncate
  Drafts <- MCOneDraft
  RawPatches <- MCTwoPatches
  OtherStatus = "bogus"
  NoUser = NoUser
  NoTask = NoTask
  NoTime = NoTime
  NoReq = NoReq
  MaxRetries <- MCOneRetry
  MaxTime = 0
  CreateReqs = {c1}
  UpdateReqs = {r1}
  Listers = {l1}
  Filters = {f1}
  NoFilter = NoFilter
  CacheTeam = team1
  NoTeam = NoTeam
INVARIANT AnswersAreTrue
PROPERTY CacheSpec
CHECK_DEADLOCK FALSE
