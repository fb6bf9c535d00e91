SPECIFICATION FairSpec
CONSTANTS
  u1 = u1
  u2 = u2
  x1 = x1
  blank = blank
  padded = padded
  d1 = d1
  d1b = d1b
  Users = {u1, u2}
  Teams = {team1}
  TaskIds = {t1}
  Titles = {x1}
  RawTitles = {blank, padded}
  Trim <- MCTrim
  Descriptions = {d1, d1b}
  Truncate <- MCTruncate
  Drafts <- MCDrafts
  RawPatches <- MCRawPatches
  OtherStatus = "bogus"
  NoUser = NoUser
  NoTask = NoTask
  NoTime = NoTime
  NoReq = NoReq
  MaxRetries <- MCNoRetry
  MaxTime = 1
  CreateReqs = {c1}
  UpdateReqs = {r1, r2}
INVARIANTS TypeOK AuditChain CompletedAtIsAudited AssigneeIsMember HistoryTimeOrdered LocksAreHeldInTransactions
PROPERTIES LedgerSpec EveryRequestAnswered
CHECK_DEADLOCK FALSE
