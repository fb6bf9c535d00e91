SPECIFICATION ReportsSpec
CONSTANTS
  x1 = x1
  d1 = d1
  d2 = d2
  u1 = u1
  u2 = u2
  u3 = u3
  Users = {u1, u2, u3}
  UserId <- MCUserId
  Teams = {team1}
  TaskIds = {t1, t2, t3}
  Titles = {x1}
  Descriptions = {d1, d2}
  Truncate <- MCTruncate
  NoUser = NoUser
  NoTask = NoTask
  NoTime = NoTime
  MaxTime = 1
  DoneDays = 0
  CreatedDays = 0
  TopRanks = 2
  Posts <- MCPosts
  Edits <- MCEdits
  MaxEntries = 4
INVARIANTS SummaryAgreesWithTrail RankingIsFair ForeignAssigneesAreReported
SYMMETRY Symmetry
CHECK_DEADLOCK FALSE
