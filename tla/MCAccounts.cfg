SPECIFICATION Spec
CONSTANTS
  Reqs = {r1, r2}
  Ids = {1, 2}
  RawEmails <- MCRawEmails
  RawNames <- MCRawNames
  Passwords = {p}
  Emails <- MCEmails
  Names <- MCNames
  LowerTrim <- MCLowerTrim
  Trim <- MCTrim
  Collate <- MCCollate
  BadPassword = BadPassword
  TTL = 1
  MaxClock = 1
  NoId = NoId
  NoForm = NoForm
  NoRow = NoRow
  NoTime = NoTime
INVARIANTS AccountsAreDistinct CreatedIsOwned LoginFindsAccount
PROPERTY ActsWithinTTL
SYMMETRY Symmetry
