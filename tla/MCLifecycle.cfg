SPECIFICATION FairSpec
CONSTANTS
  NoProc = NoProc
  Orphan = Orphan
  PingAttempts = 2
  Tables = 2
  MinSecret = 2
  DefaultLimit = 2
  MaxInflight = 2
  Procs = {p1, p2}
  MaxFaults = 3
INVARIANTS ServesOnlyReady
PROPERTIES SignalsAreObeyed ComesUp
