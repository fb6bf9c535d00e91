SPECIFICATION FairPoolSpec
CONSTANTS
  Handlers = {r1, r2, r3}
  TaskIds = {t1, t2}
  MaxOpenConns = 2
  MaxQueries = 1
  NoReq = NoReq
  NoTask = NoTask
INVARIANTS ConnsAreInUse LockHolderProceeds
PROPERTY EveryRequestEnds
