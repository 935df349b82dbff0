\* Progress: no timeout, no crash, no store error, no RM that refuses for good.
SPECIFICATION FairSpec
CONSTANTS
  x1 = x1
  x2 = x2
  b1 = b1
  b2 = b2
  b3 = b3
  r1 = r1
  a1 = a1
  h1 = h1
  h2 = h2
  NoXid = NoXid
  NoBranch = NoBranch
  Xids = {x1}
  Branches = {b1, b2}
  Rows = {r1}
  Apps = {a1}
  Handlers = {h1}
  TxOf <- OneTx
  RowsOf <- RowOfB2
  AppOf <- OneApp
  HomeOf <- OneHome
  AT = {b2}
  SAGA = {}
  AsyncCommit = {}
  Reporters = {}
  Droppable = {}
  Deadlines = {"dead", "retry"}
  Outcomes = {"done", "retryable", "error", "notReady"}
  LateRPC = FALSE
  UnlockOnRetryTimeout = TRUE
  MaxCalls = 1
  MaxCrashes = 0
  MaxStoreErrors = 0
INVARIANTS NoOrphanLock
PROPERTIES EventuallyFinished NoOrphanBranch
CHECK_DEADLOCK FALSE
