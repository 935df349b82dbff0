\* Two transactions compete for a row.
SPECIFICATION Spec
CONSTANTS
  x1 = x1
  x2 = x2
  b1 = b1
  b2 = b2
  b3 = b3
  r1 = r1
  a1 = a1
  h1 = h1
  h2 = h2
  NoXid = NoXid
  NoBranch = NoBranch
  Xids = {x1, x2}
  Branches = {b1, b2}
  Rows = {r1}
  Apps = {a1}
  Handlers = {h1}
  TxOf <- TwoTx
  RowsOf <- SharedRow
  AppOf <- OneApp
  HomeOf <- OneHome
  AT = {b1, b2}
  SAGA = {}
  AsyncCommit = {}
  Reporters = {}
  Droppable = {}
  Deadlines = {"dead"}
  Outcomes = {"done", "retryable", "cannotRetry", "error", "notReady"}
  LateRPC = FALSE
  UnlockOnRetryTimeout = FALSE
  MaxCalls = 1
  MaxCrashes = 0
  MaxStoreErrors = 0
INVARIANTS WriteIsolation NoOrphanLock
CHECK_DEADLOCK FALSE
