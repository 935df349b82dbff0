\* One store operation may fail, anywhere; late registrations and reports arrive; a SAGA branch.
SPECIFICATION Spec
CONSTANTS
  x1 = x1
  x2 = x2
  b1 = b1
  b2 = b2
  b3 = b3
  r1 = r1
  a1 = a1
  h1 = h1
  h2 = h2
  NoXid = NoXid
  NoBranch = NoBranch
  Xids = {x1}
  Branches = {b1, b2, b3}
  Rows = {r1}
  Apps = {a1}
  Handlers = {h1}
  TxOf <- OneTx
  RowsOf <- RowOfB2
  AppOf <- OneApp
  HomeOf <- OneHome
  AT = {b2}
  SAGA = {b3}
  AsyncCommit = {}
  Reporters = {b1}
  Droppable = {}
  Deadlines = {"dead"}
  Outcomes = {"done", "retryable", "cannotRetry", "error", "notReady"}
  LateRPC = TRUE
  UnlockOnRetryTimeout = FALSE
  MaxCalls = 1
  MaxCrashes = 0
  MaxStoreErrors = 1
INVARIANTS Validity
CHECK_DEADLOCK FALSE
