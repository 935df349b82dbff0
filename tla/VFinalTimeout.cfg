\* timeoutCheck acts on a list that has become stale.
SPECIFICATION Spec
CONSTANTS
  x1 = x1
  x2 = x2
  b1 = b1
  b2 = b2
  b3 = b3
  r1 = r1
  a1 = a1
  h1 = h1
  h2 = h2
  NoXid = NoXid
  NoBranch = NoBranch
  Xids = {x1}
  Branches = {b1, b2}
  Rows = {r1}
  Apps = {a1}
  Handlers = {h1}
  TxOf <- OneTx
  RowsOf <- RowOfB2
  AppOf <- OneApp
  HomeOf <- OneHome
  AT = {b2}
  SAGA = {}
  AsyncCommit = {}
  Reporters = {b1}
  Droppable = {}
  Deadlines = {"timeout"}
  Outcomes = {"done", "retryable", "cannotRetry", "error", "notReady"}
  LateRPC = FALSE
  UnlockOnRetryTimeout = FALSE
  MaxCalls = 1
  MaxCrashes = 0
  MaxStoreErrors = 0
PROPERTIES FinalStatusIsFinal
CHECK_DEADLOCK FALSE
