\* The TC may crash once; the TM sends its decision twice, to two handlers.
SPECIFICATION Spec
CONSTANTS
  x1 = x1
  x2 = x2
  b1 = b1
  b2 = b2
  b3 = b3
  r1 = r1
  a1 = a1
  h1 = h1
  h2 = h2
  NoXid = NoXid
  NoBranch = NoBranch
  Xids = {x1}
  Branches = {b1, b2}
  Rows = {r1}
  Apps = {a1}
  Handlers = {h1, h2}
  TxOf <- OneTx
  RowsOf <- RowOfB2
  AppOf <- OneApp
  HomeOf <- OneHome
  AT = {b2}
  SAGA = {}
  AsyncCommit = {}
  Reporters = {}
  Droppable = {}
  Deadlines = {"dead"}
  Outcomes = {"done", "retryable", "cannotRetry"}
  LateRPC = FALSE
  UnlockOnRetryTimeout = FALSE
  MaxCalls = 2
  MaxCrashes = 1
  MaxStoreErrors = 0
INVARIANTS TypeOK Agreement FinishedReplyIsTrue
PROPERTIES ImplementsGlobalTransaction SessionOutlivesBranches DecisionIsStable
SYMMETRY Symmetry
CHECK_DEADLOCK FALSE
