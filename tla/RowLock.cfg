\* Two transactions that compete for three rows; statements may fail.
SPECIFICATION Spec
CONSTANTS
  x1 = x1
  x2 = x2
  b1 = b1
  b2 = b2
  b3 = b3
  b4 = b4
  r1 = r1
  r2 = r2
  r3 = r3
  NoXid = NoXid
  Xids = {x1, x2}
  Branches = {b1, b2, b3, b4}
  Rows = {r1, r2, r3}
  TxOf <- Tx
  RowsOf <- Keys
  Skip = {b4}
  Lossy = TRUE
  Overlap = FALSE
INVARIANTS LockInv
PROPERTIES ImplementsRowLock
CHECK_DEADLOCK FALSE
