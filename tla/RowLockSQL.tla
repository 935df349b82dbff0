----------------------------- MODULE RowLockSQL -----------------------------
(***************************************************************************)
(* The row locks of the SQL stores (mysql.go, and the same in pgsql.go):   *)
(* AcquireLock looks for holders with one statement and inserts the rows   *)
(* that are missing with another, both outside of a database transaction;  *)
(* the primary key of lock_table refuses an insert of a row that exists.   *)
(***************************************************************************)
CONSTANTS
  Xids, Branches, Rows, TxOf, RowsOf, NoXid,
  Skip,        \* branches registered with skipCheckLock
  Lossy,       \* statements may fail
  Overlap      \* rows may be released while a branch of the transaction is being registered

ASSUME SQLTopology ==
  /\ TxOf \in [Branches -> Xids] /\ RowsOf \in [Branches -> SUBSET Rows]
  /\ NoXid \notin Xids /\ {Lossy, Overlap} \subseteq BOOLEAN

VARIABLES
  locks,       \* lock_table: row_key -> xid
  req,         \* how far each branch's AcquireLock is
  missing      \* its unrepeatedLocks: the rows it is going to insert

vars == <<locks, req, missing>>

Free(r) == locks[r] = NoXid
BranchesOf(x) == {b \in Branches : TxOf[b] = x}
RowsHeldBy(B) == UNION {RowsOf[b] : b \in B}

TypeOK ==
  /\ locks \in [Rows -> Xids \cup {NoXid}]
  /\ req \in [Branches -> {"none", "insert", "held", "released", "refused"}]
  /\ missing \in [Branches -> SUBSET Rows]

Init ==
  /\ locks = [r \in Rows |-> NoXid]
  /\ req = [b \in Branches |-> "none"] /\ missing = [b \in Branches |-> {}]

-----------------------------------------------------------------------------

Answer(b, outcome) == req' = [req EXCEPT ![b] = outcome]

\* go on with the insert of rows, or be done when there are none
Insert(b, rows) ==
  IF rows = {} THEN Answer(b, "held") /\ UNCHANGED missing
  ELSE Answer(b, "insert") /\ missing' = [missing EXCEPT ![b] = rows]

\* variant: the rows found are not compared with the transaction
QueryAnyHolder(b) ==
  /\ req[b] = "none" /\ b \notin Skip
  /\ Insert(b, {r \in RowsOf[b] : Free(r)})
  /\ UNCHANGED locks

\* SELECT ... WHERE row_key IN (...): a row of another transaction is a conflict
Query(b) ==
  /\ req[b] = "none" /\ b \notin Skip
  /\ IF \E r \in RowsOf[b] : locks[r] \notin {NoXid, TxOf[b]}
     THEN Answer(b, "refused") /\ UNCHANGED missing
     ELSE Insert(b, {r \in RowsOf[b] : Free(r)})
  /\ UNCHANGED locks

\* a failed SELECT finds nothing, and skipCheckLock does not look at what it finds
QueryUnused(b) ==
  /\ req[b] = "none" /\ (Lossy \/ b \in Skip)
  /\ Insert(b, RowsOf[b])
  /\ UNCHANGED locks

InsertRows(b) ==
  locks' = [r \in Rows |-> IF r \in missing[b] THEN TxOf[b] ELSE locks[r]]

\* variant: rows that exist are overwritten (REPLACE, ON DUPLICATE KEY UPDATE)
InsertMissingOverwriting(b) ==
  /\ req[b] = "insert"
  /\ InsertRows(b) /\ Answer(b, "held")
  /\ UNCHANGED missing

\* INSERT INTO lock_table VALUES (...), (...): all rows, or an error when one exists
InsertMissing(b) ==
  /\ req[b] = "insert"
  /\ IF \A r \in missing[b] : Free(r)
     THEN InsertRows(b) /\ Answer(b, "held")
     ELSE UNCHANGED locks /\ Answer(b, "refused")
  /\ UNCHANGED missing

\* the connection breaks: before the rows are written, or after
InsertError(b) ==
  /\ Lossy /\ req[b] = "insert"
  /\ UNCHANGED locks \/ ((\A r \in missing[b] : Free(r)) /\ InsertRows(b))
  /\ Answer(b, "refused") /\ UNCHANGED missing

\* no branch of x is between its two statements
Settled(x) == \A b \in BranchesOf(x) : req[b] # "insert"

\* DELETE ... WHERE row_key IN (...) AND xid = x: the rows of one branch (ReleaseLock) or of
\* all branches of a copy of x (ReleaseGlobalSessionLock)
Release(x, B) ==
  /\ B # {} /\ \A b \in B : TxOf[b] = x /\ req[b] \in {"held", "released"}
  /\ Overlap \/ Settled(x)
  /\ locks' = [r \in Rows |-> IF r \in RowsHeldBy(B) /\ locks[r] = x THEN NoXid ELSE locks[r]]
  /\ req' = [b \in Branches |->
               IF /\ req[b] = "held" /\ TxOf[b] = x
                  /\ b \in B \/ RowsOf[b] \cap RowsHeldBy(B) # {}
               THEN "released" ELSE req[b]]
  /\ UNCHANGED missing

Next ==
  \/ \E b \in Branches : Query(b) \/ QueryUnused(b) \/ InsertMissing(b) \/ InsertError(b)
  \/ \E x \in Xids, B \in SUBSET Branches : Release(x, B)

Spec == Init /\ [][Next]_vars

-----------------------------------------------------------------------------

\* A branch whose AcquireLock succeeded has all its rows until its own transaction releases
\* one: no two transactions are granted one row, whatever their two statements interleave with.
Exclusive == \A b \in Branches : req[b] = "held" => \A r \in RowsOf[b] : locks[r] = TxOf[b]

\* between its statements a branch keeps the rows that the first one found to be its own
RestIsOwn ==
  \A b \in Branches : req[b] = "insert" =>
    /\ missing[b] \subseteq RowsOf[b]
    /\ \A r \in RowsOf[b] \ missing[b] : locks[r] = TxOf[b]

\* The inductive invariant: what AcquireLock has established by its first statement is still
\* true when it executes the second.
LockInv == TypeOK /\ Exclusive /\ RestIsOwn

RL == INSTANCE RowLock WITH holder <- locks, granted <- {b \in Branches : req[b] = "held"}

\* The two statements of AcquireLock and the delete of ReleaseLock implement the atomic,
\* all-or-nothing operations of RowLock, which the transaction coordinator relies on.
ImplementsRowLock == RL!Spec

=============================================================================
