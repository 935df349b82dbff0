------------------------------ MODULE RowLock ------------------------------
(***************************************************************************)
(* What the lock manager of the TC promises (pkg/tc/lock): a branch is     *)
(* granted all the rows of its LockKey at once or none of them, and a row  *)
(* belongs to one global transaction at a time.                            *)
(***************************************************************************)
CONSTANTS
  Xids, Branches, Rows,
  TxOf, RowsOf,         \* branch -> xid, branch -> rows of its LockKey
  NoXid

VARIABLES
  holder,    \* the transaction each row is locked for
  granted    \* the branches that were granted their rows and have not lost one since

vars == <<holder, granted>>

RowsHeldBy(B) == UNION {RowsOf[b] : b \in B}

TypeOK == holder \in [Rows -> Xids \cup {NoXid}] /\ granted \subseteq Branches

Init == holder = [r \in Rows |-> NoXid] /\ granted = {}

\* nobody else holds a row that b wants
Lockable(b) == \A r \in RowsOf[b] : holder[r] \in {NoXid, TxOf[b]}

Take(b) ==
  /\ Lockable(b)
  /\ holder' = [r \in Rows |-> IF r \in RowsOf[b] THEN TxOf[b] ELSE holder[r]]

Acquire(b) == Take(b) /\ granted' = granted \cup {b}

\* the rows are locked, but the caller is told that they are not
AcquireUnnoticed(b) == Take(b) /\ UNCHANGED granted

\* the rows of the branches B of x become free, also under the other branches of x
Release(x, B) ==
  /\ \A b \in B : TxOf[b] = x
  /\ holder' = [r \in Rows |-> IF r \in RowsHeldBy(B) /\ holder[r] = x THEN NoXid ELSE holder[r]]
  /\ granted' = {b \in granted : TxOf[b] = x => RowsOf[b] \cap RowsHeldBy(B) = {}} \ B

Next ==
  \/ \E b \in Branches : Acquire(b) \/ AcquireUnnoticed(b)
  \/ \E x \in Xids, B \in SUBSET Branches : Release(x, B)

Spec == Init /\ [][Next]_vars

=============================================================================
