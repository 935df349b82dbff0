--------------------------- MODULE RowLockProofs ---------------------------
(***************************************************************************)
(* The SQL row locks implement the atomic lock table, for every number of  *)
(* transactions, branches and rows, as long as no row is released under a  *)
(* branch that is between its two statements.                              *)
(***************************************************************************)
EXTENDS RowLockSQL, TLAPS

LEMMA InitInv == Init => LockInv
BY SQLTopology DEF Init, LockInv, TypeOK, Exclusive, RestIsOwn

\* The first statement moves no lock and finds what RestIsOwn says.
LEMMA QueryInv ==
  ASSUME LockInv, NEW b \in Branches, Query(b) \/ QueryUnused(b)
  PROVE  LockInv'
<1> USE SQLTopology DEF LockInv
<1>1. locks' = locks /\ req[b] = "none"
  BY DEF Query, QueryUnused
<1>2. PICK rows \in SUBSET RowsOf[b] :
        /\ \A r \in RowsOf[b] \ rows : locks[r] = TxOf[b]
        /\ \/ req' = [req EXCEPT ![b] = "refused"] /\ missing' = missing
           \/ Insert(b, rows)
  <2>1. CASE Query(b)
    <3> DEFINE free == {r \in RowsOf[b] : Free(r)}
    <3>1. CASE \E r \in RowsOf[b] : locks[r] \notin {NoXid, TxOf[b]}
      <4>1. req' = [req EXCEPT ![b] = "refused"] /\ missing' = missing
        BY <2>1, <3>1 DEF Query, Answer
      <4> QED BY <4>1
    <3>2. CASE ~ \E r \in RowsOf[b] : locks[r] \notin {NoXid, TxOf[b]}
      <4>1. Insert(b, free)
        BY <2>1, <3>2 DEF Query
      <4>2. \A r \in RowsOf[b] \ free : locks[r] = TxOf[b]
        BY <3>2 DEF Free
      <4> QED BY <4>1, <4>2
    <3> QED BY <3>1, <3>2
  <2>2. CASE QueryUnused(b)
    BY <2>2 DEF QueryUnused
  <2> QED BY <2>1, <2>2
<1>3. RowsOf[b] \subseteq Rows
  OBVIOUS
<1>4. TypeOK'
  BY <1>1, <1>2, <1>3 DEF TypeOK, Insert, Answer
<1>5. Exclusive'
  BY <1>1, <1>2 DEF TypeOK, Exclusive, Insert, Answer
<1>6. RestIsOwn'
  BY <1>1, <1>2 DEF TypeOK, RestIsOwn, Insert, Answer
<1> QED BY <1>4, <1>5, <1>6

\* The rows that are inserted were free, so nobody loses one.
LEMMA InsertKeeps ==
  ASSUME LockInv, NEW b \in Branches, req[b] = "insert",
         \A r \in missing[b] : Free(r), InsertRows(b)
  PROVE  /\ locks' \in [Rows -> Xids \cup {NoXid}]
         /\ \A r \in RowsOf[b] : locks'[r] = TxOf[b]
         /\ \A r \in Rows : locks[r] # NoXid => locks'[r] = locks[r]
         /\ RL!Take(b)
<1> USE SQLTopology DEF LockInv, TypeOK
<1>1. locks' = [r \in Rows |-> IF r \in missing[b] THEN TxOf[b] ELSE locks[r]]
  BY DEF InsertRows
<1>2. missing[b] \subseteq RowsOf[b] /\ \A r \in RowsOf[b] \ missing[b] : locks[r] = TxOf[b]
  BY DEF RestIsOwn
<1>3. RowsOf[b] \subseteq Rows /\ TxOf[b] \in Xids
  OBVIOUS
<1>4. locks' = [r \in Rows |-> IF r \in RowsOf[b] THEN TxOf[b] ELSE locks[r]]
  BY <1>1, <1>2
<1>5. RL!Lockable(b)
  BY <1>2 DEF RL!Lockable, Free
<1> QED BY <1>1, <1>2, <1>3, <1>4, <1>5 DEF Free, RL!Take

LEMMA InsertInv ==
  ASSUME LockInv, NEW b \in Branches, InsertMissing(b) \/ InsertError(b)
  PROVE  LockInv'
<1> USE SQLTopology DEF LockInv
<1>1. req[b] = "insert" /\ missing' = missing
  BY DEF InsertMissing, InsertError
<1>2. \/ (\A r \in missing[b] : Free(r)) /\ InsertRows(b) /\ req' = [req EXCEPT ![b] = "held"]
      \/ (\A r \in missing[b] : Free(r)) /\ InsertRows(b) /\ req' = [req EXCEPT ![b] = "refused"]
      \/ locks' = locks /\ req' = [req EXCEPT ![b] = "refused"]
  BY DEF InsertMissing, InsertError, Answer
<1>3. CASE (\A r \in missing[b] : Free(r)) /\ InsertRows(b) /\ req' \in {[req EXCEPT ![b] = o] : o \in {"held", "refused"}}
  <2>1. /\ locks' \in [Rows -> Xids \cup {NoXid}]
        /\ \A r \in RowsOf[b] : locks'[r] = TxOf[b]
        /\ \A r \in Rows : locks[r] # NoXid => locks'[r] = locks[r]
    BY <1>1, <1>3, InsertKeeps
  <2>2. PICK o \in {"held", "refused"} : req' = [req EXCEPT ![b] = o]
    BY <1>3
  <2>3. \A c \in Branches : RowsOf[c] \subseteq Rows /\ TxOf[c] # NoXid
    OBVIOUS
  <2>4. TypeOK'
    BY <1>1, <2>1, <2>2 DEF TypeOK
  <2>5. Exclusive'
    BY <2>1, <2>2, <2>3 DEF Exclusive, TypeOK
  <2>6. RestIsOwn'
    BY <1>1, <2>1, <2>2, <2>3 DEF RestIsOwn, TypeOK
  <2> QED BY <2>4, <2>5, <2>6
<1>4. CASE locks' = locks /\ req' = [req EXCEPT ![b] = "refused"]
  BY <1>1, <1>4 DEF TypeOK, Exclusive, RestIsOwn
<1> QED BY <1>2, <1>3, <1>4

\* A release takes rows from branches of its own transaction only, none of which is
\* between its two statements.
LEMMA ReleaseInv ==
  ASSUME LockInv, ~Overlap, NEW x \in Xids, NEW B \in SUBSET Branches, Release(x, B)
  PROVE  LockInv'
<1> USE SQLTopology DEF LockInv
<1>1. /\ locks' = [r \in Rows |-> IF r \in RowsHeldBy(B) /\ locks[r] = x THEN NoXid ELSE locks[r]]
      /\ req' = [b \in Branches |->
                  IF /\ req[b] = "held" /\ TxOf[b] = x
                     /\ b \in B \/ RowsOf[b] \cap RowsHeldBy(B) # {}
                  THEN "released" ELSE req[b]]
      /\ missing' = missing
  BY DEF Release
<1>2. \A b \in Branches : TxOf[b] = x => req[b] # "insert"
  BY DEF Release, Settled, BranchesOf
<1>3. \A b \in Branches : RowsOf[b] \subseteq Rows
  OBVIOUS
<1>4. TypeOK'
  BY <1>1 DEF TypeOK
<1>5. Exclusive'
  <2> SUFFICES ASSUME NEW b \in Branches, req'[b] = "held", NEW r \in RowsOf[b]
               PROVE  locks'[r] = TxOf[b]
    BY DEF Exclusive
  <2>1. req[b] = "held" /\ (TxOf[b] = x => RowsOf[b] \cap RowsHeldBy(B) = {})
    BY <1>1
  <2>2. locks[r] = TxOf[b] /\ r \in Rows
    BY <1>3, <2>1 DEF Exclusive
  <2> QED BY <1>1, <2>1, <2>2
<1>6. RestIsOwn'
  <2> SUFFICES ASSUME NEW b \in Branches, req'[b] = "insert"
               PROVE  /\ missing'[b] \subseteq RowsOf[b]
                      /\ \A r \in RowsOf[b] \ missing'[b] : locks'[r] = TxOf[b]
    BY DEF RestIsOwn
  <2>1. req[b] = "insert" /\ TxOf[b] # x
    BY <1>1, <1>2
  <2> QED BY <1>1, <1>3, <2>1 DEF RestIsOwn
<1> QED BY <1>4, <1>5, <1>6

\* LockInv holds in every state: AcquireLock's second statement still finds true what its
\* first one established, and what was granted is not taken away by another transaction.
THEOREM LockInvariance == ASSUME ~Overlap PROVE Spec => []LockInv
<1>1. LockInv /\ [Next]_vars => LockInv'
  <2> SUFFICES ASSUME LockInv, [Next]_vars PROVE LockInv'
    OBVIOUS
  <2>1. CASE \E b \in Branches : Query(b) \/ QueryUnused(b)
    BY <2>1, QueryInv
  <2>2. CASE \E b \in Branches : InsertMissing(b) \/ InsertError(b)
    BY <2>2, InsertInv
  <2>3. CASE \E x \in Xids, B \in SUBSET Branches : Release(x, B)
    BY <2>3, ReleaseInv
  <2>4. CASE UNCHANGED vars
    BY <2>4 DEF vars, LockInv, TypeOK, Exclusive, RestIsOwn
  <2> QED BY <2>1, <2>2, <2>3, <2>4 DEF Next
<1> QED BY InitInv, <1>1, PTL DEF Spec

\* No two transactions are granted one row.
COROLLARY ExclusiveHolds == ASSUME ~Overlap PROVE Spec => []Exclusive
<1>1. LockInv => Exclusive
  BY DEF LockInv
<1> QED BY LockInvariance, <1>1, PTL

-----------------------------------------------------------------------------
(* Refinement: which step of RowLock each step is. *)

Granted == {b \in Branches : req[b] = "held"}

LEMMA QueryStep ==
  ASSUME LockInv, NEW b \in Branches, Query(b) \/ QueryUnused(b)
  PROVE  RL!Next \/ UNCHANGED RL!vars
<1> USE SQLTopology DEF LockInv, TypeOK
<1>1. locks' = locks /\ req[b] = "none"
  BY DEF Query, QueryUnused
<1>2. CASE req' = [req EXCEPT ![b] = "held"]
  <2>1. \A r \in RowsOf[b] : locks[r] = TxOf[b]
    BY <1>2 DEF Query, QueryUnused, Insert, Answer, Free
  <2>2. locks' = [r \in Rows |-> IF r \in RowsOf[b] THEN TxOf[b] ELSE locks[r]]
    BY <1>1, <2>1
  <2>3. RL!Take(b)
    BY <2>1, <2>2 DEF RL!Take, RL!Lockable
  <2>4. Granted' = Granted \cup {b}
    BY <1>2 DEF Granted
  <2> QED BY <2>3, <2>4 DEF RL!Next, RL!Acquire, Granted
<1>3. CASE req' # [req EXCEPT ![b] = "held"]
  <2>1. req' = [req EXCEPT ![b] = "refused"] \/ req' = [req EXCEPT ![b] = "insert"]
    BY <1>3 DEF Query, QueryUnused, Insert, Answer
  <2>2. Granted' = Granted
    BY <1>1, <2>1 DEF Granted
  <2> QED BY <1>1, <2>2 DEF RL!vars, Granted
<1> QED BY <1>2, <1>3

LEMMA InsertStep ==
  ASSUME LockInv, NEW b \in Branches, InsertMissing(b) \/ InsertError(b)
  PROVE  RL!Next \/ UNCHANGED RL!vars
<1> USE SQLTopology DEF LockInv, TypeOK
<1>1. req[b] = "insert"
  BY DEF InsertMissing, InsertError
<1>2. CASE (\A r \in missing[b] : Free(r)) /\ InsertRows(b) /\ req' = [req EXCEPT ![b] = "held"]
  <2>1. RL!Take(b)
    BY <1>1, <1>2, InsertKeeps
  <2>2. Granted' = Granted \cup {b}
    BY <1>2 DEF Granted
  <2> QED BY <2>1, <2>2 DEF RL!Next, RL!Acquire, Granted
<1>3. CASE (\A r \in missing[b] : Free(r)) /\ InsertRows(b) /\ req' = [req EXCEPT ![b] = "refused"]
  <2>1. RL!Take(b)
    BY <1>1, <1>3, InsertKeeps
  <2>2. Granted' = Granted
    BY <1>1, <1>3 DEF Granted
  <2> QED BY <2>1, <2>2 DEF RL!Next, RL!AcquireUnnoticed, Granted
<1>4. CASE locks' = locks /\ req' = [req EXCEPT ![b] = "refused"]
  BY <1>1, <1>4 DEF RL!vars
<1> QED BY <1>2, <1>3, <1>4 DEF InsertMissing, InsertError, Answer

LEMMA ReleaseStep ==
  ASSUME LockInv, NEW x \in Xids, NEW B \in SUBSET Branches, Release(x, B)
  PROVE  RL!Release(x, B)
<1>1. RL!RowsHeldBy(B) = RowsHeldBy(B)
  BY DEF RL!RowsHeldBy, RowsHeldBy
<1>2. Granted' = {b \in Granted : TxOf[b] = x => RowsOf[b] \cap RowsHeldBy(B) = {}} \ B
  BY DEF Release, Granted
<1> QED BY <1>1, <1>2 DEF Release, RL!Release, Granted

\* The two statements of AcquireLock implement the atomic acquisition of all rows or none.
THEOREM Refinement == ASSUME ~Overlap PROVE Spec => ImplementsRowLock
<1>1. Init => RL!Init
  BY DEF Init, RL!Init
<1>2. LockInv /\ [Next]_vars => [RL!Next]_(RL!vars)
  <2> SUFFICES ASSUME LockInv, [Next]_vars PROVE RL!Next \/ UNCHANGED RL!vars
    OBVIOUS
  <2>1. CASE \E b \in Branches : Query(b) \/ QueryUnused(b)
    BY <2>1, QueryStep
  <2>2. CASE \E b \in Branches : InsertMissing(b) \/ InsertError(b)
    BY <2>2, InsertStep
  <2>3. CASE \E x \in Xids, B \in SUBSET Branches : Release(x, B)
    BY <2>3, ReleaseStep DEF RL!Next
  <2>4. CASE UNCHANGED vars
    BY <2>4 DEF vars, RL!vars
  <2> QED BY <2>1, <2>2, <2>3, <2>4 DEF Next
<1> QED BY LockInvariance, <1>1, <1>2, PTL DEF Spec, RL!Spec, ImplementsRowLock
=============================================================================
