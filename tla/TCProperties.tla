---------------------------- MODULE TCProperties ----------------------------
(***************************************************************************)
(* What the transaction coordinator should guarantee, over the state and   *)
(* the history of TransactionCoordinator.                                  *)
(***************************************************************************)
EXTENDS TransactionCoordinator

StoreType ==
  /\ status \in [Xids -> Status] /\ active \in [Xids -> BOOLEAN]
  /\ bs \in [Branches -> {"None", "Registered", "PhaseOneFailed"}]
  /\ lock \in [Rows -> Xids \cup {NoXid}]

ProcType == proc \in [Procs -> LocalState]

ClientType ==
  /\ reg \in [Branches -> {"none", "lock", "add", "registered", "refused", "reporting", "done"}]
  /\ tm \in [Xids -> {"none", "active"} \cup Decisions] /\ calls \in [Xids -> Nat]

FaultType ==
  /\ past \in [Xids -> SUBSET Deadlines] /\ online \subseteq Apps
  /\ crashes \in Nat /\ storeErrors \in Nat

HistoryType ==
  /\ told \in [Xids -> SUBSET (Status \cup {"Finished"})]
  /\ asked \subseteq Decisions \X Branches
  /\ acked \subseteq Decisions \X Branches
  /\ refused \subseteq Decisions \X Branches

\* Every variable has its type: the three tables of the store, the locals of the goroutines
\* of pkg/tc/server, the TMs and RMs around them.
TypeOK == StoreType /\ ProcType /\ ClientType /\ FaultType /\ HistoryType

-----------------------------------------------------------------------------
(* Safety. *)

\* what entitles the TC to end a transaction in one way or the other
Mandate(d, x) == IF d = "commit" THEN tm[x] = "commit"
                 ELSE tm[x] = "rollback" \/ "timeout" \in past[x]

\* A branch is asked to commit only if the TM asked Commit of its transaction, and to roll
\* back only if the TM asked Rollback or the transaction outlived its timeout: the workers
\* retryCommitting, asyncCommitting and retryRollingBack never take the decision over.
Validity == \A b \in Branches, d \in Decisions : <<d, b>> \in asked => Mandate(d, TxOf[b])

\* No transaction has one branch asked to commit and another, or the same, asked to roll
\* back (doGlobalCommit, doGlobalRollback). It holds as long as no timeout elapses.
Agreement ==
  \A b, c \in Branches :
    TxOf[b] = TxOf[c] => ~(<<"commit", b>> \in asked /\ <<"rollback", c>> \in asked)

\* b has changed rows of its database that may still have to be undone
Undecided(b) ==
  /\ bs[b] = "Registered" /\ tm[TxOf[b]] # "commit"
  /\ <<"rollback", b>> \notin acked
  /\ \A c \in BranchesOf(TxOf[b]) : <<"rollback", c>> \notin refused

\* Global write isolation: the rows an AT branch has changed stay locked by its transaction
\* until its rollback has been done or the TM commits (BranchRegister, ReleaseLock).
WriteIsolation == \A b \in AT : Undecided(b) => \A r \in RowsOf[b] : lock[r] = TxOf[b]

\* A transaction whose retries have run out, or of which a branch has been refused for good.
Pardoned(x) == "retry" \in past[x] \/ \E c \in BranchesOf(x), d \in Decisions : <<d, c>> \in refused

\* The row of a branch leaves the table only when its RM carried out phase two, when its
\* phase one failed, when some RM refused for good, or when the retries have run out
\* (RemoveBranchSession, RemoveGlobalTransaction).
NoLostBranch ==
  [][\A b \in Branches : bs[b] # "None" /\ bs'[b] = "None" =>
       \/ {<<"commit", b>>, <<"rollback", b>>} \cap acked # {}
       \/ bs[b] = "PhaseOneFailed"
       \/ Pardoned(TxOf[b])]_vars

\* A session that is Committed, RolledBack or TimeoutRolledBack leaves the table only after
\* its last branch row: the second query before the final status misses no branch.
SessionOutlivesBranches ==
  [][\A x \in Xids :
       status[x] \in {"Committed", "RolledBack", "TimeoutRolledBack"} /\ status'[x] = "None"
         => \A b \in BranchesOf(x) : bs[b] = "None"]_vars

\* After the decision is recorded no handler or worker takes the transaction back: a row
\* never goes from a commit status to a rollback status or to Begin, or the other way.
DecisionIsStable ==
  [][\A x \in Xids : status[x] \in CommitStatus \cup RollbackStatus =>
       \/ status'[x] = "None"
       \/ status[x] \in CommitStatus /\ status'[x] \in CommitStatus
       \/ status[x] \in RollbackStatus /\ status'[x] \in RollbackStatus]_vars

\* seata.proto:115 "PHASE 2: Final Status: will NOT change any more."
FinalStatusIsFinal ==
  [][\A x \in Xids :
       status[x] \in {"Committed", "CommitFailed", "RolledBack", "RollbackFailed",
                      "TimeoutRolledBack", "TimeoutRollbackFailed"}
         => status'[x] \in {status[x], "None"}]_vars

\* seata.proto:116 "global transaction is successfully committed": a TM is not told Committed
\* when one of its branches has already refused to commit for good.
CommittedReplyIsTrue ==
  [][\A x \in Xids : "Committed" \in told'[x] \ told[x] =>
       \A b \in BranchesOf(x) : <<"commit", b>> \notin refused]_vars

\* seata.proto:138: a TM that is told Finished has a transaction that is "not managed ... any
\* more".
FinishedReplyIsTrue == \A x \in Xids : "Finished" \in told[x] => status[x] = "None"

\* transaction_coordinator.go:535 "The second query can solve the first problem", a branch
\* registered while the transaction rolls back.
SecondQuerySuffices ==
  [][\A x \in Xids : status[x] \in {"RolledBack", "TimeoutRolledBack"} /\ status'[x] = "None"
       => \A b \in BranchesOf(x) : bs[b] = "None"]_vars

\* No row stays locked by a transaction that is gone (ReleaseGlobalSessionLock comes before
\* RemoveGlobalTransaction).
NoOrphanLock == \A r \in Rows : lock[r] # NoXid => status[lock[r]] # "None"

-----------------------------------------------------------------------------
(***************************************************************************)
(* The inductive invariant behind TypeOK, Validity and Agreement.  Validity *)
(* alone is not inductive: the order to a branch comes from the list of a   *)
(* worker, the list from the status rows, and a status row from a handler   *)
(* or worker that acts on its own older copy.                               *)
(***************************************************************************)

Concluding == {"retryStatus", "errorStatus", "recheckBranches", "finalStatus"}
Walking == {"drive", "await", "unlockBranch", "removeBranch"}
Working == {"close", "unlockAll", "decide", "async", "drive", "await", "unlockBranch",
            "removeBranch", "finalUnlock", "finalSession", "finalBranches"} \cup Concluding

StatusOf(d) == IF d = "commit" THEN CommitStatus ELSE RollbackStatus

\* what the label of process p says about its local state l
LocalOK(p, l) ==
  /\ l \in LocalState
  /\ l.pc \in Working \/ (p \in Handlers /\ l.pc = "branches") => l.x \in l.list
  /\ l.pc \in {"await", "unlockBranch", "removeBranch"} => l.cur \in Branches
  /\ l.pc \in Walking => l.todo \subseteq BranchesOf(l.x)
  /\ l.pc \in Concluding => l.goal \in StatusOf(l.dec)
  /\ l.pc = "async" => l.dec = "commit"
  /\ p = "timeoutCheck" => /\ l.pc \in {"idle", "pick", "close", "decide"}
                           /\ l.pc # "idle" => l.dec = "rollback"

\* p is entitled to end what it works on, and all that is still on its list
MandateOf(p, l) ==
  IF p = "timeoutCheck" THEN l.pc \in {"close", "decide"} => Mandate("rollback", l.x)
  ELSE l.pc # "idle" => \A x \in l.list : Mandate(l.dec, x)

StatusMandate == \A x \in Xids, d \in Decisions : status[x] \in StatusOf(d) => Mandate(d, x)

ProcInv == ProcType /\ \A p \in Procs : LocalOK(p, proc[p]) /\ MandateOf(p, proc[p])

IInv == TypeOK /\ ProcInv /\ StatusMandate /\ Validity

-----------------------------------------------------------------------------
(* What a TM and its RMs see of the coordinator is a GlobalTransaction. *)

Progress(b) == CASE reg[b] = "registered" -> "entered"
                 [] reg[b] \in {"reporting", "done"} -> "failed"
                 [] OTHER -> "none"

Abstract == INSTANCE GlobalTransaction WITH
  decision <- tm,
  branch   <- [b \in Branches |-> Progress(b)],
  done     <- acked,
  pardoned <- {x \in Xids : Pardoned(x)},
  ended    <- {x \in Xids : tm[x] \in Decisions /\ status[x] = "None"},
  finished <- {x \in Xids : "Finished" \in told[x]}

\* The handlers and workers of the TC, with their copies, retries and crashes, carry out what
\* GlobalTransaction promises: one decision of the TM (Commit, Rollback), carried out by every
\* branch before RemoveGlobalTransaction ends the transaction.
ImplementsGlobalTransaction == Abstract!Spec

-----------------------------------------------------------------------------
(* Liveness. *)

\* README.md: "TC drives all branch transactions ... to finish branch committing or rolling
\* back": once the TM has decided, the transaction is driven to its end and removed.
EventuallyFinished ==
  \A x \in Xids : tm[x] \in Decisions ~> status[x] = "None"

\* README.md:24, for a commit that has started: Committing is left again.
CommittingIsDriven == \A x \in Xids : status[x] = "Committing" ~> status[x] # "Committing"

\* every branch that was registered is eventually acknowledged and its row removed
NoOrphanBranch ==
  \A b \in Branches : (bs[b] # "None" /\ tm[TxOf[b]] \in Decisions) ~> bs[b] = "None"

=============================================================================
