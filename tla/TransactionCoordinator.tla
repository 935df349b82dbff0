----------------------- MODULE TransactionCoordinator -----------------------
(***************************************************************************)
(* The transaction coordinator (TC) of seata-golang, pkg/tc/server, over   *)
(* the session holder, the lock manager and an SQL store.                  *)
(*                                                                         *)
(* Every call to the store is one atomic step; between two calls any other *)
(* goroutine may run.  A process is a goroutine of the TC: a handler of a  *)
(* Commit or Rollback request, or one of the four periodic workers.  It    *)
(* works on the copy of the session and branch rows it has read ("list",   *)
(* "st", "open", "view", "failed"), never on the rows themselves.  The     *)
(* global session locker of the code grants every request and excludes     *)
(* nothing (global_session_locker.go), so it has no state here.            *)
(***************************************************************************)
EXTENDS Naturals, FiniteSets

CONSTANTS
  Xids, Branches, Rows, Apps,   \* transactions, branches, lockable rows, application addresses
  Handlers,                     \* goroutines that serve Commit and Rollback requests
  TxOf, AppOf, HomeOf, RowsOf,  \* branch -> xid, branch -> RM, xid -> TM address, branch -> rows of its LockKey
  AT, SAGA, AsyncCommit,        \* branches of type AT, of type SAGA, and registered with AsyncCommit
  Reporters,                    \* branches whose phase one may fail and be reported
  Droppable,                    \* applications whose stream may break
  Deadlines,                    \* the time limits that may elapse
  Outcomes,                     \* what a phase-two call may come to
  LateRPC,                      \* registrations and reports may outlive the business call
  UnlockOnRetryTimeout,         \* rollbackRetryTimeoutUnlockEnable
  MaxCalls, MaxCrashes, MaxStoreErrors,  \* bounds, of the model only
  NoXid, NoBranch

Workers   == {"timeoutCheck", "retryRollingBack", "retryCommitting", "asyncCommitting"}
Procs     == Handlers \cup Workers
Decisions == {"commit", "rollback"}
Limits    == {"timeout", "dead", "retry"}
Results   == {"done", "retryable", "cannotRetry", "error", "notReady"}

CommitStatus   == {"Committing", "CommitRetrying", "AsyncCommitting", "Committed", "CommitFailed"}
TimeoutStatus  == {"TimeoutRollingBack", "TimeoutRollbackRetrying", "TimeoutRolledBack",
                   "TimeoutRollbackFailed"}
RollbackStatus == {"RollingBack", "RollbackRetrying", "RolledBack", "RollbackFailed"} \cup TimeoutStatus
Status         == {"None", "Begin"} \cup CommitStatus \cup RollbackStatus

ASSUME TopologyAssumption ==
  /\ TxOf \in [Branches -> Xids] /\ RowsOf \in [Branches -> SUBSET Rows]
  /\ AppOf \in [Branches -> Apps] /\ HomeOf \in [Xids -> Apps]
  /\ NoXid \notin Xids /\ NoBranch \notin Branches
ASSUME HandlersAssumption == Handlers \cap Workers = {}
ASSUME BoundsAssumption ==
  MaxCalls \in Nat /\ MaxCrashes \in Nat /\ MaxStoreErrors \in Nat

VARIABLES
  status, active,   \* the global_table rows: status ("None": no row) and active flag
  bs,               \* the branch_table rows: branch status ("None": no row)
  lock,             \* the lock_table: the xid that holds each row
  proc,             \* the local state of every process
  reg,              \* the progress of each branch's registration and report
  tm, calls,        \* what each TM has decided, and how many requests it has sent
  past,             \* the time limits each transaction has outlived
  online,           \* the applications with a live stream to the TC
  crashes, storeErrors,
  told,             \* the statuses each TM was answered
  asked, acked, refused  \* phase-two calls sent, carried out, refused for good

store    == <<status, active, bs, lock>>
clients  == <<reg, tm, calls>>
faults   == <<past, online, crashes, storeErrors>>
history  == <<told, asked, acked, refused>>
vars     == <<store, proc, clients, faults, history>>

BranchesOf(x) == {b \in Branches : TxOf[b] = x}
RowsHeldBy(B) == UNION {RowsOf[b] : b \in B}

Labels == {"idle", "branches", "pick", "close", "unlockAll", "decide", "async", "drive", "await",
           "unlockBranch", "removeBranch", "retryStatus", "errorStatus",
           "recheckBranches", "finalStatus", "finalUnlock", "finalSession", "finalBranches"}

LocalState == [pc : Labels, dec : Decisions, x : Xids \cup {NoXid}, list : SUBSET Xids,
               st : [Xids -> Status], open : SUBSET Xids, view : SUBSET Branches,
               failed : SUBSET Branches, todo : SUBSET Branches,
               cur : Branches \cup {NoBranch}, goal : Status]

Idle == [pc |-> "idle", dec |-> "commit", x |-> NoXid, list |-> {}, st |-> [y \in Xids |-> "None"],
         open |-> {}, view |-> {}, failed |-> {}, todo |-> {}, cur |-> NoBranch, goal |-> "None"]

Init ==
  /\ status = [x \in Xids |-> "None"] /\ active = [x \in Xids |-> FALSE]
  /\ bs = [b \in Branches |-> "None"] /\ lock = [r \in Rows |-> NoXid]
  /\ proc = [p \in Procs |-> Idle]
  /\ reg = [b \in Branches |-> "none"]
  /\ tm = [x \in Xids |-> "none"] /\ calls = [x \in Xids |-> 0]
  /\ past = [x \in Xids |-> {}] /\ online = {} /\ crashes = 0 /\ storeErrors = 0
  /\ told = [x \in Xids |-> {}] /\ asked = {} /\ acked = {} /\ refused = {}

-----------------------------------------------------------------------------
(* Store operations (mysql.go) and local bookkeeping. *)

\* UPDATE ... WHERE xid: no error when the row is gone
SetStatus(x, s) == status' = [status EXCEPT ![x] = IF @ = "None" THEN @ ELSE s]

\* DELETE ... WHERE row_key IN (...) AND xid
Unlock(x, B) == lock' = [r \in Rows |-> IF r \in RowsHeldBy(B) /\ lock[r] = x THEN NoXid ELSE lock[r]]

Becomes(p, local) == proc' = [proc EXCEPT ![p] = local]
Goto(p, label) == Becomes(p, [proc[p] EXCEPT !.pc = label])

\* the branches of the current transaction left in p's copy of it
View(p) == proc[p].view \cap BranchesOf(proc[p].x)
CanBeCommittedAsync(p) == View(p) \subseteq AT \cup AsyncCommit
IsSaga(p) == View(p) \cap SAGA # {}
IsTimeoutGlobalStatus(p) == proc[p].st[proc[p].x] \in TimeoutStatus
Retrying(p) == p \in Workers

\* p is through with its transaction: a handler ends, a worker takes the next one on its list
Return(p) ==
  LET x == proc[p].x
      rest == proc[p].list \ {x}
  IN Becomes(p, IF rest = {} THEN Idle
                ELSE [proc[p] EXCEPT !.pc = "pick", !.x = NoXid, !.list = rest, !.st[x] = "None",
                                     !.open = @ \ {x}, !.view = @ \ BranchesOf(x),
                                     !.failed = @ \ BranchesOf(x), !.todo = {},
                                     !.cur = NoBranch, !.goal = "None"])

\* the status a handler replies with; a worker answers nobody
Reply(p, s) == told' = IF p \in Handlers THEN [told EXCEPT ![proc[p].x] = @ \cup {s}] ELSE told

\* doGlobalCommit or doGlobalRollback came back without an error
Finished(p) ==
  /\ Reply(p, IF proc[p].dec = "commit" THEN "Committed" ELSE proc[p].st[proc[p].x])
  /\ Return(p)

-----------------------------------------------------------------------------
(* Requests of the TM: Begin, then one decision, which it may send again   *)
(* when a reply fails or is lost.                                          *)

\* variant: the session is stored before gt.Begin() has filled it in
BeginUnset(x) ==
  /\ tm[x] = "none"
  /\ tm' = [tm EXCEPT ![x] = "active"]
  /\ status' = [status EXCEPT ![x] = "UnknownGlobalStatus"] /\ UNCHANGED active
  /\ UNCHANGED <<bs, lock, proc, reg, calls, faults, history>>

Begin(x) ==
  /\ tm[x] = "none"
  /\ tm' = [tm EXCEPT ![x] = "active"]
  /\ status' = [status EXCEPT ![x] = "Begin"] /\ active' = [active EXCEPT ![x] = TRUE]
  /\ UNCHANGED <<bs, lock, proc, reg, calls, faults, history>>

\* branch b has a request at the TC whose handler has not ended, and how it ends when it fails
InFlight(b) == reg[b] \in {"lock", "add", "reporting"}
Failed(b) == IF reg[b] = "reporting" THEN "done" ELSE "refused"

\* the business method has returned: with an error the TM rolls back, otherwise it commits
Decide(x, d) ==
  /\ tm[x] = "active"
  /\ LateRPC \/ \A b \in BranchesOf(x) : ~InFlight(b)
  /\ tm' = [tm EXCEPT ![x] = d]
  /\ UNCHANGED <<store, proc, reg, calls, faults, history>>

\* Commit or Rollback: FindGlobalTransaction reads the session row; a read error counts as no row
FindSession(h, x, found) ==
  /\ proc[h].pc = "idle" /\ tm[x] \in Decisions /\ calls[x] < MaxCalls
  /\ calls' = [calls EXCEPT ![x] = @ + 1]
  /\ IF found
     THEN /\ Becomes(h, [Idle EXCEPT !.pc = "branches", !.dec = tm[x], !.x = x, !.list = {x},
                                     !.st[x] = status[x],
                                     !.open = IF active[x] THEN {x} ELSE {}])
          /\ UNCHANGED told
     ELSE told' = [told EXCEPT ![x] = @ \cup {"Finished"}] /\ UNCHANGED proc
  /\ UNCHANGED <<store, reg, tm, past, online, crashes, asked, acked, refused>>

\* variant: a closed session is taken for one that is gone
RequestActiveOnly(h, x) == FindSession(h, x, status[x] # "None" /\ active[x]) /\ UNCHANGED storeErrors

Request(h, x) == FindSession(h, x, status[x] # "None") /\ UNCHANGED storeErrors

\* ... and then the branch rows, for a handler's transaction or for all on a worker's list
ReadBranches(p, rows) ==
  /\ proc[p].pc = "branches"
  /\ Becomes(p, [proc[p] EXCEPT !.view = rows,
                                !.failed = {b \in rows : bs[b] = "PhaseOneFailed"},
                                !.pc = IF p \in Handlers THEN "close" ELSE "pick"])
  /\ UNCHANGED <<store, clients, past, online, crashes, history>>

FindBranches(p) ==
  /\ ReadBranches(p, {b \in Branches : TxOf[b] \in proc[p].list /\ bs[b] # "None"})
  /\ UNCHANGED storeErrors

-----------------------------------------------------------------------------
(* Closing the session and recording the decision.                         *)

\* if gt.Active then InactiveGlobalSession
CloseSession(p) ==
  LET x == proc[p].x IN
  /\ proc[p].pc = "close"
  /\ active' = IF x \in proc[p].open THEN [active EXCEPT ![x] = FALSE] ELSE active
  /\ Becomes(p, [proc[p] EXCEPT !.open = @ \ {x},
                                !.pc = IF p \in Handlers /\ proc[p].dec = "commit"
                                       THEN "unlockAll" ELSE "decide"])
  /\ UNCHANGED <<status, bs, lock, clients, faults, history>>

\* Commit only: ReleaseGlobalSessionLock, before the status is looked at
ReleaseOnCommit(p) ==
  /\ proc[p].pc = "unlockAll"
  /\ Unlock(proc[p].x, View(p)) /\ Goto(p, "decide")
  /\ UNCHANGED <<status, active, bs, clients, faults, history>>

\* start doGlobalCommit or doGlobalRollback on the copy p holds
Driving(local, x) == [local EXCEPT !.pc = "drive", !.x = x, !.todo = local.view \cap BranchesOf(x)]

\* a handler that read Begin writes its decision over whatever the row says by now
RecordDecision(h) ==
  LET x == proc[h].x
      s == IF proc[h].dec = "commit" THEN "Committing" ELSE "RollingBack"
      local == [proc[h] EXCEPT !.st[x] = s]
  IN
  /\ h \in Handlers /\ proc[h].pc = "decide" /\ proc[h].st[x] = "Begin"
  /\ SetStatus(x, s)
  /\ Becomes(h, IF proc[h].dec = "commit" /\ CanBeCommittedAsync(h)
                THEN [local EXCEPT !.pc = "async"] ELSE Driving(local, x))
  /\ UNCHANGED <<active, bs, lock, clients, faults, history>>

\* a handler that read any other status only reports it
AlreadyDecided(h) ==
  LET s == proc[h].st[proc[h].x] IN
  /\ h \in Handlers /\ proc[h].pc = "decide" /\ s # "Begin"
  /\ Reply(h, IF proc[h].dec = "commit" /\ s = "AsyncCommitting" THEN "Committed" ELSE s)
  /\ Return(h)
  /\ UNCHANGED <<store, clients, faults, asked, acked, refused>>

\* every branch is asynchronous: leave the commit to the worker and reply
DeferCommit(h) ==
  /\ proc[h].pc = "async"
  /\ SetStatus(proc[h].x, "AsyncCommitting")
  /\ Reply(h, "Committed") /\ Return(h)
  /\ UNCHANGED <<active, bs, lock, clients, faults, asked, acked, refused>>

\* timeoutCheck writes TimeoutRollingBack without reading the status again
RecordTimeout ==
  LET p == "timeoutCheck" IN
  /\ proc[p].pc = "decide"
  /\ SetStatus(proc[p].x, "TimeoutRollingBack") /\ Return(p)
  /\ UNCHANGED <<active, bs, lock, clients, faults, history>>

-----------------------------------------------------------------------------
(* The periodic workers: read a list of sessions, then take them in turn.  *)

\* variants: the rollback worker also takes commits, or leaves failed rollbacks out
RetryRollbackStatusWide == RollbackStatus \cup {"CommitRetrying"}
RetryRollbackStatusNarrow == {"RollingBack", "TimeoutRollingBack"}

RetryRollbackStatus == {"RollingBack", "RollbackRetrying", "TimeoutRollingBack",
                        "TimeoutRollbackRetrying"}

\* the sessions a worker's query selects; all but timeoutCheck want a connected TM
Listed(w) ==
  CASE w = "timeoutCheck"     -> {x \in Xids : status[x] = "Begin"}
    [] w = "retryRollingBack" -> {x \in Xids : status[x] \in RetryRollbackStatus /\ HomeOf[x] \in online}
    [] w = "retryCommitting"  -> {x \in Xids : status[x] = "CommitRetrying" /\ HomeOf[x] \in online}
    [] w = "asyncCommitting"  -> {x \in Xids : status[x] = "AsyncCommitting" /\ HomeOf[x] \in online}

\* a query that selects nothing, or fails, ends the round at once
Scan(w) ==
  /\ proc[w].pc = "idle" /\ Listed(w) # {}
  /\ Becomes(w, [Idle EXCEPT
       !.pc = IF w = "timeoutCheck" THEN "pick" ELSE "branches",
       !.dec = IF w \in {"timeoutCheck", "retryRollingBack"} THEN "rollback" ELSE "commit",
       !.list = Listed(w),
       !.st = [x \in Xids |-> IF x \in Listed(w) THEN status[x] ELSE "None"],
       !.open = {x \in Listed(w) : active[x]}])
  /\ UNCHANGED <<store, clients, faults, history>>

\* variant: every listed session counts as timed out
PickTimeoutAlways(x) ==
  LET p == "timeoutCheck" IN
  /\ proc[p].pc = "pick" /\ x \in proc[p].list
  /\ Becomes(p, [proc[p] EXCEPT !.pc = "close", !.x = x])
  /\ UNCHANGED <<store, clients, faults, history>>

\* isGlobalSessionTimeout, then TryLock (which always succeeds)
PickTimeout(x) ==
  LET p == "timeoutCheck" IN
  /\ proc[p].pc = "pick" /\ x \in proc[p].list
  /\ IF "timeout" \in past[x] THEN Becomes(p, [proc[p] EXCEPT !.pc = "close", !.x = x])
     ELSE Becomes(p, IF proc[p].list = {x} THEN Idle
                     ELSE [proc[p] EXCEPT !.list = @ \ {x}, !.st[x] = "None", !.open = @ \ {x}])
  /\ UNCHANGED <<store, clients, faults, history>>

\* RollingBack is left to the handler until the transaction is old enough (IsRollingBackDead)
SkipRollingBack(w, x) == /\ w = "retryRollingBack" /\ proc[w].st[x] = "RollingBack"
                         /\ "dead" \notin past[x]

\* isRetryTimeout; asynchronous commits are retried for ever
GivesUp(w, x) == w # "asyncCommitting" /\ "retry" \in past[x]

PickRetry(w, x) ==
  /\ w \in Workers \ {"timeoutCheck"} /\ proc[w].pc = "pick" /\ x \in proc[w].list
  /\ Becomes(w, IF SkipRollingBack(w, x)
                THEN IF proc[w].list = {x} THEN Idle
                     ELSE [proc[w] EXCEPT !.list = @ \ {x}, !.st[x] = "None", !.open = @ \ {x},
                                          !.view = @ \ BranchesOf(x), !.failed = @ \ BranchesOf(x)]
                ELSE IF GivesUp(w, x)
                THEN [proc[w] EXCEPT !.x = x,
                        !.pc = IF w = "retryRollingBack" /\ UnlockOnRetryTimeout
                               THEN "finalUnlock" ELSE "finalSession"]
                ELSE Driving(proc[w], x))
  /\ UNCHANGED <<store, clients, faults, history>>

-----------------------------------------------------------------------------
(* doGlobalCommit and doGlobalRollback: a walk over the copied branches.   *)

\* SAGA transactions are refused with an error
RefuseSaga(p) ==
  /\ proc[p].pc = "drive" /\ IsSaga(p) /\ Return(p)
  /\ UNCHANGED <<store, clients, faults, history>>

\* b is the next branch of the walk and wants a phase-two call
Next2(p, b) ==
  /\ proc[p].pc = "drive" /\ b \in proc[p].todo /\ ~IsSaga(p)
  /\ ~(proc[p].dec = "rollback" /\ b \in proc[p].failed)

\* rollback of a branch whose phase one failed: no call, only the clean-up
DropFailedBranch(p, b) ==
  /\ proc[p].pc = "drive" /\ b \in proc[p].todo /\ ~IsSaga(p)
  /\ proc[p].dec = "rollback" /\ b \in proc[p].failed
  /\ Becomes(p, [proc[p] EXCEPT !.pc = "unlockBranch", !.cur = b])
  /\ UNCHANGED <<store, clients, faults, history>>

\* branchCommit, branchRollback: a sender goroutine of the RM's stream takes the message
SendCallback(p, b) ==
  /\ Next2(p, b) /\ AppOf[b] \in online
  /\ asked' = asked \cup {<<proc[p].dec, b>>}
  /\ Becomes(p, [proc[p] EXCEPT !.pc = "await", !.cur = b])
  /\ UNCHANGED <<store, clients, faults, told, acked, refused>>

\* the branch stays in the copy but the walk goes on without it
Continue(p, b) == Becomes(p, [proc[p] EXCEPT !.pc = "drive", !.todo = @ \ {b}, !.cur = NoBranch])

RetryGoal(p) == IF proc[p].dec = "commit" THEN "CommitRetrying"
                ELSE IF IsTimeoutGlobalStatus(p) THEN "TimeoutRollbackRetrying" ELSE "RollbackRetrying"

\* the "default" case: b is neither done nor lost
NotDone(p, b) ==
  IF ~Retrying(p)
  THEN Becomes(p, [proc[p] EXCEPT !.pc = "retryStatus", !.goal = RetryGoal(p)]) /\ UNCHANGED told
  ELSE IF proc[p].dec = "commit" /\ CanBeCommittedAsync(p)
  THEN Continue(p, b) /\ UNCHANGED told
  ELSE Finished(p)

\* nobody is receiving from the RM's channel: the branch's own status is returned
QueueNotReady(p, b) ==
  /\ "notReady" \in Outcomes \/ AppOf[b] \notin online
  /\ Next2(p, b) /\ NotDone(p, b)
  /\ UNCHANGED <<store, clients, faults, asked, acked, refused>>

\* PhaseTwoCommitted, PhaseTwoRolledBack
AnswerDone(p) ==
  /\ proc[p].pc = "await" /\ "done" \in Outcomes
  /\ acked' = acked \cup {<<proc[p].dec, proc[p].cur>>}
  /\ Goto(p, "unlockBranch")
  /\ UNCHANGED <<store, clients, faults, told, asked, refused>>

\* variant: a retryable failure is cleaned up like a success
AnswerRetryableDropped(p) ==
  /\ proc[p].pc = "await" /\ "retryable" \in Outcomes
  /\ Goto(p, "unlockBranch")
  /\ UNCHANGED <<store, clients, faults, history>>

\* any other status with a success code
AnswerRetryable(p) ==
  /\ proc[p].pc = "await" /\ "retryable" \in Outcomes
  /\ NotDone(p, proc[p].cur)
  /\ UNCHANGED <<store, clients, faults, asked, acked, refused>>

FailedGoal(p) == IF proc[p].dec = "commit" THEN "CommitFailed"
                 ELSE IF IsTimeoutGlobalStatus(p) THEN "TimeoutRollbackFailed" ELSE "RollbackFailed"

\* Phase...FailedCanNotRetry: fatal, except for a commit whose remaining branches are asynchronous
AnswerCannotRetry(p) ==
  /\ proc[p].pc = "await" /\ "cannotRetry" \in Outcomes
  /\ refused' = refused \cup {<<proc[p].dec, proc[p].cur>>}
  /\ IF proc[p].dec = "commit" /\ CanBeCommittedAsync(p)
     THEN Continue(p, proc[p].cur)
     ELSE Becomes(p, [proc[p] EXCEPT !.pc = "finalStatus", !.goal = FailedGoal(p)])
  /\ UNCHANGED <<store, clients, faults, told, asked, acked>>

\* an error code, or streamMessageTimeout; the RM may have done the work all the same
AnswerError(p) ==
  /\ proc[p].pc = "await" /\ "error" \in Outcomes
  /\ IF Retrying(p) THEN Return(p)
     ELSE Becomes(p, [proc[p] EXCEPT !.pc = "errorStatus", !.goal = RetryGoal(p)])
  /\ UNCHANGED <<store, clients, faults, history>>

\* record that the workers must go on, and end: with an error after an error
RecordRetry(p) ==
  LET x == proc[p].x IN
  /\ proc[p].pc \in {"retryStatus", "errorStatus"}
  /\ SetStatus(x, proc[p].goal)
  /\ IF proc[p].pc = "errorStatus" THEN UNCHANGED told
     ELSE Reply(p, IF proc[p].dec = "commit" THEN "Committed" ELSE proc[p].goal)
  /\ Return(p)
  /\ UNCHANGED <<active, bs, lock, clients, faults, asked, acked, refused>>

ReleaseBranch(p) ==
  /\ proc[p].pc = "unlockBranch"
  /\ Unlock(proc[p].x, {proc[p].cur}) /\ Goto(p, "removeBranch")
  /\ UNCHANGED <<status, active, bs, clients, faults, history>>

RemoveBranchSession(p) ==
  LET b == proc[p].cur IN
  /\ proc[p].pc = "removeBranch"
  /\ bs' = [bs EXCEPT ![b] = "None"]
  /\ Becomes(p, [proc[p] EXCEPT !.pc = "drive", !.view = @ \ {b}, !.todo = @ \ {b}, !.cur = NoBranch])
  /\ UNCHANGED <<status, active, lock, clients, faults, history>>

\* the walk is over: FindGlobalTransaction again, session row first
EndOfWalk(p) ==
  LET x == proc[p].x
      goal == IF proc[p].dec = "commit" THEN "Committed"
              ELSE IF IsTimeoutGlobalStatus(p) THEN "TimeoutRolledBack" ELSE "RolledBack"
  IN
  /\ proc[p].pc = "drive" /\ proc[p].todo = {} /\ ~IsSaga(p)
  /\ Becomes(p, [proc[p] EXCEPT !.goal = goal,
                   !.pc = IF status[x] = "None" THEN "finalStatus" ELSE "recheckBranches"])
  /\ UNCHANGED <<store, clients, faults, history>>

\* variant: no second query
RecheckSkipped(p) ==
  /\ proc[p].pc = "recheckBranches"
  /\ Goto(p, "finalStatus") /\ UNCHANGED told
  /\ UNCHANGED <<store, clients, faults, asked, acked, refused>>

\* ... then its branch rows: a branch that is left postpones the end, the status stays
Recheck(p) ==
  /\ proc[p].pc = "recheckBranches"
  /\ IF \E b \in BranchesOf(proc[p].x) : bs[b] # "None"
     THEN Finished(p)
     ELSE Goto(p, "finalStatus") /\ UNCHANGED told
  /\ UNCHANGED <<store, clients, faults, asked, acked, refused>>

FinalStatus(p) ==
  LET x == proc[p].x IN
  /\ proc[p].pc = "finalStatus"
  /\ SetStatus(x, proc[p].goal)
  /\ Becomes(p, [proc[p] EXCEPT !.st[x] = proc[p].goal, !.pc = "finalUnlock"])
  /\ UNCHANGED <<active, bs, lock, clients, faults, history>>

\* variant: the row locks are forgotten
FinalUnlockForgotten(p) ==
  /\ proc[p].pc = "finalUnlock"
  /\ Goto(p, "finalSession")
  /\ UNCHANGED <<store, clients, faults, history>>

FinalUnlock(p) ==
  /\ proc[p].pc = "finalUnlock"
  /\ Unlock(proc[p].x, View(p)) /\ Goto(p, "finalSession")
  /\ UNCHANGED <<status, active, bs, clients, faults, history>>

\* RemoveGlobalTransaction: the session row, then the branches left in p's copy one by one
RemoveGlobalSession(p) ==
  LET x == proc[p].x IN
  /\ proc[p].pc = "finalSession"
  /\ status' = [status EXCEPT ![x] = "None"] /\ active' = [active EXCEPT ![x] = FALSE]
  /\ IF View(p) = {} THEN Finished(p) ELSE Goto(p, "finalBranches") /\ UNCHANGED told
  /\ UNCHANGED <<bs, lock, clients, faults, asked, acked, refused>>

RemoveLeftBranch(p, b) ==
  /\ proc[p].pc = "finalBranches" /\ b \in View(p)
  /\ bs' = [bs EXCEPT ![b] = "None"]
  /\ IF View(p) = {b} THEN Finished(p)
     ELSE Becomes(p, [proc[p] EXCEPT !.view = @ \ {b}]) /\ UNCHANGED told
  /\ UNCHANGED <<status, active, lock, clients, faults, asked, acked, refused>>

-----------------------------------------------------------------------------
(* Requests of the RM: BranchRegister and BranchReport.                    *)

\* FindGlobalTransaction, then the checks of Active and Status on what was read
RegisterFind(b) ==
  LET x == TxOf[b] IN
  /\ reg[b] = "none" /\ tm[x] = "active"
  /\ reg' = [reg EXCEPT ![b] = IF status[x] # "Begin" \/ ~active[x] THEN "refused"
                               ELSE IF b \in AT THEN "lock" ELSE "add"]
  /\ UNCHANGED <<store, proc, tm, calls, faults, history>>

\* variant: the rows are locked without looking for another holder
AcquireLockUnchecked(b) ==
  /\ reg[b] = "lock"
  /\ lock' = [r \in Rows |-> IF r \in RowsOf[b] THEN TxOf[b] ELSE lock[r]]
  /\ reg' = [reg EXCEPT ![b] = "add"]
  /\ UNCHANGED <<status, active, bs, proc, tm, calls, faults, history>>

\* all rows of the LockKey or none; rows the transaction holds already are no conflict
AcquireLock(b) ==
  LET x == TxOf[b]
      free == \A r \in RowsOf[b] : lock[r] \in {NoXid, x}
  IN
  /\ reg[b] = "lock"
  /\ lock' = IF free THEN [r \in Rows |-> IF r \in RowsOf[b] THEN x ELSE lock[r]] ELSE lock
  /\ reg' = [reg EXCEPT ![b] = IF free THEN "add" ELSE "refused"]
  /\ UNCHANGED <<status, active, bs, proc, tm, calls, faults, history>>

\* the insert asks nothing of the session row any more
AddBranchSession(b) ==
  /\ reg[b] = "add"
  /\ bs' = [bs EXCEPT ![b] = "Registered"] /\ reg' = [reg EXCEPT ![b] = "registered"]
  /\ UNCHANGED <<status, active, lock, proc, tm, calls, faults, history>>

\* the RM's phase one has failed; TCC reports it, and the TC reads the branch
ReportFind(b) ==
  /\ b \in Reporters /\ reg[b] = "registered" /\ (LateRPC \/ tm[TxOf[b]] = "active")
  /\ reg' = [reg EXCEPT ![b] = IF status[TxOf[b]] # "None" /\ bs[b] # "None" THEN "reporting"
                               ELSE "done"]
  /\ UNCHANGED <<store, proc, tm, calls, faults, history>>

\* ... and updates its row, if it is still there
ReportWrite(b) ==
  /\ reg[b] = "reporting"
  /\ bs' = [bs EXCEPT ![b] = IF @ = "None" THEN @ ELSE "PhaseOneFailed"]
  /\ reg' = [reg EXCEPT ![b] = "done"]
  /\ UNCHANGED <<status, active, lock, proc, tm, calls, faults, history>>

-----------------------------------------------------------------------------
(* Time, streams, crashes and errors of the store.                         *)

\* the transaction's age passes its timeout, rollbackDeadSeconds or max...RetryTimeout
Elapse(x, limit) ==
  /\ status[x] # "None" /\ limit \in Deadlines \ past[x]
  /\ past' = [past EXCEPT ![x] = @ \cup {limit}]
  /\ UNCHANGED <<store, proc, clients, online, crashes, storeErrors, history>>

Connect(a) ==
  /\ a \notin online /\ online' = online \cup {a}
  /\ UNCHANGED <<store, proc, clients, past, crashes, storeErrors, history>>

Disconnect(a) ==
  /\ a \in online \cap Droppable /\ online' = online \ {a}
  /\ UNCHANGED <<store, proc, clients, past, crashes, storeErrors, history>>

\* the TC stops: goroutines and streams are gone, the tables stay
Crash ==
  /\ crashes < MaxCrashes /\ crashes' = crashes + 1
  /\ proc' = [p \in Procs |-> Idle]
  /\ reg' = [b \in Branches |-> IF InFlight(b) THEN Failed(b) ELSE reg[b]]
  /\ online' = {}
  /\ UNCHANGED <<store, tm, calls, past, storeErrors, history>>

StoreError == storeErrors < MaxStoreErrors /\ storeErrors' = storeErrors + 1

\* a failed read of a session row is taken for "no such row", of branch rows for "no branches"
RequestError(h, x) == StoreError /\ FindSession(h, x, FALSE)
FindBranchesError(p) == StoreError /\ ReadBranches(p, {})

RecheckError(p) ==
  /\ StoreError /\ proc[p].pc = "recheckBranches" /\ Goto(p, "finalStatus")
  /\ UNCHANGED <<store, clients, past, online, crashes, history>>

\* the outcome of ReleaseLock and ReleaseGlobalSessionLock is not looked at
UnlockError(p) ==
  /\ StoreError /\ proc[p].pc \in {"unlockAll", "unlockBranch", "finalUnlock"}
  /\ Goto(p, CASE proc[p].pc = "unlockAll"    -> "decide"
               [] proc[p].pc = "unlockBranch" -> "removeBranch"
               [] proc[p].pc = "finalUnlock"  -> "finalSession")
  /\ UNCHANGED <<store, clients, past, online, crashes, history>>

\* p is about to write a session or branch row
Writing(p) ==
  \/ proc[p].pc \in {"async", "retryStatus", "errorStatus", "removeBranch", "finalStatus",
                     "finalSession", "finalBranches"}
  \/ proc[p].pc = "close" /\ proc[p].x \in proc[p].open
  \/ proc[p].pc = "decide" /\ (p \in Handlers => proc[p].st[proc[p].x] = "Begin")

\* a failed write is returned at once; timeoutCheck gives up its whole round
WriteError(p) ==
  /\ StoreError /\ Writing(p)
  /\ IF p = "timeoutCheck" THEN Becomes(p, Idle) ELSE Return(p)
  /\ UNCHANGED <<store, clients, past, online, crashes, history>>

\* a registration or report that fails; row locks already taken are not given back
RegisterError(b) ==
  /\ StoreError /\ InFlight(b)
  /\ reg' = [reg EXCEPT ![b] = Failed(b)]
  /\ UNCHANGED <<store, proc, tm, calls, past, online, crashes, history>>

-----------------------------------------------------------------------------

\* what a process does when the RM it waits for answers or the timer fires
Await(p) ==
  AnswerDone(p) \/ AnswerRetryable(p) \/ AnswerCannotRetry(p) \/ AnswerError(p)

\* a step of the walk that needs no RM
Walk(p) ==
  \/ RefuseSaga(p) \/ EndOfWalk(p)
  \/ \E b \in Branches : DropFailedBranch(p, b) \/ QueueNotReady(p, b)

\* a step that follows from the code of p alone, once p has work
Proceed(p) ==
  \/ FindBranches(p) \/ CloseSession(p) \/ ReleaseOnCommit(p)
  \/ RecordDecision(p) \/ AlreadyDecided(p) \/ DeferCommit(p)
  \/ p = "timeoutCheck" /\ (RecordTimeout \/ \E x \in Xids : PickTimeout(x))
  \/ \E x \in Xids : PickRetry(p, x)
  \/ RecordRetry(p) \/ ReleaseBranch(p) \/ RemoveBranchSession(p)
  \/ Recheck(p) \/ FinalStatus(p) \/ FinalUnlock(p) \/ RemoveGlobalSession(p)
  \/ \E b \in Branches : RemoveLeftBranch(p, b)

Faulty(p) == FindBranchesError(p) \/ RecheckError(p) \/ UnlockError(p) \/ WriteError(p)

ProcStep(p) ==
  \/ Proceed(p) \/ Walk(p) \/ Await(p) \/ Faulty(p)
  \/ \E b \in Branches : SendCallback(p, b)

ClientStep ==
  \/ \E x \in Xids : Begin(x) \/ \E d \in Decisions : Decide(x, d)
  \/ \E h \in Handlers, x \in Xids : Request(h, x) \/ RequestError(h, x)

BranchStep(b) ==
  \/ RegisterFind(b) \/ AcquireLock(b) \/ AddBranchSession(b)
  \/ ReportFind(b) \/ ReportWrite(b) \/ RegisterError(b)

EnvStep ==
  \/ \E x \in Xids, limit \in Limits : Elapse(x, limit)
  \/ \E a \in Apps : Connect(a) \/ Disconnect(a)
  \/ Crash

Next ==
  \/ ClientStep \/ EnvStep
  \/ \E b \in Branches : BranchStep(b)
  \/ \E w \in Workers : Scan(w)
  \/ \E p \in Procs : ProcStep(p)

Spec == Init /\ [][Next]_vars

(***************************************************************************)
(* Fairness.  A goroutine that can run does, the periodic workers' timers  *)
(* fire, streams are re-established, a TM sends the decision it has made   *)
(* and time passes, though not always up to the retry limit: giving up is  *)
(* no progress to count on.  An RM that is asked again and again does      *)
(* answer PhaseTwo{Committed,RolledBack}, and its channel has a receiver   *)
(* again and again: strong fairness, since each single attempt may fail.   *)
(***************************************************************************)
Fairness ==
  /\ \A p \in Procs : WF_vars(Proceed(p) \/ Walk(p) \/ Await(p))
  /\ \A p \in Procs \ {"timeoutCheck"} : /\ SF_vars(\E b \in Branches : SendCallback(p, b))
                                         /\ SF_vars(AnswerDone(p))
  /\ \A w \in Workers : WF_vars(Scan(w))
  /\ WF_vars(\E b \in Branches : AcquireLock(b) \/ AddBranchSession(b) \/ ReportWrite(b))
  /\ \A x \in Xids : /\ WF_vars(\E h \in Handlers : Request(h, x))
                     /\ WF_vars(\E limit \in Limits \ {"retry"} : Elapse(x, limit))
  /\ \A a \in Apps : WF_vars(Connect(a))

FairSpec == Spec /\ Fairness

=============================================================================
