--------------------------- MODULE TCSessionProofs ---------------------------
(***************************************************************************)
(* What is left of a transaction when its session is gone: no branch row   *)
(* if it ended well, no row lock, and a TM that is told Finished asks for  *)
(* nothing that is still there.                                            *)
(***************************************************************************)
EXTENDS TCProofs

(* The theorems are about transactions that their TM decides, once its       *)
(* business calls have come back, over a store that works.  A transaction    *)
(* that outlives its timeout is rolled back while branches still register,   *)
(* and then none of this holds.                                              *)

InTime == "timeout" \notin Deadlines /\ ~LateRPC
StoreWorks == MaxStoreErrors = 0

Decided(x) == tm[x] \in Decisions

-----------------------------------------------------------------------------
(* How transactions end. *)

Success == {"Committed", "RolledBack", "TimeoutRolledBack"}

\* The transactions of which nothing is left to be driven: their branches are gone, or they are.
Ended == {x \in Xids : Decided(x) /\ (status[x] = "None" \/ \A b \in BranchesOf(x) : bs[b] = "None")}

\* A registration or report under way keeps its transaction from being decided.
AwaitedOK == \A b \in Branches : InFlight(b) => tm[TxOf[b]] = "active"

\* Until it is decided, its status is Begin.
OpenOK ==
  /\ AwaitedOK
  /\ \A x \in Xids : tm[x] = "active" => status[x] = "Begin"

\* A final status of success is written for transactions that have ended only.
EndOK(p, l, ended) ==
  /\ l.pc = "finalStatus" /\ l.goal \in Success => l.x \in ended
  /\ l.pc \in {"retryStatus", "errorStatus"} => l.goal \notin Success
  /\ p = "timeoutCheck" => l.pc \in {"idle", "pick"}

EndingOK == \A p \in Procs : EndOK(p, proc[p], Ended)

SuccessOK == \A x \in Xids : status[x] \in Success => x \in Ended

\* What a TM was told Finished of stays away.
FinishedOK == \A x \in Xids : "Finished" \in told[x] => status[x] = "None" /\ Decided(x)

EndInv == IInv /\ OpenOK /\ EndingOK /\ SuccessOK

-----------------------------------------------------------------------------
(* Row locks. *)

\* A row locked for a branch whose insert a crash has cut off: no copy of the branches of x
\* will ever name it.
Stray(r, x) == crashes > 0 /\ \E b \in BranchesOf(x) : reg[b] = "refused" /\ r \in RowsOf[b]

\* The other rows x has locked.
Held(x) == {r \in Rows : lock[r] = x /\ ~Stray(r, x)}
AllHeld == [x \in Xids |-> Held(x)]

\* rollbackRetryTimeoutUnlockEnable frees the rows of a rollback that is given up.
FreeOnGiveUp == UnlockOnRetryTimeout \/ "retry" \notin Deadlines

\* A row is locked for a branch that is being inserted or is there.
OwnersOK ==
  \A x \in Xids : \A r \in Held(x) :
    \E b \in BranchesOf(x) : r \in RowsOf[b] /\ (reg[b] = "add" \/ bs[b] # "None")

\* A transaction that commits has freed its rows, and so has one that is gone.
FreeOK == \A x \in Xids : status[x] \in CommitStatus \cup {"None"} => Held(x) = {}

\* Who has read the branches knows of all locked rows of the transactions on its list; who
\* commits has freed them, and so has who is about to remove the session.
ReleaseOK(p, l, held) ==
  /\ p \in Handlers /\ l.pc # "idle" => l.list = {l.x}
  /\ p \in {"retryCommitting", "asyncCommitting"} /\ l.pc # "idle" => l.dec = "commit"
  /\ l.pc \in {"await", "unlockBranch", "removeBranch"} => l.cur \in BranchesOf(l.x)
  /\ p # "timeoutCheck" /\ l.pc \notin {"idle", "branches"} =>
       \A x \in l.list : held[x] \subseteq RowsHeldBy(l.view \cap BranchesOf(x))
  /\ l.dec = "commit" /\ l.pc # "idle"
       /\ (p \in Workers \/ l.pc \notin {"branches", "close", "unlockAll"}) =>
       \A x \in l.list : held[x] = {}
  /\ l.pc \in {"finalSession", "finalBranches"} => held[l.x] = {}
  /\ l.pc = "removeBranch" => held[l.x] \cap RowsOf[l.cur] = {}

ReleasingOK == \A p \in Procs : ReleaseOK(p, proc[p], AllHeld)

LockInv == EndInv /\ OwnersOK /\ FreeOK /\ ReleasingOK

-----------------------------------------------------------------------------
(* What a store that works and transactions in time mean for the steps. *)

LEMMA NoErrors ==
  ASSUME IInv, StoreWorks
  PROVE  /\ ~StoreError
         /\ \A p \in Procs : ~Faulty(p)
         /\ \A b \in Branches : ~RegisterError(b)
         /\ \A h \in Handlers, x \in Xids : ~RequestError(h, x)
<1>1. ~StoreError
  BY DEF IInv, TypeOK, FaultType, StoreWorks, StoreError
<1> QED  BY <1>1 DEF Faulty, FindBranchesError, RecheckError, UnlockError, WriteError,
         RegisterError, RequestError

\* Nothing is driven but what its TM has decided.
LEMMA MandateDecides ==
  ASSUME IInv, InTime, NEW x \in Xids, NEW d \in Decisions, Mandate(d, x)
  PROVE  tm[x] = d
<1>1. "timeout" \notin past[x]
  BY DEF IInv, TypeOK, FaultType, InTime
<1> QED  BY <1>1 DEF Mandate, Decisions

LEMMA WorkDecided ==
  ASSUME IInv, InTime, NEW p \in Procs
  PROVE  /\ proc[p].pc \in Working =>
              Decided(proc[p].x) /\ proc[p].x \in proc[p].list /\ proc[p].x \in Xids
         /\ p # "timeoutCheck" /\ proc[p].pc # "idle" => \A x \in proc[p].list : Decided(x)
<1>0. ProcInv
  BY DEF IInv
<1>1. proc[p].dec \in Decisions /\ proc[p].list \subseteq Xids
  BY <1>0, LocalFacts
<1>2. ASSUME proc[p].pc \in Working
      PROVE  Decided(proc[p].x) /\ proc[p].x \in proc[p].list /\ proc[p].x \in Xids
  <2>1. proc[p].x \in proc[p].list /\ proc[p].x \in Xids /\ Mandate(proc[p].dec, proc[p].x)
    BY <1>0, <1>2, WorkFacts
  <2>2. tm[proc[p].x] = proc[p].dec
    BY <1>1, <2>1, MandateDecides
  <2> QED  BY <1>1, <2>1, <2>2 DEF Decided
<1>3. ASSUME p # "timeoutCheck", proc[p].pc # "idle", NEW x \in proc[p].list PROVE Decided(x)
  BY <1>0, <1>1, <1>3, LocalFacts, MandateDecides DEF MandateOf, Decided
<1> QED  BY <1>2, <1>3

\* A session that was removed does not come back once its TM has decided.
LEMMA GoneStays ==
  ASSUME IInv, [Next]_vars, NEW x \in Xids, Decided(x)
  PROVE  Decided(x)' /\ (status[x] = "None" => status'[x] = "None")
<1>0. StoreType /\ ClientType
  BY DEF IInv, TypeOK
<1>1. Decided(x)'
  BY TMSteps DEF Decided
<1>2. ASSUME NEW y \in Xids, Begin(y) PROVE status'[x] = status[x]
  <2>1. y # x
    BY <1>2 DEF Begin, Decided, Decisions
  <2> QED  BY <1>0, <1>2, <2>1 DEF Begin, StoreType
<1>3. ASSUME NEW p \in Procs, ProcStep(p), status[x] = "None" PROVE status'[x] = "None"
  <2>1. CASE Proceed(p)
    BY <1>0, <1>3, <2>1, StatusWrites DEF SetStatus, StoreType
  <2> QED  BY <1>3, <2>1, StatusKept DEF ProcStep
<1>4. CASE ClientStep
  <2>1. CASE \E y \in Xids : Begin(y)
    BY <1>1, <1>2, <2>1
  <2>2. CASE \E y \in Xids, d \in Decisions : Decide(y, d)
    BY <1>1, <2>2 DEF Decide, store
  <2>3. CASE \E h \in Handlers, y \in Xids : Request(h, y) \/ RequestError(h, y)
    BY <1>1, <2>3 DEF Request, RequestError, FindSession, store
  <2> QED  BY <1>4, <2>1, <2>2, <2>3 DEF ClientStep
<1>5. CASE EnvStep \/ (\E b \in Branches : BranchStep(b)) \/ (\E w \in Workers : Scan(w))
           \/ UNCHANGED vars
  BY <1>1, <1>5 DEF EnvStep, Elapse, Connect, Disconnect, Crash, BranchStep, RegisterFind,
     AcquireLock, AddBranchSession, ReportFind, ReportWrite, RegisterError, Scan, vars, store
<1> QED  BY <1>1, <1>3, <1>4, <1>5 DEF Next

-----------------------------------------------------------------------------
(* Who is told Finished. *)

\* No reply of a handler is Finished.
LEMMA ReplyFinished ==
  ASSUME IInv, NEW p \in Procs, NEW x \in Xids, NEW s \in Status, Reply(p, s),
         "Finished" \in told'[x]
  PROVE  "Finished" \in told[x]
<1>1. "Finished" \notin Status
  BY DEF Status, CommitStatus, RollbackStatus, TimeoutStatus
<1> QED  BY <1>1 DEF Reply, IInv, TypeOK, HistoryType

LEMMA FinishedFinished ==
  ASSUME IInv, NEW p \in Procs, Finished(p), proc[p].pc \in Working,
         NEW x \in Xids, "Finished" \in told'[x]
  PROVE  "Finished" \in told[x]
<1>1. proc[p].x \in Xids /\ proc[p].st \in [Xids -> Status]
  BY WorkFacts, LocalFacts DEF IInv
<1>2. (IF proc[p].dec = "commit" THEN "Committed" ELSE proc[p].st[proc[p].x]) \in Status
  BY <1>1 DEF Status, CommitStatus
<1> QED  BY <1>2, ReplyFinished DEF Finished

LEMMA ProcFinished ==
  ASSUME IInv, StoreWorks, NEW p \in Procs, ProcStep(p), NEW x \in Xids, "Finished" \in told'[x]
  PROVE  "Finished" \in told[x]
<1>0. /\ proc[p].goal \in Status /\ proc[p].st \in [Xids -> Status]
      /\ proc[p].pc \in Working => proc[p].x \in Xids
      /\ {"Committed", "AsyncCommitting"} \subseteq Status
  BY WorkFacts, LocalFacts DEF IInv, Status, CommitStatus
<1>1. CASE AlreadyDecided(p)
  <2> DEFINE s == proc[p].st[proc[p].x]
             t == IF proc[p].dec = "commit" /\ s = "AsyncCommitting" THEN "Committed" ELSE s
  <2>1. t \in Status /\ Reply(p, t)
    BY <1>0, <1>1 DEF AlreadyDecided, Working
  <2> QED  BY <2>1, ReplyFinished
<1>2. CASE DeferCommit(p)
  BY <1>0, <1>2, ReplyFinished DEF DeferCommit
<1>3. CASE RecordRetry(p)
  <2> DEFINE t == IF proc[p].dec = "commit" THEN "Committed" ELSE proc[p].goal
  <2>1. t \in Status
    BY <1>0
  <2>2. UNCHANGED told \/ Reply(p, t)
    BY <1>3 DEF RecordRetry
  <2> QED  BY <2>1, <2>2, ReplyFinished
<1>4. CASE Recheck(p) \/ RemoveGlobalSession(p) \/ \E b \in Branches : RemoveLeftBranch(p, b)
  <2>1. proc[p].pc \in Working
    BY <1>4 DEF Recheck, RemoveGlobalSession, RemoveLeftBranch, Working, Concluding
  <2>2. UNCHANGED told \/ Finished(p)
    BY <1>4 DEF Recheck, RemoveGlobalSession, RemoveLeftBranch
  <2> QED  BY <2>1, <2>2, FinishedFinished
<1>5. CASE AnswerRetryable(p) \/ \E b \in Branches : QueueNotReady(p, b)
  <2>1. proc[p].pc \in Working
    BY <1>5 DEF AnswerRetryable, QueueNotReady, Next2, Working
  <2>2. UNCHANGED told \/ Finished(p)
    BY <1>5 DEF AnswerRetryable, QueueNotReady, NotDone
  <2> QED  BY <2>1, <2>2, FinishedFinished
<1>6. CASE UNCHANGED told
  BY <1>6
<1>7. CASE Proceed(p)
  BY <1>1, <1>2, <1>3, <1>4, <1>6, <1>7 DEF Proceed, FindBranches, ReadBranches, CloseSession,
     ReleaseOnCommit, RecordDecision, RecordTimeout, PickTimeout, PickRetry, ReleaseBranch,
     RemoveBranchSession, FinalStatus, FinalUnlock, history
<1>8. CASE Walk(p) \/ Await(p) \/ \E b \in Branches : SendCallback(p, b)
  BY <1>5, <1>6, <1>8 DEF Walk, RefuseSaga, EndOfWalk, DropFailedBranch, Await,
     AnswerDone, AnswerCannotRetry, AnswerError, SendCallback, history
<1> QED  BY <1>7, <1>8, NoErrors DEF ProcStep

\* Finished is the answer of FindGlobalTransaction to a TM that has decided.
LEMMA NextFinished ==
  ASSUME IInv, StoreWorks, FinishedOK, [Next]_vars
  PROVE  FinishedOK'
<1> SUFFICES ASSUME NEW x \in Xids, "Finished" \in told'[x]
             PROVE  status'[x] = "None" /\ Decided(x)'
  BY DEF FinishedOK, Decided
<1>1. ASSUME "Finished" \in told[x] PROVE status'[x] = "None" /\ Decided(x)'
  BY <1>1, GoneStays DEF FinishedOK
<1>2. CASE ClientStep
  <2>1. ASSUME NEW h \in Handlers, NEW y \in Xids, Request(h, y)
        PROVE  "Finished" \in told[x] \/ (status[x] = "None" /\ Decided(x))
    BY <2>1 DEF Request, FindSession, Decided, IInv, TypeOK, HistoryType
  <2>2. ASSUME NEW h \in Handlers, NEW y \in Xids, Request(h, y)
        PROVE  status'[x] = "None" /\ Decided(x)'
    BY <1>1, <2>1, <2>2, GoneStays
  <2>3. CASE \E y \in Xids : Begin(y) \/ \E d \in Decisions : Decide(y, d)
    BY <1>1, <2>3 DEF Begin, Decide, history
  <2> QED  BY <1>2, <2>2, <2>3, NoErrors DEF ClientStep
<1>3. CASE EnvStep \/ (\E b \in Branches : BranchStep(b)) \/ (\E w \in Workers : Scan(w))
           \/ UNCHANGED vars
  BY <1>1, <1>3 DEF EnvStep, Elapse, Connect, Disconnect, Crash, BranchStep, RegisterFind,
     AcquireLock, AddBranchSession, ReportFind, ReportWrite, RegisterError, Scan, vars, history
<1>4. CASE \E p \in Procs : ProcStep(p)
  BY <1>1, <1>4, ProcFinished
<1> QED  BY <1>2, <1>3, <1>4 DEF Next

-----------------------------------------------------------------------------
(* What has ended stays ended, what is open is undecided. *)

\* No branch is added to a transaction that has been decided.
LEMMA BranchGone ==
  ASSUME IInv, AwaitedOK, [Next]_vars, NEW b \in Branches, Decided(TxOf[b]), bs[b] = "None"
  PROVE  bs'[b] = "None"
<1>0. bs \in [Branches -> {"None", "Registered", "PhaseOneFailed"}]
  BY DEF IInv, TypeOK, StoreType
<1>1. CASE ClientStep \/ EnvStep \/ (\E w \in Workers : Scan(w)) \/ UNCHANGED vars
  <2>1. CASE ClientStep
    BY <2>1 DEF ClientStep, Begin, Decide, Request, RequestError, FindSession, store
  <2>2. CASE EnvStep
    BY <2>2 DEF EnvStep, Elapse, Connect, Disconnect, Crash, store
  <2>3. CASE (\E w \in Workers : Scan(w)) \/ UNCHANGED vars
    BY <2>3 DEF Scan, vars, store
  <2> QED  BY <1>1, <2>1, <2>2, <2>3
<1>2. ASSUME NEW c \in Branches, BranchStep(c) PROVE bs'[b] = "None"
  <2>1. CASE AddBranchSession(c)
    <3>1. tm[TxOf[c]] = "active"
      BY <2>1 DEF AddBranchSession, AwaitedOK, InFlight
    <3>2. c # b
      BY <3>1 DEF Decided, Decisions
    <3> QED  BY <1>0, <2>1, <3>2 DEF AddBranchSession
  <2>2. CASE ReportWrite(c)
    BY <1>0, <2>2 DEF ReportWrite
  <2>3. CASE RegisterFind(c) \/ AcquireLock(c) \/ ReportFind(c) \/ RegisterError(c)
    BY <2>3 DEF RegisterFind, AcquireLock, ReportFind, RegisterError, store
  <2> QED  BY <1>2, <2>1, <2>2, <2>3 DEF BranchStep
<1>3. ASSUME NEW p \in Procs, ProcStep(p) PROVE bs'[b] = "None"
  <2>1. CASE Proceed(p)
    BY <1>0, <2>1 DEF Proceed, FindBranches, ReadBranches, CloseSession, ReleaseOnCommit,
       RecordDecision, AlreadyDecided, DeferCommit, RecordTimeout, PickTimeout, PickRetry,
       RecordRetry, ReleaseBranch, RemoveBranchSession, Recheck, FinalStatus, FinalUnlock,
       RemoveGlobalSession, RemoveLeftBranch, store
  <2> QED  BY <1>3, <2>1, StatusKept DEF ProcStep
<1> QED  BY <1>1, <1>2, <1>3 DEF Next

LEMMA EndedGrows ==
  ASSUME IInv, OpenOK, [Next]_vars
  PROVE  Ended \subseteq Ended'
<1> SUFFICES ASSUME NEW x \in Xids, Decided(x),
                    status[x] = "None" \/ \A b \in BranchesOf(x) : bs[b] = "None"
             PROVE  Decided(x)' /\ (status'[x] = "None" \/ \A b \in BranchesOf(x) : bs'[b] = "None")
  BY DEF Ended, Decided, BranchesOf
<1>1. Decided(x)' /\ (status[x] = "None" => status'[x] = "None")
  BY GoneStays
<1>2. \A b \in BranchesOf(x) : bs[b] = "None" => bs'[b] = "None"
  BY BranchGone DEF BranchesOf, OpenOK
<1> QED  BY <1>1, <1>2

\* Requests of the RM come from business calls that their TM waits for.
LEMMA NextInFlight ==
  ASSUME IInv, ~LateRPC, AwaitedOK, [Next]_vars, NEW b \in Branches, InFlight(b)'
  PROVE  tm'[TxOf[b]] = "active"
<1>0. /\ TxOf[b] \in Xids /\ tm \in [Xids -> {"none", "active"} \cup Decisions]
      /\ reg \in [Branches -> {"none", "lock", "add", "registered", "refused", "reporting", "done"}]
  BY TopologyAssumption DEF IInv, TypeOK, ClientType
<1>1. InFlight(b) => tm[TxOf[b]] = "active"
  BY DEF AwaitedOK
<1>2. CASE UNCHANGED <<reg, tm>>
  BY <1>1, <1>2 DEF InFlight
<1>3. CASE ClientStep
  <2>1. ASSUME NEW x \in Xids, Begin(x) PROVE tm'[TxOf[b]] = "active"
    BY <1>0, <1>1, <2>1 DEF Begin, InFlight
  <2>2. ASSUME NEW x \in Xids, NEW d \in Decisions, Decide(x, d) PROVE tm'[TxOf[b]] = "active"
    <3>1. InFlight(b) /\ tm[TxOf[b]] = "active"
      BY <1>1, <2>2 DEF Decide, InFlight
    <3>2. TxOf[b] # x
      BY <2>2, <3>1 DEF Decide, BranchesOf
    <3> QED  BY <1>0, <2>2, <3>1, <3>2 DEF Decide
  <2>3. CASE \E h \in Handlers, x \in Xids : Request(h, x) \/ RequestError(h, x)
    BY <1>2, <2>3 DEF Request, RequestError, FindSession
  <2> QED  BY <1>3, <2>1, <2>2, <2>3 DEF ClientStep
<1>4. CASE EnvStep
  <2>1. CASE Crash
    BY <1>0, <2>1 DEF Crash, InFlight, Failed
  <2> QED  BY <1>2, <1>4, <2>1 DEF EnvStep, Elapse, Connect, Disconnect, clients
<1>5. ASSUME NEW c \in Branches, BranchStep(c) PROVE tm'[TxOf[b]] = "active"
  <2>1. UNCHANGED tm
    BY <1>5 DEF BranchStep, RegisterFind, AcquireLock, AddBranchSession, ReportFind, ReportWrite,
       RegisterError
  <2>2. InFlight(b) \/ tm[TxOf[b]] = "active"
    BY <1>0, <1>5 DEF BranchStep, RegisterFind, AcquireLock, AddBranchSession, ReportFind,
       ReportWrite, RegisterError, InFlight, Failed
  <2> QED  BY <1>1, <2>1, <2>2
<1>6. CASE (\E w \in Workers : Scan(w)) \/ UNCHANGED vars
  BY <1>2, <1>6 DEF Scan, vars, clients
<1>7. CASE \E p \in Procs : ProcStep(p)
  BY <1>2, <1>7, FrameOfProcStep
<1> QED  BY <1>3, <1>4, <1>5, <1>6, <1>7 DEF Next

\* Until its TM has decided, nobody touches the session.
LEMMA NextBegun ==
  ASSUME IInv, InTime, OpenOK, [Next]_vars, NEW x \in Xids, tm'[x] = "active"
  PROVE  status'[x] = "Begin"
<1>0. /\ status \in [Xids -> Status] /\ tm \in [Xids -> {"none", "active"} \cup Decisions]
      /\ "active" \notin Decisions
  BY DEF IInv, TypeOK, StoreType, ClientType, Decisions
<1>1. CASE UNCHANGED <<status, tm>>
  BY <1>1 DEF OpenOK
<1>2. CASE ClientStep
  <2>1. ASSUME NEW y \in Xids, Begin(y) PROVE status'[x] = "Begin"
    BY <1>0, <2>1 DEF Begin, OpenOK
  <2>2. ASSUME NEW y \in Xids, NEW d \in Decisions, Decide(y, d) PROVE status'[x] = "Begin"
    BY <1>0, <2>2 DEF Decide, OpenOK, store
  <2>3. CASE \E h \in Handlers, y \in Xids : Request(h, y) \/ RequestError(h, y)
    BY <1>1, <2>3 DEF Request, RequestError, FindSession, store
  <2> QED  BY <1>2, <2>1, <2>2, <2>3 DEF ClientStep
<1>3. CASE EnvStep \/ (\E b \in Branches : BranchStep(b)) \/ (\E w \in Workers : Scan(w))
           \/ UNCHANGED vars
  BY <1>1, <1>3 DEF EnvStep, Elapse, Connect, Disconnect, Crash, BranchStep, RegisterFind,
     AcquireLock, AddBranchSession, ReportFind, ReportWrite, RegisterError, Scan, vars, store,
     clients
<1>4. ASSUME NEW p \in Procs, ProcStep(p) PROVE status'[x] = "Begin"
  <2>1. UNCHANGED tm
    BY <1>4, FrameOfProcStep
  <2>2. proc[p].pc \in Working => proc[p].x # x
    BY <1>0, <2>1, WorkDecided DEF Decided
  <2>3. status'[x] = status[x]
    <3>1. CASE Proceed(p)
      BY <1>0, <2>2, <3>1, StatusWrites DEF SetStatus
    <3> QED  BY <1>4, <3>1, StatusKept DEF ProcStep
  <2> QED  BY <2>1, <2>3 DEF OpenOK
<1> QED  BY <1>2, <1>3, <1>4 DEF Next

LEMMA NextOpen ==
  ASSUME IInv, InTime, OpenOK, [Next]_vars
  PROVE  OpenOK'
  BY NextInFlight, NextBegun DEF InTime, OpenOK, AwaitedOK

-----------------------------------------------------------------------------
(* EndingOK: who writes a final status. *)

Later == Ended \subseteq Ended'

\* A step of p that leaves it as it should be.
LEMMA EndBecomes ==
  ASSUME EndInv, Later, NEW p \in Procs, NEW l, Becomes(p, l), EndOK(p, l, Ended')
  PROVE  EndingOK'
<1>1. ASSUME NEW q \in Procs PROVE EndOK(q, proc'[q], Ended')
  <2>1. proc'[q] = IF q = p THEN l ELSE proc[q]
    BY DEF EndInv, IInv, ProcInv, ProcType, Becomes
  <2>2. EndOK(q, proc[q], Ended')
    BY DEF EndInv, EndingOK, EndOK, Later
  <2> QED  BY <2>1, <2>2
<1> QED  BY <1>1 DEF EndingOK

\* No process has moved.
LEMMA EndKeep ==
  ASSUME EndInv, Later, UNCHANGED proc
  PROVE  EndingOK'
  BY DEF EndInv, EndingOK, EndOK, Later

\* timeoutCheck only looks for sessions that outlive their timeout, and finds none.
LEMMA EndLocal ==
  ASSUME EndInv, NEW p \in Procs
  PROVE  /\ proc[p] \in LocalState /\ EndOK(p, proc[p], Ended)
         /\ proc[p].pc \notin {"idle", "pick"} => p # "timeoutCheck"
  BY LocalFacts DEF EndInv, IInv, EndingOK, EndOK

Recording == {"finalStatus", "retryStatus", "errorStatus"}

\* A step to a label at which no status is about to be recorded.
LEMMA QuietEnd ==
  ASSUME EndInv, Later, NEW p \in Procs, NEW l, Becomes(p, l), l.pc \notin Recording,
         p = "timeoutCheck" => l.pc \in {"idle", "pick"}
  PROVE  EndingOK'
<1>1. EndOK(p, l, Ended')
  BY DEF EndOK, Recording
<1> QED  BY <1>1, EndBecomes

LEMMA ReturnEnd ==
  ASSUME EndInv, Later, NEW p \in Procs, Return(p)
  PROVE  EndingOK'
<1> DEFINE x == proc[p].x
           rest == proc[p].list \ {x}
           l == [proc[p] EXCEPT !.pc = "pick", !.x = NoXid, !.list = rest, !.st[x] = "None",
                                !.open = @ \ {x}, !.view = @ \ BranchesOf(x),
                                !.failed = @ \ BranchesOf(x), !.todo = {},
                                !.cur = NoBranch, !.goal = "None"]
           m == IF rest = {} THEN Idle ELSE l
<1>1. proc[p] \in LocalState
  BY EndLocal
<1>2. l.pc = "pick"
  BY <1>1 DEF LocalState
<1>3. Idle.pc = "idle"
  BY DEF Idle
<1>4. Becomes(p, m)
  BY DEF Return
<1>5. m.pc \in {"idle", "pick"}
  BY <1>2, <1>3
<1> HIDE DEF m
<1> QED  BY <1>4, <1>5, QuietEnd DEF Recording

LEMMA GotoEnd ==
  ASSUME EndInv, Later, NEW p \in Procs, NEW label, Goto(p, label), p # "timeoutCheck",
         label \notin Recording
  PROVE  EndingOK'
<1> DEFINE m == [proc[p] EXCEPT !.pc = label]
<1>1. m.pc = label
  BY EndLocal DEF LocalState
<1>2. Becomes(p, m)
  BY DEF Goto
<1> HIDE DEF m
<1> QED  BY <1>1, <1>2, QuietEnd

\* No goal that is recorded for the workers, or after a refusal, is one of success.
LEMMA GoalsApart ==
  ASSUME NEW p
  PROVE  RetryGoal(p) \notin Success /\ FailedGoal(p) \notin Success
  BY DEF RetryGoal, FailedGoal, Success

LEMMA ConcludeEnd ==
  ASSUME EndInv, Later, NEW p \in Procs, p # "timeoutCheck", NEW label \in Recording,
         NEW s, s \notin Success, Becomes(p, [proc[p] EXCEPT !.pc = label, !.goal = s])
  PROVE  EndingOK'
<1> DEFINE m == [proc[p] EXCEPT !.pc = label, !.goal = s]
<1>1. m.pc = label /\ m.goal = s
  BY EndLocal DEF LocalState
<1> HIDE DEF m
<1>2. EndOK(p, m, Ended')
  BY <1>1 DEF EndOK
<1> QED  BY <1>2, EndBecomes DEF m

LEMMA ContinueEnd ==
  ASSUME EndInv, Later, NEW p \in Procs, p # "timeoutCheck", NEW b, Continue(p, b)
  PROVE  EndingOK'
<1> DEFINE m == [proc[p] EXCEPT !.pc = "drive", !.todo = @ \ {b}, !.cur = NoBranch]
<1>1. m.pc = "drive"
  BY EndLocal DEF LocalState
<1>2. Becomes(p, m)
  BY DEF Continue
<1> HIDE DEF m
<1> QED  BY <1>1, <1>2, QuietEnd DEF Recording

LEMMA NotDoneEnd ==
  ASSUME EndInv, Later, NEW p \in Procs, p # "timeoutCheck", NEW b, NotDone(p, b)
  PROVE  EndingOK'
<1>1. CASE Becomes(p, [proc[p] EXCEPT !.pc = "retryStatus", !.goal = RetryGoal(p)])
  BY <1>1, GoalsApart, ConcludeEnd DEF Recording
<1>2. CASE Continue(p, b)
  BY <1>2, ContinueEnd
<1>3. CASE Return(p)
  BY <1>3, ReturnEnd
<1> QED  BY <1>1, <1>2, <1>3 DEF NotDone, Finished

LEMMA DrivingEnd ==
  ASSUME EndInv, Later, NEW p \in Procs, p # "timeoutCheck", NEW l \in LocalState, NEW x,
         Becomes(p, Driving(l, x))
  PROVE  EndingOK'
<1> DEFINE m == Driving(l, x)
<1>1. m.pc = "drive"
  BY DEF Driving, LocalState
<1> HIDE DEF m
<1> QED  BY <1>1, QuietEnd DEF m, Recording

\* The walk is over: no session, or a second look at the branches.
LEMMA EndOfWalkEnd ==
  ASSUME EndInv, InTime, Later, NEW p \in Procs, p # "timeoutCheck", EndOfWalk(p)
  PROVE  EndingOK'
<1> DEFINE s == IF proc[p].dec = "commit" THEN "Committed"
                ELSE IF IsTimeoutGlobalStatus(p) THEN "TimeoutRolledBack" ELSE "RolledBack"
           label == IF status[proc[p].x] = "None" THEN "finalStatus" ELSE "recheckBranches"
           m == [proc[p] EXCEPT !.goal = s, !.pc = label]
<1>1. m.pc = label /\ m.x = proc[p].x
  BY EndLocal DEF LocalState
<1>2. Decided(proc[p].x) /\ proc[p].x \in Xids
  BY WorkDecided DEF EndOfWalk, Working, EndInv
<1>3. status[proc[p].x] = "None" => proc[p].x \in Ended
  BY <1>2 DEF Ended
<1>4. Becomes(p, m)
  BY DEF EndOfWalk
<1> HIDE DEF m
<1>5. EndOK(p, m, Ended')
  BY <1>1, <1>3 DEF EndOK, Later
<1> QED  BY <1>4, <1>5, EndBecomes

\* The second look finds no branch.
LEMMA RecheckEnd ==
  ASSUME EndInv, InTime, Later, NEW p \in Procs, p # "timeoutCheck", Recheck(p)
  PROVE  EndingOK'
<1> DEFINE m == [proc[p] EXCEPT !.pc = "finalStatus"]
<1>1. m.pc = "finalStatus" /\ m.x = proc[p].x
  BY EndLocal DEF LocalState
<1>2. Decided(proc[p].x) /\ proc[p].x \in Xids
  BY WorkDecided DEF Recheck, Working, Concluding, EndInv
<1>3. Return(p) \/ (Becomes(p, m) /\ proc[p].x \in Ended)
  BY <1>2 DEF Recheck, Finished, Goto, Ended
<1> HIDE DEF m
<1>4. proc[p].x \in Ended => EndOK(p, m, Ended')
  BY <1>1 DEF EndOK, Later
<1> QED  BY <1>3, <1>4, EndBecomes, ReturnEnd

\* No session outlives its timeout, so timeoutCheck passes them all by.
LEMMA PickTimeoutEnd ==
  ASSUME EndInv, InTime, Later, NEW x \in Xids, "timeoutCheck" \in Procs, PickTimeout(x)
  PROVE  EndingOK'
<1> DEFINE p == "timeoutCheck"
           m == [proc[p] EXCEPT !.list = @ \ {x}, !.st[x] = "None", !.open = @ \ {x}]
           l == IF proc[p].list = {x} THEN Idle ELSE m
<1>1. "timeout" \notin past[x]
  BY DEF EndInv, IInv, TypeOK, FaultType, InTime
<1>2. Becomes(p, l)
  BY <1>1 DEF PickTimeout
<1>3. m.pc = "pick"
  BY EndLocal DEF LocalState, PickTimeout
<1>4. l.pc \in {"idle", "pick"}
  BY <1>3 DEF Idle
<1> HIDE DEF l
<1> QED  BY <1>2, <1>4, QuietEnd DEF Recording

LEMMA PickRetryEnd ==
  ASSUME EndInv, Later, NEW p \in Procs, NEW x \in Xids, PickRetry(p, x)
  PROVE  EndingOK'
<1> DEFINE m == [proc[p] EXCEPT !.list = @ \ {x}, !.st[x] = "None", !.open = @ \ {x},
                                !.view = @ \ BranchesOf(x), !.failed = @ \ BranchesOf(x)]
           k == IF proc[p].list = {x} THEN Idle ELSE m
           label == IF p = "retryRollingBack" /\ UnlockOnRetryTimeout
                    THEN "finalUnlock" ELSE "finalSession"
           l == [proc[p] EXCEPT !.x = x, !.pc = label]
<1>1. proc[p] \in LocalState /\ p # "timeoutCheck" /\ proc[p].pc = "pick"
  BY EndLocal DEF PickRetry
<1>2. m.pc = "pick" /\ l.pc = label
  BY <1>1 DEF LocalState
<1>3. k.pc \in {"idle", "pick"}
  BY <1>2 DEF Idle
<1>4. Becomes(p, k) \/ Becomes(p, l) \/ Becomes(p, Driving(proc[p], x))
  BY DEF PickRetry
<1> HIDE DEF k, l
<1> QED  BY <1>1, <1>2, <1>3, <1>4, QuietEnd, DrivingEnd DEF Recording

LEMMA ReadBranchesEnd ==
  ASSUME EndInv, Later, NEW p \in Procs, p # "timeoutCheck", NEW rows, ReadBranches(p, rows)
  PROVE  EndingOK'
<1> DEFINE m == [proc[p] EXCEPT !.view = rows,
                                !.failed = {b \in rows : bs[b] = "PhaseOneFailed"},
                                !.pc = IF p \in Handlers THEN "close" ELSE "pick"]
<1>1. m.pc \in {"close", "pick"}
  BY EndLocal DEF LocalState
<1>2. Becomes(p, m)
  BY DEF ReadBranches
<1> HIDE DEF m
<1> QED  BY <1>1, <1>2, QuietEnd DEF Recording

LEMMA CloseSessionEnd ==
  ASSUME EndInv, Later, NEW p \in Procs, p # "timeoutCheck", CloseSession(p)
  PROVE  EndingOK'
<1> DEFINE m == [proc[p] EXCEPT !.open = @ \ {proc[p].x},
                                !.pc = IF p \in Handlers /\ proc[p].dec = "commit"
                                       THEN "unlockAll" ELSE "decide"]
<1>1. m.pc \in {"unlockAll", "decide"}
  BY EndLocal DEF LocalState
<1>2. Becomes(p, m)
  BY DEF CloseSession
<1> HIDE DEF m
<1> QED  BY <1>1, <1>2, QuietEnd DEF Recording

LEMMA RecordDecisionEnd ==
  ASSUME EndInv, Later, NEW p \in Procs, p # "timeoutCheck", RecordDecision(p)
  PROVE  EndingOK'
<1> DEFINE x == proc[p].x
           s == IF proc[p].dec = "commit" THEN "Committing" ELSE "RollingBack"
           l == [proc[p] EXCEPT !.st[x] = s]
           m == [l EXCEPT !.pc = "async"]
<1>1. l \in LocalState
  BY EndLocal DEF LocalState, Status, CommitStatus, RollbackStatus
<1>2. m.pc = "async"
  BY <1>1 DEF LocalState
<1>3. Becomes(p, m) \/ Becomes(p, Driving(l, x))
  BY DEF RecordDecision
<1> HIDE DEF l
<1>4. CASE Becomes(p, Driving(l, x))
  BY <1>1, <1>4, DrivingEnd
<1> HIDE DEF m
<1>5. CASE Becomes(p, m)
  BY <1>2, <1>5, QuietEnd DEF Recording
<1> QED  BY <1>3, <1>4, <1>5

\* The other changes of the local state.
LEMMA SmallEnd ==
  ASSUME EndInv, Later, NEW p \in Procs, p # "timeoutCheck",
         \/ RemoveBranchSession(p) \/ FinalStatus(p)
         \/ \E b \in Branches : \/ RemoveLeftBranch(p, b) \/ DropFailedBranch(p, b)
                               \/ SendCallback(p, b)
  PROVE  EndingOK'
<1>0. proc[p] \in LocalState
  BY EndLocal
<1>1. CASE RemoveBranchSession(p)
  <2> DEFINE b == proc[p].cur
             m == [proc[p] EXCEPT !.pc = "drive", !.view = @ \ {b}, !.todo = @ \ {b},
                                  !.cur = NoBranch]
  <2>1. m.pc = "drive" /\ Becomes(p, m)
    BY <1>0, <1>1 DEF LocalState, RemoveBranchSession
  <2> HIDE DEF m
  <2> QED  BY <2>1, QuietEnd DEF Recording
<1>2. CASE FinalStatus(p)
  <2> DEFINE m == [proc[p] EXCEPT !.st[proc[p].x] = proc[p].goal, !.pc = "finalUnlock"]
  <2>1. m.pc = "finalUnlock" /\ Becomes(p, m)
    BY <1>0, <1>2 DEF LocalState, FinalStatus
  <2> HIDE DEF m
  <2> QED  BY <2>1, QuietEnd DEF Recording
<1>3. ASSUME NEW b \in Branches, RemoveLeftBranch(p, b) PROVE EndingOK'
  <2> DEFINE m == [proc[p] EXCEPT !.view = @ \ {b}]
  <2>1. m.pc = "finalBranches" /\ (Becomes(p, m) \/ Return(p))
    BY <1>0, <1>3 DEF LocalState, RemoveLeftBranch, Finished
  <2> HIDE DEF m
  <2> QED  BY <2>1, QuietEnd, ReturnEnd DEF Recording
<1>4. ASSUME NEW b \in Branches, DropFailedBranch(p, b) \/ SendCallback(p, b) PROVE EndingOK'
  <2> DEFINE m == [proc[p] EXCEPT !.pc = "unlockBranch", !.cur = b]
             l == [proc[p] EXCEPT !.pc = "await", !.cur = b]
  <2>1. m.pc = "unlockBranch" /\ l.pc = "await" /\ (Becomes(p, m) \/ Becomes(p, l))
    BY <1>0, <1>4 DEF LocalState, DropFailedBranch, SendCallback
  <2> HIDE DEF m, l
  <2> QED  BY <2>1, QuietEnd DEF Recording
<1> QED  BY <1>1, <1>2, <1>3, <1>4

\* A step of a handler or worker.
LEMMA ProcEnd ==
  ASSUME EndInv, InTime, StoreWorks, Later, NEW p \in Procs, ProcStep(p)
  PROVE  EndingOK'
<1>0. ~Faulty(p)
  BY NoErrors DEF EndInv
<1>1. CASE p = "timeoutCheck"
  <2>1. proc[p].pc \in {"idle", "pick"}
    BY <1>1, EndLocal
  <2>2. \E x \in Xids : PickTimeout(x)
    BY <1>0, <1>1, <2>1 DEF ProcStep, Proceed, FindBranches, ReadBranches, CloseSession,
       ReleaseOnCommit, RecordDecision, AlreadyDecided, DeferCommit, RecordTimeout, PickRetry,
       RecordRetry, ReleaseBranch, RemoveBranchSession, Recheck, FinalStatus, FinalUnlock,
       RemoveGlobalSession, RemoveLeftBranch, Walk, RefuseSaga, EndOfWalk, DropFailedBranch,
       QueueNotReady, Next2, Await, AnswerDone, AnswerRetryable, AnswerCannotRetry, AnswerError,
       SendCallback
  <2> QED  BY <1>1, <2>2, PickTimeoutEnd
<1>2. CASE p # "timeoutCheck" /\ Proceed(p)
  <2>1. CASE FindBranches(p)
    BY <1>2, <2>1, ReadBranchesEnd DEF FindBranches
  <2>2. CASE ReleaseOnCommit(p) \/ ReleaseBranch(p) \/ FinalUnlock(p) \/ RemoveGlobalSession(p)
    <3>1. \/ Goto(p, "decide") \/ Goto(p, "removeBranch") \/ Goto(p, "finalSession")
          \/ Goto(p, "finalBranches") \/ Return(p)
      BY <2>2 DEF ReleaseOnCommit, ReleaseBranch, FinalUnlock, RemoveGlobalSession, Finished
    <3> QED  BY <1>2, <3>1, GotoEnd, ReturnEnd DEF Recording
  <2>3. CASE AlreadyDecided(p) \/ DeferCommit(p) \/ RecordRetry(p)
    BY <2>3, ReturnEnd DEF AlreadyDecided, DeferCommit, RecordRetry
  <2> QED  BY <1>2, <2>1, <2>2, <2>3, CloseSessionEnd, RecordDecisionEnd, PickRetryEnd, SmallEnd,
              RecheckEnd DEF Proceed
<1>3. CASE p # "timeoutCheck" /\ (Walk(p) \/ Await(p) \/ \E b \in Branches : SendCallback(p, b))
  <2>1. CASE RefuseSaga(p) \/ EndOfWalk(p)
    BY <1>3, <2>1, ReturnEnd, EndOfWalkEnd DEF RefuseSaga
  <2>2. CASE \E b \in Branches : DropFailedBranch(p, b) \/ SendCallback(p, b)
    BY <1>3, <2>2, SmallEnd
  <2>3. CASE \E b \in Branches : QueueNotReady(p, b)
    BY <1>3, <2>3, NotDoneEnd DEF QueueNotReady
  <2>4. CASE AnswerDone(p) \/ AnswerRetryable(p)
    BY <1>3, <2>4, GotoEnd, NotDoneEnd DEF AnswerDone, AnswerRetryable, Recording
  <2>5. CASE AnswerCannotRetry(p)
    <3>1. \/ Continue(p, proc[p].cur)
          \/ Becomes(p, [proc[p] EXCEPT !.pc = "finalStatus", !.goal = FailedGoal(p)])
      BY <2>5 DEF AnswerCannotRetry
    <3> QED  BY <1>3, <3>1, ContinueEnd, ConcludeEnd, GoalsApart DEF Recording
  <2>6. CASE AnswerError(p)
    <3>1. \/ Return(p)
          \/ Becomes(p, [proc[p] EXCEPT !.pc = "errorStatus", !.goal = RetryGoal(p)])
      BY <2>6 DEF AnswerError
    <3> QED  BY <1>3, <3>1, ReturnEnd, ConcludeEnd, GoalsApart DEF Recording
  <2> QED  BY <1>3, <2>1, <2>2, <2>3, <2>4, <2>5, <2>6 DEF Walk, Await
<1> QED  BY <1>0, <1>1, <1>2, <1>3 DEF ProcStep

LEMMA NextEnding ==
  ASSUME EndInv, InTime, StoreWorks, Later, [Next]_vars
  PROVE  EndingOK'
<1>1. CASE ClientStep
  <2>1. ASSUME NEW h \in Handlers, NEW x \in Xids, Request(h, x) PROVE EndingOK'
    <3> DEFINE l == [Idle EXCEPT !.pc = "branches", !.dec = tm[x], !.x = x, !.list = {x},
                                 !.st[x] = status[x], !.open = IF active[x] THEN {x} ELSE {}]
    <3>1. UNCHANGED proc \/ Becomes(h, l)
      BY <2>1 DEF Request, FindSession
    <3>2. l.pc = "branches"
      BY DEF Idle
    <3>3. h \in Procs /\ h # "timeoutCheck"
      BY HandlersAssumption DEF Procs, Workers
    <3> HIDE DEF l
    <3> QED  BY <3>1, <3>2, <3>3, EndKeep, QuietEnd DEF Recording
  <2>2. CASE \E x \in Xids : Begin(x) \/ \E d \in Decisions : Decide(x, d)
    BY <2>2, EndKeep DEF Begin, Decide
  <2> QED  BY <1>1, <2>1, <2>2, NoErrors DEF ClientStep, EndInv
<1>2. CASE EnvStep
  <2>1. CASE Crash
    BY <2>1 DEF Crash, EndingOK, EndOK, Idle
  <2> QED  BY <1>2, <2>1, EndKeep DEF EnvStep, Elapse, Connect, Disconnect
<1>3. CASE (\E b \in Branches : BranchStep(b)) \/ UNCHANGED vars
  BY <1>3, EndKeep DEF BranchStep, RegisterFind, AcquireLock, AddBranchSession, ReportFind,
     ReportWrite, RegisterError, vars
<1>4. ASSUME NEW w \in Workers, Scan(w) PROVE EndingOK'
  <2> DEFINE l == [Idle EXCEPT
                     !.pc = IF w = "timeoutCheck" THEN "pick" ELSE "branches",
                     !.dec = IF w \in {"timeoutCheck", "retryRollingBack"} THEN "rollback"
                             ELSE "commit",
                     !.list = Listed(w),
                     !.st = [x \in Xids |-> IF x \in Listed(w) THEN status[x] ELSE "None"],
                     !.open = {x \in Listed(w) : active[x]}]
  <2>1. l.pc = IF w = "timeoutCheck" THEN "pick" ELSE "branches"
    BY DEF Idle
  <2>2. Becomes(w, l) /\ w \in Procs
    BY <1>4 DEF Scan, Procs
  <2> HIDE DEF l
  <2> QED  BY <2>1, <2>2, QuietEnd DEF Recording
<1>5. CASE \E p \in Procs : ProcStep(p)
  BY <1>5, ProcEnd
<1> QED  BY <1>1, <1>2, <1>3, <1>4, <1>5 DEF Next

\* A final status of success is written once the transaction has ended.
LEMMA NextSuccess ==
  ASSUME EndInv, InTime, StoreWorks, Later, [Next]_vars, NEW x \in Xids, status'[x] \in Success
  PROVE  x \in Ended'
<1>0. status \in [Xids -> Status] /\ "Begin" \notin Success /\ "None" \notin Success
  BY DEF EndInv, IInv, TypeOK, StoreType, Success
<1>1. ASSUME status'[x] = status[x] PROVE x \in Ended'
  BY <1>1 DEF EndInv, SuccessOK, Later
<1>2. CASE ClientStep
  <2>1. ASSUME NEW y \in Xids, Begin(y) PROVE x \in Ended'
    BY <1>0, <1>1, <2>1 DEF Begin
  <2>2. CASE \E y \in Xids, d \in Decisions : Decide(y, d)
    BY <1>1, <2>2 DEF Decide, store
  <2>3. CASE \E h \in Handlers, y \in Xids : Request(h, y) \/ RequestError(h, y)
    BY <1>1, <2>3 DEF Request, RequestError, FindSession, store
  <2> QED  BY <1>2, <2>1, <2>2, <2>3 DEF ClientStep
<1>3. CASE EnvStep \/ (\E b \in Branches : BranchStep(b)) \/ (\E w \in Workers : Scan(w))
           \/ UNCHANGED vars
  BY <1>1, <1>3 DEF EnvStep, Elapse, Connect, Disconnect, Crash, BranchStep, RegisterFind,
     AcquireLock, AddBranchSession, ReportFind, ReportWrite, RegisterError, Scan, vars, store
<1>4. ASSUME NEW p \in Procs, ProcStep(p) PROVE x \in Ended'
  <2>0. EndOK(p, proc[p], Ended)
    BY EndLocal
  <2>1. CASE FinalStatus(p)
    <3>1. x = proc[p].x /\ proc[p].goal \in Success => x \in Ended
      BY <2>0, <2>1 DEF EndOK, FinalStatus
    <3>2. status'[x] = status[x] \/ (x = proc[p].x /\ status'[x] = proc[p].goal)
      BY <1>0, <2>1 DEF FinalStatus, SetStatus
    <3> QED  BY <1>1, <3>1, <3>2 DEF Later
  <2>2. CASE RecordRetry(p)
    <3>1. proc[p].goal \notin Success
      BY <2>0, <2>2 DEF EndOK, RecordRetry
    <3> QED  BY <1>0, <1>1, <2>2, <3>1 DEF RecordRetry, SetStatus
  <2>3. CASE RecordDecision(p) \/ DeferCommit(p) \/ RemoveGlobalSession(p)
             \/ (p = "timeoutCheck" /\ RecordTimeout)
    BY <1>0, <1>1, <2>3 DEF RecordDecision, DeferCommit, RemoveGlobalSession, RecordTimeout,
       SetStatus, Success
  <2>4. CASE UNCHANGED status
    BY <1>1, <2>4
  <2>5. CASE Proceed(p)
    BY <2>1, <2>2, <2>3, <2>4, <2>5 DEF Proceed, FindBranches, ReadBranches, CloseSession,
       ReleaseOnCommit, AlreadyDecided, PickTimeout, PickRetry, ReleaseBranch,
       RemoveBranchSession, Recheck, FinalUnlock, RemoveLeftBranch, store
  <2> QED  BY <1>4, <2>4, <2>5, StatusKept DEF ProcStep
<1> QED  BY <1>2, <1>3, <1>4 DEF Next

LEMMA InitEnd ==
  ASSUME Init
  PROVE  EndInv
<1>1. OpenOK
  BY TopologyAssumption DEF Init, OpenOK, AwaitedOK, InFlight
<1>2. EndingOK /\ SuccessOK
  BY DEF Init, EndingOK, EndOK, SuccessOK, Success, Idle
<1> QED  BY <1>1, <1>2, InitInv DEF EndInv

LEMMA NextEnd ==
  ASSUME EndInv, IInv', InTime, StoreWorks, [Next]_vars
  PROVE  EndInv'
<1>1. Later
  BY EndedGrows DEF EndInv, Later
<1> QED  BY <1>1, NextOpen, NextEnding, NextSuccess DEF EndInv, SuccessOK

LEMMA EndInvariance ==
  ASSUME InTime, StoreWorks
  PROVE  Spec => []EndInv
<1>1. Init => EndInv
  BY InitEnd
<1>2. EndInv /\ IInv' /\ [Next]_vars => EndInv'
  BY NextEnd
<1> QED  BY <1>1, <1>2, Invariance, PTL DEF Spec

-----------------------------------------------------------------------------

\* A TM whose Commit or Rollback is answered Finished has a transaction that is gone for good:
\* for any number of handlers, workers, timeouts and crashes, as long as no store error makes
\* FindGlobalTransaction take a session for missing.
THEOREM FinishedIsTrue ==
  ASSUME StoreWorks
  PROVE  Spec => []FinishedReplyIsTrue
<1>1. Init => FinishedOK
  BY DEF Init, FinishedOK
<1>2. FinishedOK /\ IInv /\ [Next]_vars => FinishedOK'
  BY NextFinished
<1>3. FinishedOK => FinishedReplyIsTrue
  BY DEF FinishedOK, FinishedReplyIsTrue
<1> QED  BY <1>1, <1>2, <1>3, Invariance, PTL DEF Spec

\* A session that is Committed, RolledBack or TimeoutRolledBack is removed after its last
\* branch row, whoever drives the transaction at the same time and whatever crashes: doGlobal-
\* Commit and doGlobalRollback look at the branches again once their own walk is over, and no
\* branch comes after the decision of a TM that waits for its business calls.
THEOREM SessionOutlives ==
  ASSUME InTime, StoreWorks
  PROVE  Spec => SessionOutlivesBranches
<1>1. ASSUME EndInv, NEW x \in Xids, status[x] \in Success
      PROVE  \A b \in BranchesOf(x) : bs[b] = "None"
  BY <1>1 DEF EndInv, SuccessOK, Ended, Success
<1>2. EndInv => [\A x \in Xids :
                   status[x] \in {"Committed", "RolledBack", "TimeoutRolledBack"} /\ status'[x] = "None"
                     => \A b \in BranchesOf(x) : bs[b] = "None"]_vars
  BY <1>1 DEF Success
<1> QED  BY <1>2, EndInvariance, PTL DEF SessionOutlivesBranches

-----------------------------------------------------------------------------
(* Row locks: only AcquireLock takes rows, and only for a transaction that is open. *)

\* The rows of a transaction whose TM is not waiting for business calls are only freed.
Shrinks == \A x \in Xids : tm[x] # "active" => Held(x)' \subseteq Held(x)

LEMMA StrayGrows ==
  ASSUME IInv, [Next]_vars, NEW r, NEW x, Stray(r, x)
  PROVE  Stray(r, x)'
<1>0. /\ crashes \in Nat
      /\ reg \in [Branches -> {"none", "lock", "add", "registered", "refused", "reporting", "done"}]
  BY DEF IInv, TypeOK, ClientType, FaultType
<1> DEFINE Kept == /\ crashes' \in Nat /\ crashes' >= crashes
                   /\ \A b \in Branches : reg[b] = "refused" => reg'[b] = "refused"
<1>1. Kept => Stray(r, x)'
  BY <1>0 DEF Stray, BranchesOf
<1>2. UNCHANGED <<crashes, reg>> => Kept
  BY <1>0
<1>3. CASE ClientStep
  <2>1. UNCHANGED <<crashes, reg>>
    BY <1>3 DEF ClientStep, Begin, Decide, Request, RequestError, FindSession, faults
  <2> QED  BY <1>1, <1>2, <2>1
<1>4. CASE EnvStep
  <2>1. CASE Crash
    <3>1. Kept
      BY <1>0, <2>1 DEF Crash, InFlight
    <3> QED  BY <1>1, <3>1
  <2>2. CASE ~Crash
    <3>1. UNCHANGED <<crashes, reg>>
      BY <1>4, <2>2 DEF EnvStep, Elapse, Connect, Disconnect, clients
    <3> QED  BY <1>1, <1>2, <3>1
  <2> QED  BY <2>1, <2>2
<1>5. CASE \E b \in Branches : BranchStep(b)
  <2>1. UNCHANGED crashes
    BY <1>5 DEF BranchStep, RegisterFind, AcquireLock, AddBranchSession, ReportFind,
       ReportWrite, RegisterError, faults
  <2>2. \A b \in Branches : reg[b] = "refused" => reg'[b] = "refused"
    BY <1>0, <1>5 DEF BranchStep, RegisterFind, AcquireLock, AddBranchSession, ReportFind,
       ReportWrite, RegisterError, InFlight
  <2>3. Kept
    BY <1>0, <2>1, <2>2
  <2> QED  BY <1>1, <2>3
<1>6. CASE (\E w \in Workers : Scan(w)) \/ UNCHANGED vars
  <2>1. UNCHANGED <<crashes, reg>>
    BY <1>6 DEF Scan, vars, clients, faults
  <2> QED  BY <1>1, <1>2, <2>1
<1>7. CASE \E p \in Procs : ProcStep(p)
  BY <1>1, <1>2, <1>7, FrameOfProcStep
<1> QED  BY <1>3, <1>4, <1>5, <1>6, <1>7 DEF Next

\* What a step of a process does to the row locks.
LEMMA ProcLocks ==
  ASSUME NEW p \in Procs, ProcStep(p)
  PROVE  \/ UNCHANGED lock
         \/ ReleaseOnCommit(p) \/ ReleaseBranch(p) \/ FinalUnlock(p)
<1>1. CASE Proceed(p)
  BY <1>1 DEF Proceed, FindBranches, ReadBranches, CloseSession, RecordDecision,
     AlreadyDecided, DeferCommit, RecordTimeout, PickTimeout, PickRetry, RecordRetry,
     RemoveBranchSession, Recheck, FinalStatus, RemoveGlobalSession, RemoveLeftBranch, store
<1> QED  BY <1>1, StatusKept DEF ProcStep

\* Who takes a row.
LEMMA LockSteps ==
  ASSUME IInv, [Next]_vars, NEW r \in Rows, NEW x \in Xids, lock'[r] = x
  PROVE  lock[r] = x \/ \E b \in BranchesOf(x) : AcquireLock(b) /\ r \in RowsOf[b]
<1>0. x # NoXid /\ lock \in [Rows -> Xids \cup {NoXid}]
  BY TopologyAssumption DEF IInv, TypeOK, StoreType
<1>1. CASE UNCHANGED lock
  BY <1>1
<1>2. ASSUME NEW b \in Branches, AcquireLock(b)
      PROVE  lock[r] = x \/ (b \in BranchesOf(x) /\ r \in RowsOf[b])
  BY <1>2 DEF AcquireLock, BranchesOf
<1>3. CASE \E b \in Branches : BranchStep(b)
  BY <1>1, <1>2, <1>3 DEF BranchStep, RegisterFind, AddBranchSession, ReportFind, ReportWrite,
     RegisterError, store
<1>4. ASSUME NEW p \in Procs, ProcStep(p) PROVE lock[r] = x
  BY <1>0, <1>4, ProcLocks DEF ReleaseOnCommit, ReleaseBranch, FinalUnlock, Unlock
<1>5. CASE ClientStep \/ EnvStep \/ (\E w \in Workers : Scan(w)) \/ UNCHANGED vars
  BY <1>1, <1>5 DEF ClientStep, Begin, Decide, Request, RequestError, FindSession, EnvStep,
     Elapse, Connect, Disconnect, Crash, Scan, vars, store
<1> QED  BY <1>3, <1>4, <1>5 DEF Next

LEMMA NextShrinks ==
  ASSUME EndInv, [Next]_vars
  PROVE  Shrinks
<1> SUFFICES ASSUME NEW x \in Xids, tm[x] # "active", NEW r \in Rows, lock'[r] = x, ~Stray(r, x)'
             PROVE  lock[r] = x /\ ~Stray(r, x)
  BY DEF Shrinks, Held
<1>1. ~Stray(r, x)
  BY StrayGrows DEF EndInv
<1>2. ASSUME NEW b \in BranchesOf(x), AcquireLock(b) PROVE FALSE
  BY <1>2 DEF BranchesOf, EndInv, OpenOK, AwaitedOK, AcquireLock, InFlight
<1> QED  BY <1>1, <1>2, LockSteps DEF EndInv

-----------------------------------------------------------------------------
(* ReleasingOK: who has freed rows, or knows of them. *)

LEMMA ReleaseLocal ==
  ASSUME LockInv, NEW p \in Procs
  PROVE  /\ proc[p] \in LocalState /\ ReleaseOK(p, proc[p], AllHeld)
         /\ proc[p].pc \notin {"idle", "pick"} => p # "timeoutCheck"
         /\ p = "timeoutCheck" /\ proc[p].pc # "idle" => proc[p].dec = "rollback"
<1>1. EndInv /\ ProcInv
  BY DEF LockInv, EndInv, IInv
<1> QED  BY <1>1, EndLocal, LocalFacts DEF LockInv, ReleasingOK, LocalOK

\* What was true of a process stays true when rows are freed.
LEMMA ReleaseStays ==
  ASSUME LockInv, InTime, Shrinks, NEW p \in Procs
  PROVE  ReleaseOK(p, proc[p], AllHeld')
<1>0. /\ ReleaseOK(p, proc[p], AllHeld)
      /\ proc[p].pc \notin {"idle", "pick"} => p # "timeoutCheck"
      /\ p = "timeoutCheck" /\ proc[p].pc # "idle" => proc[p].dec = "rollback"
  BY ReleaseLocal
<1>1. \A x \in Xids : Decided(x) => AllHeld'[x] \subseteq AllHeld[x]
  BY DEF Shrinks, AllHeld, Decided, Decisions
<1>2. p # "timeoutCheck" /\ proc[p].pc # "idle" =>
        \A x \in proc[p].list : AllHeld'[x] \subseteq AllHeld[x]
  <2>1. proc[p].list \subseteq Xids
    BY LocalFacts DEF LockInv, EndInv, IInv
  <2> QED  BY <1>1, <2>1, WorkDecided DEF LockInv, EndInv
<1>3. proc[p].pc \in {"finalSession", "finalBranches", "removeBranch"} =>
        AllHeld'[proc[p].x] \subseteq AllHeld[proc[p].x]
  BY <1>1, WorkDecided DEF LockInv, EndInv, Working
<1> HIDE DEF AllHeld
<1> QED  BY <1>0, <1>2, <1>3 DEF ReleaseOK

\* A step of p that leaves it as it should be.
LEMMA ReleaseBecomes ==
  ASSUME LockInv, InTime, Shrinks, NEW p \in Procs, NEW l, Becomes(p, l),
         ReleaseOK(p, l, AllHeld')
  PROVE  ReleasingOK'
<1>1. ASSUME NEW q \in Procs PROVE ReleaseOK(q, proc'[q], AllHeld')
  <2>1. proc'[q] = IF q = p THEN l ELSE proc[q]
    BY DEF LockInv, EndInv, IInv, ProcInv, ProcType, Becomes
  <2> QED  BY <2>1, ReleaseStays
<1> QED  BY <1>1 DEF ReleasingOK

\* No process has moved.
LEMMA ReleaseKeep ==
  ASSUME LockInv, InTime, Shrinks, UNCHANGED proc
  PROVE  ReleasingOK'
  BY ReleaseStays DEF ReleasingOK

LEMMA IdleRelease ==
  ASSUME LockInv, InTime, Shrinks, NEW p \in Procs, Becomes(p, Idle)
  PROVE  ReleasingOK'
<1>1. Idle.pc = "idle"
  BY DEF Idle
<1>2. ReleaseOK(p, Idle, AllHeld')
  BY <1>1 DEF ReleaseOK
<1> QED  BY <1>2, ReleaseBecomes

\* p forgets one of its transactions and goes on with its list.
LEMMA ForgetRelease ==
  ASSUME LockInv, InTime, Shrinks, NEW p \in Procs, p \in Workers, NEW x, NEW l, Becomes(p, l),
         l.pc = "pick", proc[p].pc \notin {"idle", "branches"}, l.dec = proc[p].dec,
         l.list = proc[p].list \ {x},
         p # "timeoutCheck" => l.view = proc[p].view \ BranchesOf(x)
  PROVE  ReleasingOK'
<1>0. ReleaseOK(p, proc[p], AllHeld') /\ p \notin Handlers
  BY ReleaseStays, HandlersAssumption
<1>1. \A y \in l.list : p # "timeoutCheck" => l.view \cap BranchesOf(y) = proc[p].view \cap BranchesOf(y)
  BY DEF BranchesOf
<1> DEFINE held == AllHeld'
<1> HIDE DEF held
<1>2. ReleaseOK(p, proc[p], held)
  BY <1>0 DEF held
<1>3. ReleaseOK(p, l, held)
  BY <1>0, <1>1, <1>2 DEF ReleaseOK
<1> QED  BY <1>3, ReleaseBecomes DEF held

\* A process that is through with its transaction.
LEMMA ReturnRelease ==
  ASSUME LockInv, InTime, Shrinks, NEW p \in Procs, Return(p), proc[p].pc \in Working
  PROVE  ReleasingOK'
<1> DEFINE x == proc[p].x
           rest == proc[p].list \ {x}
           l == [proc[p] EXCEPT !.pc = "pick", !.x = NoXid, !.list = rest, !.st[x] = "None",
                                !.open = @ \ {x}, !.view = @ \ BranchesOf(x),
                                !.failed = @ \ BranchesOf(x), !.todo = {},
                                !.cur = NoBranch, !.goal = "None"]
<1>1. proc[p] \in LocalState /\ ReleaseOK(p, proc[p], AllHeld)
  BY ReleaseLocal
<1>2. proc[p].pc \notin {"idle", "branches"}
  BY DEF Working, Concluding
<1>3. l.pc = "pick" /\ l.dec = proc[p].dec /\ l.list = rest /\ l.view = proc[p].view \ BranchesOf(x)
  BY <1>1 DEF LocalState
<1>4. Becomes(p, IF rest = {} THEN Idle ELSE l)
  BY DEF Return
<1> HIDE DEF l
<1>5. CASE rest = {}
  BY <1>4, <1>5, IdleRelease
<1>6. CASE rest # {}
  <2>1. p \in Workers
    BY <1>1, <1>2, <1>6 DEF ReleaseOK, Procs
  <2> QED  BY <1>2, <1>3, <1>4, <1>6, <2>1, ForgetRelease
<1> QED  BY <1>5, <1>6

\* p goes on with the transaction it works on, with the same copy of its branches.
LEMMA SameRelease ==
  ASSUME LockInv, InTime, Shrinks, NEW p \in Procs, p # "timeoutCheck", NEW l, Becomes(p, l),
         l.list = proc[p].list, l.view = proc[p].view, l.dec = proc[p].dec, l.pc # "idle",
         p \in Handlers => l.x = proc[p].x,
         proc[p].pc \notin {"idle", "branches"},
         proc[p].pc \in {"close", "unlockAll"} /\ l.dec = "commit" /\ p \in Handlers =>
           l.pc = "unlockAll" \/ \A x \in l.list : AllHeld'[x] = {},
         l.pc \in {"await", "unlockBranch", "removeBranch"} => l.cur \in BranchesOf(l.x),
         l.pc \in {"finalSession", "finalBranches"} => AllHeld'[l.x] = {},
         l.pc = "removeBranch" => AllHeld'[l.x] \cap RowsOf[l.cur] = {}
  PROVE  ReleasingOK'
<1> DEFINE held == AllHeld'
<1>1. ReleaseOK(p, proc[p], held)
  BY ReleaseStays
<1>2. p \in Handlers <=> p \notin Workers
  BY HandlersAssumption DEF Procs
<1>3. ReleaseOK(p, l, held)
  <2> HIDE DEF held
  <2> QED  BY <1>1, <1>2 DEF held, ReleaseOK
<1> QED  BY <1>3, ReleaseBecomes

\* From one label to the next.
LEMMA GotoRelease ==
  ASSUME LockInv, InTime, Shrinks, NEW p \in Procs, p # "timeoutCheck",
         NEW label \in {"decide", "unlockBranch", "removeBranch", "finalStatus", "finalSession",
                        "finalBranches"},
         Goto(p, label), proc[p].pc \notin {"idle", "branches", "close"},
         proc[p].pc = "unlockAll" /\ p \in Handlers => \A x \in proc[p].list : AllHeld'[x] = {},
         label \in {"unlockBranch", "removeBranch"} => proc[p].cur \in BranchesOf(proc[p].x),
         label \in {"finalSession", "finalBranches"} => AllHeld'[proc[p].x] = {},
         label = "removeBranch" => AllHeld'[proc[p].x] \cap RowsOf[proc[p].cur] = {}
  PROVE  ReleasingOK'
<1> DEFINE m == [proc[p] EXCEPT !.pc = label]
<1>1. /\ m.pc = label /\ m.list = proc[p].list /\ m.view = proc[p].view /\ m.dec = proc[p].dec
      /\ m.x = proc[p].x /\ m.cur = proc[p].cur
  BY ReleaseLocal DEF LocalState
<1>2. Becomes(p, m)
  BY DEF Goto
<1> HIDE DEF m, AllHeld
<1> QED  BY <1>1, <1>2, SameRelease

\* The start of a walk.
LEMMA DrivingRelease ==
  ASSUME LockInv, InTime, Shrinks, NEW p \in Procs, p # "timeoutCheck", NEW l \in LocalState, NEW x,
         l.list = proc[p].list, l.view = proc[p].view, l.dec = proc[p].dec,
         p \in Handlers => x = proc[p].x,
         proc[p].pc \notin {"idle", "branches", "close", "unlockAll"}, Becomes(p, Driving(l, x))
  PROVE  ReleasingOK'
<1> DEFINE m == Driving(l, x)
<1>1. m.pc = "drive" /\ m.list = l.list /\ m.view = l.view /\ m.dec = l.dec /\ m.x = x
  BY DEF Driving, LocalState
<1> HIDE DEF m
<1> QED  BY <1>1, SameRelease DEF m

LEMMA ConcludeRelease ==
  ASSUME LockInv, InTime, Shrinks, NEW p \in Procs, p # "timeoutCheck",
         NEW label \in Concluding, NEW s, proc[p].pc \in Walking,
         Becomes(p, [proc[p] EXCEPT !.pc = label, !.goal = s])
  PROVE  ReleasingOK'
<1> DEFINE m == [proc[p] EXCEPT !.pc = label, !.goal = s]
<1>1. /\ m.pc = label /\ m.list = proc[p].list /\ m.view = proc[p].view /\ m.dec = proc[p].dec
      /\ m.x = proc[p].x
  BY ReleaseLocal DEF LocalState
<1>2. label \notin {"idle", "await", "unlockBranch", "removeBranch", "finalSession", "finalBranches"}
      /\ proc[p].pc \notin {"idle", "branches", "close", "unlockAll"}
  BY DEF Concluding, Walking
<1> HIDE DEF m
<1> QED  BY <1>1, <1>2, SameRelease DEF m

LEMMA ContinueRelease ==
  ASSUME LockInv, InTime, Shrinks, NEW p \in Procs, p # "timeoutCheck", NEW b, Continue(p, b),
         proc[p].pc \in Walking
  PROVE  ReleasingOK'
<1> DEFINE m == [proc[p] EXCEPT !.pc = "drive", !.todo = @ \ {b}, !.cur = NoBranch]
<1>1. /\ m.pc = "drive" /\ m.list = proc[p].list /\ m.view = proc[p].view /\ m.dec = proc[p].dec
      /\ m.x = proc[p].x
  BY ReleaseLocal DEF LocalState
<1>2. proc[p].pc \notin {"idle", "branches", "close", "unlockAll"}
  BY DEF Walking
<1>3. Becomes(p, m)
  BY DEF Continue
<1> HIDE DEF m
<1> QED  BY <1>1, <1>2, <1>3, SameRelease

LEMMA NotDoneRelease ==
  ASSUME LockInv, InTime, Shrinks, NEW p \in Procs, p # "timeoutCheck", NEW b, NotDone(p, b),
         proc[p].pc \in Walking
  PROVE  ReleasingOK'
<1>1. CASE Becomes(p, [proc[p] EXCEPT !.pc = "retryStatus", !.goal = RetryGoal(p)])
  BY <1>1, ConcludeRelease DEF Concluding
<1>2. CASE Continue(p, b)
  BY <1>2, ContinueRelease
<1>3. CASE Return(p)
  BY <1>3, ReturnRelease DEF Walking, Working
<1> QED  BY <1>1, <1>2, <1>3 DEF NotDone, Finished

\* The next branch of the walk.
LEMMA ChooseRelease ==
  ASSUME LockInv, InTime, Shrinks, NEW p \in Procs, p # "timeoutCheck", NEW b,
         b \in proc[p].todo, proc[p].pc = "drive", NEW label \in {"await", "unlockBranch"},
         Becomes(p, [proc[p] EXCEPT !.pc = label, !.cur = b])
  PROVE  ReleasingOK'
<1> DEFINE m == [proc[p] EXCEPT !.pc = label, !.cur = b]
<1>1. proc[p] \in LocalState /\ b \in Branches
  BY ReleaseLocal DEF LocalState
<1>2. /\ m.pc = label /\ m.list = proc[p].list /\ m.view = proc[p].view /\ m.dec = proc[p].dec
      /\ m.x = proc[p].x /\ m.cur = b
  BY <1>1 DEF LocalState
<1>3. b \in BranchesOf(proc[p].x)
  BY LocalFacts DEF LockInv, EndInv, IInv, LocalOK, Walking
<1> HIDE DEF m
<1> QED  BY <1>2, <1>3, SameRelease DEF m

\* Whoever reads the branches of transactions that take no more rows knows of all they hold.
LEMMA FindBranchesRelease ==
  ASSUME LockInv, InTime, Shrinks, NEW p \in Procs, p # "timeoutCheck", FindBranches(p)
  PROVE  ReleasingOK'
<1> DEFINE rows == {b \in Branches : TxOf[b] \in proc[p].list /\ bs[b] # "None"}
           m == [proc[p] EXCEPT !.view = rows,
                                !.failed = {b \in rows : bs[b] = "PhaseOneFailed"},
                                !.pc = IF p \in Handlers THEN "close" ELSE "pick"]
<1>0. proc[p] \in LocalState /\ proc[p].pc = "branches" /\ proc[p].list \subseteq Xids
  BY ReleaseLocal, LocalFacts DEF FindBranches, ReadBranches, LockInv, EndInv, IInv
<1>1. /\ m.pc = (IF p \in Handlers THEN "close" ELSE "pick") /\ m.list = proc[p].list
      /\ m.view = rows /\ m.dec = proc[p].dec /\ m.x = proc[p].x
  BY <1>0 DEF LocalState
<1>2. ASSUME NEW x \in proc[p].list, NEW r \in AllHeld'[x] PROVE r \in RowsHeldBy(rows \cap BranchesOf(x))
  <2>1. x \in Xids /\ Decided(x)
    BY <1>0, WorkDecided DEF LockInv, EndInv
  <2>2. r \in Held(x)
    BY <1>2, <2>1 DEF AllHeld, Shrinks, Decided, Decisions
  <2>3. PICK b \in BranchesOf(x) : r \in RowsOf[b] /\ (reg[b] = "add" \/ bs[b] # "None")
    BY <2>1, <2>2 DEF LockInv, OwnersOK
  <2>4. bs[b] # "None"
    BY <2>1, <2>3 DEF LockInv, EndInv, OpenOK, AwaitedOK, InFlight, Decided, Decisions, BranchesOf
  <2>5. b \in rows \cap BranchesOf(x)
    BY <2>3, <2>4 DEF BranchesOf
  <2> QED  BY <2>3, <2>5 DEF RowsHeldBy
<1>3. ReleaseOK(p, proc[p], AllHeld') /\ (p \in Handlers => p \notin Workers)
  BY ReleaseStays, HandlersAssumption
<1>4. Becomes(p, m)
  BY DEF FindBranches, ReadBranches
<1>5. ReleaseOK(p, m, AllHeld')
  <2> HIDE DEF m, AllHeld, rows
  <2> QED  BY <1>0, <1>1, <1>2, <1>3 DEF ReleaseOK, Procs
<1> QED  BY <1>4, <1>5, ReleaseBecomes

LEMMA CloseSessionRelease ==
  ASSUME LockInv, InTime, Shrinks, NEW p \in Procs, p # "timeoutCheck", CloseSession(p)
  PROVE  ReleasingOK'
<1> DEFINE label == IF p \in Handlers /\ proc[p].dec = "commit" THEN "unlockAll" ELSE "decide"
           m == [proc[p] EXCEPT !.open = @ \ {proc[p].x}, !.pc = label]
<1>1. /\ m.pc = label /\ m.list = proc[p].list /\ m.view = proc[p].view /\ m.dec = proc[p].dec
      /\ m.x = proc[p].x
  BY ReleaseLocal DEF LocalState
<1>2. Becomes(p, m) /\ proc[p].pc = "close"
  BY DEF CloseSession
<1> HIDE DEF m
<1> QED  BY <1>1, <1>2, SameRelease

LEMMA RecordDecisionRelease ==
  ASSUME LockInv, InTime, Shrinks, NEW p \in Procs, p # "timeoutCheck", RecordDecision(p)
  PROVE  ReleasingOK'
<1> DEFINE x == proc[p].x
           s == IF proc[p].dec = "commit" THEN "Committing" ELSE "RollingBack"
           l == [proc[p] EXCEPT !.st[x] = s]
           m == [l EXCEPT !.pc = "async"]
<1>0. proc[p].pc = "decide" /\ (Becomes(p, m) \/ Becomes(p, Driving(l, x)))
  BY DEF RecordDecision
<1>1. l \in LocalState
  BY ReleaseLocal DEF LocalState, Status, CommitStatus, RollbackStatus
<1>2. l.list = proc[p].list /\ l.view = proc[p].view /\ l.dec = proc[p].dec /\ l.x = x
  BY ReleaseLocal DEF LocalState
<1>3. m.pc = "async" /\ m.list = l.list /\ m.view = l.view /\ m.dec = l.dec /\ m.x = x
  BY <1>1, <1>2 DEF LocalState
<1> HIDE DEF l
<1>4. CASE Becomes(p, Driving(l, x))
  BY <1>0, <1>1, <1>2, <1>4, DrivingRelease
<1> HIDE DEF m
<1>5. CASE Becomes(p, m)
  BY <1>0, <1>2, <1>3, <1>5, SameRelease
<1> QED  BY <1>0, <1>4, <1>5

LEMMA PickTimeoutRelease ==
  ASSUME LockInv, InTime, Shrinks, NEW x \in Xids, "timeoutCheck" \in Procs, PickTimeout(x)
  PROVE  ReleasingOK'
<1> DEFINE p == "timeoutCheck"
           m == [proc[p] EXCEPT !.list = @ \ {x}, !.st[x] = "None", !.open = @ \ {x}]
<1>1. "timeout" \notin past[x]
  BY DEF LockInv, EndInv, IInv, TypeOK, FaultType, InTime
<1>2. Becomes(p, Idle) \/ Becomes(p, m)
  BY <1>1 DEF PickTimeout
<1>3. m.pc = "pick" /\ m.dec = proc[p].dec /\ m.list = proc[p].list \ {x} /\ proc[p].pc = "pick"
  BY ReleaseLocal DEF LocalState, PickTimeout
<1>4. p \in Workers
  BY DEF Workers
<1> HIDE DEF m
<1> QED  BY <1>2, <1>3, <1>4, IdleRelease, ForgetRelease

\* A worker that gives a transaction up has its rows freed, or to be freed next.
LEMMA PickRetryRelease ==
  ASSUME LockInv, InTime, FreeOnGiveUp, Shrinks, NEW p \in Procs, NEW x \in Xids, PickRetry(p, x)
  PROVE  ReleasingOK'
<1> DEFINE m == [proc[p] EXCEPT !.list = @ \ {x}, !.st[x] = "None", !.open = @ \ {x},
                                !.view = @ \ BranchesOf(x), !.failed = @ \ BranchesOf(x)]
           label == IF p = "retryRollingBack" /\ UnlockOnRetryTimeout
                    THEN "finalUnlock" ELSE "finalSession"
           l == [proc[p] EXCEPT !.x = x, !.pc = label]
<1>1. /\ proc[p] \in LocalState /\ proc[p].pc = "pick" /\ x \in proc[p].list
      /\ p # "timeoutCheck" /\ p \in Workers /\ p \notin Handlers
  BY ReleaseLocal, HandlersAssumption DEF PickRetry
<1>2. m.pc = "pick" /\ m.dec = proc[p].dec /\ m.list = proc[p].list \ {x}
      /\ m.view = proc[p].view \ BranchesOf(x)
  BY <1>1 DEF LocalState
<1>3. l.pc = label /\ l.dec = proc[p].dec /\ l.list = proc[p].list /\ l.view = proc[p].view
      /\ l.x = x
  BY <1>1 DEF LocalState
<1>4. \/ Becomes(p, Idle) \/ Becomes(p, m) \/ Becomes(p, Driving(proc[p], x))
      \/ Becomes(p, l) /\ GivesUp(p, x)
  BY DEF PickRetry
<1> HIDE DEF m
<1>5. CASE Becomes(p, m)
  BY <1>1, <1>2, <1>5, ForgetRelease
<1>6. CASE Becomes(p, Driving(proc[p], x))
  BY <1>1, <1>6, DrivingRelease
<1>7. CASE Becomes(p, l) /\ GivesUp(p, x)
  <2>1. label = "finalSession" => AllHeld'[x] = {}
    <3>1. ASSUME label = "finalSession" PROVE p = "retryCommitting"
      <4>1. "retry" \in Deadlines
        BY <1>7 DEF GivesUp, LockInv, EndInv, IInv, TypeOK, FaultType
      <4>2. p # "retryRollingBack"
        BY <3>1, <4>1 DEF FreeOnGiveUp
      <4> QED  BY <1>1, <1>7, <4>2 DEF GivesUp, Workers
    <3>2. ReleaseOK(p, proc[p], AllHeld')
      BY ReleaseStays
    <3> HIDE DEF AllHeld
    <3> QED  BY <1>1, <3>1, <3>2 DEF ReleaseOK
  <2>2. label \in {"finalUnlock", "finalSession"}
    OBVIOUS
  <2> HIDE DEF l, label
  <2> QED  BY <1>1, <1>3, <1>7, <2>1, <2>2, SameRelease
<1> QED  BY <1>4, <1>5, <1>6, <1>7, IdleRelease

\* ReleaseLock and ReleaseGlobalSessionLock leave none of the rows of B to x.
LEMMA UnlockFrees ==
  ASSUME NEW x \in Xids, NEW B, Unlock(x, B)
  PROVE  AllHeld'[x] \cap RowsHeldBy(B) = {}
<1>1. x # NoXid
  BY TopologyAssumption
<1>2. \A r \in Rows : lock'[r] = x => r \notin RowsHeldBy(B)
  BY <1>1 DEF Unlock
<1> QED  BY <1>2 DEF AllHeld, Held

LEMMA UnlockRelease ==
  ASSUME LockInv, InTime, Shrinks, NEW p \in Procs, p # "timeoutCheck",
         ReleaseOnCommit(p) \/ ReleaseBranch(p) \/ FinalUnlock(p)
  PROVE  ReleasingOK'
<1> DEFINE x == proc[p].x
           held == AllHeld'
<1>1. proc[p].pc \in Working /\ x \in Xids /\ x \in proc[p].list
  <2>1. proc[p].pc \in Working
    BY DEF ReleaseOnCommit, ReleaseBranch, FinalUnlock, Working
  <2> QED  BY <2>1, WorkDecided DEF LockInv, EndInv
<1>2. ReleaseOK(p, proc[p], held)
  BY ReleaseStays
<1>3. CASE ReleaseBranch(p)
  <2>1. proc[p].pc = "unlockBranch" /\ Goto(p, "removeBranch") /\ Unlock(x, {proc[p].cur})
    BY <1>3 DEF ReleaseBranch
  <2>2. held[x] \cap RowsOf[proc[p].cur] = {}
    BY <1>1, <2>1, UnlockFrees DEF RowsHeldBy
  <2>3. proc[p].cur \in BranchesOf(x)
    BY <1>2, <2>1 DEF ReleaseOK
  <2> QED  BY <2>1, <2>2, <2>3, GotoRelease
<1>4. ASSUME ReleaseOnCommit(p) \/ FinalUnlock(p) PROVE held[x] = {}
  <2>1. Unlock(x, View(p)) /\ proc[p].pc \in {"unlockAll", "finalUnlock"}
    BY <1>4 DEF ReleaseOnCommit, FinalUnlock
  <2>2. held[x] \cap RowsHeldBy(View(p)) = {}
    BY <1>1, <2>1, UnlockFrees
  <2>3. held[x] \subseteq RowsHeldBy(View(p))
    <3> HIDE DEF held
    <3> QED  BY <1>1, <1>2, <2>1 DEF ReleaseOK, View
  <2> HIDE DEF held
  <2> QED  BY <2>2, <2>3
<1>5. CASE ReleaseOnCommit(p)
  <2>1. proc[p].pc = "unlockAll" /\ Goto(p, "decide")
    BY <1>5 DEF ReleaseOnCommit
  <2>2. p \in Handlers => \A y \in proc[p].list : AllHeld'[y] = {}
    BY <1>2, <1>4, <1>5, <2>1 DEF ReleaseOK
  <2> QED  BY <2>1, <2>2, GotoRelease
<1>6. CASE FinalUnlock(p)
  <2>1. proc[p].pc = "finalUnlock" /\ Goto(p, "finalSession")
    BY <1>6 DEF FinalUnlock
  <2> QED  BY <1>4, <1>6, <2>1, GotoRelease
<1> QED  BY <1>3, <1>5, <1>6

\* A branch leaves the copy after its rows have been freed.
LEMMA ForgetBranchRelease ==
  ASSUME LockInv, InTime, Shrinks, NEW p \in Procs, p # "timeoutCheck", NEW b, NEW l,
         Becomes(p, l), proc[p].pc \in {"removeBranch", "finalBranches"},
         b \in BranchesOf(proc[p].x), AllHeld'[proc[p].x] \cap RowsOf[b] = {},
         l.pc \in {"drive", "finalBranches"}, l.pc = "finalBranches" => proc[p].pc = "finalBranches",
         l.view = proc[p].view \ {b}, l.list = proc[p].list, l.dec = proc[p].dec, l.x = proc[p].x
  PROVE  ReleasingOK'
<1> DEFINE held == AllHeld'
<1>1. ReleaseOK(p, proc[p], held)
  BY ReleaseStays
<1>2. held[proc[p].x] \cap RowsOf[b] = {}
  OBVIOUS
<1> HIDE DEF held
<1>3. ASSUME NEW y \in l.list
      PROVE  held[y] \subseteq RowsHeldBy(l.view \cap BranchesOf(y))
  <2>1. held[y] \subseteq RowsHeldBy(proc[p].view \cap BranchesOf(y))
    BY <1>1, <1>3 DEF ReleaseOK
  <2>2. CASE y = proc[p].x
    BY <1>2, <2>1, <2>2 DEF RowsHeldBy
  <2>3. CASE y # proc[p].x
    <3>1. b \notin BranchesOf(y)
      BY <2>3 DEF BranchesOf
    <3>2. l.view \cap BranchesOf(y) = proc[p].view \cap BranchesOf(y)
      BY <3>1
    <3> QED  BY <2>1, <3>2
  <2> QED  BY <2>2, <2>3
<1>4. ReleaseOK(p, l, held)
  BY <1>1, <1>3 DEF ReleaseOK
<1> QED  BY <1>4, ReleaseBecomes DEF held

LEMMA RemoveBranchRelease ==
  ASSUME LockInv, InTime, Shrinks, NEW p \in Procs, p # "timeoutCheck", RemoveBranchSession(p)
  PROVE  ReleasingOK'
<1> DEFINE b == proc[p].cur
           m == [proc[p] EXCEPT !.pc = "drive", !.view = @ \ {b}, !.todo = @ \ {b}, !.cur = NoBranch]
<1>1. proc[p].pc = "removeBranch" /\ Becomes(p, m)
  BY DEF RemoveBranchSession
<1>2. /\ m.pc = "drive" /\ m.view = proc[p].view \ {b} /\ m.list = proc[p].list
      /\ m.dec = proc[p].dec /\ m.x = proc[p].x
  BY ReleaseLocal DEF LocalState
<1>3. b \in BranchesOf(proc[p].x) /\ AllHeld'[proc[p].x] \cap RowsOf[b] = {}
  BY <1>1, ReleaseStays DEF ReleaseOK
<1> HIDE DEF m, AllHeld
<1> QED  BY <1>1, <1>2, <1>3, ForgetBranchRelease

LEMMA RemoveLeftRelease ==
  ASSUME LockInv, InTime, Shrinks, NEW p \in Procs, p # "timeoutCheck", NEW b, RemoveLeftBranch(p, b)
  PROVE  ReleasingOK'
<1> DEFINE m == [proc[p] EXCEPT !.view = @ \ {b}]
<1>1. proc[p].pc = "finalBranches" /\ (Becomes(p, m) \/ Return(p)) /\ b \in View(p)
  BY DEF RemoveLeftBranch, Finished
<1>2. /\ m.pc = "finalBranches" /\ m.view = proc[p].view \ {b} /\ m.list = proc[p].list
      /\ m.dec = proc[p].dec /\ m.x = proc[p].x
  BY <1>1, ReleaseLocal DEF LocalState
<1>3. b \in BranchesOf(proc[p].x) /\ AllHeld'[proc[p].x] \cap RowsOf[b] = {}
  BY <1>1, ReleaseStays DEF ReleaseOK, View
<1> HIDE DEF m, AllHeld
<1>4. CASE Becomes(p, m)
  BY <1>1, <1>2, <1>3, <1>4, ForgetBranchRelease
<1> QED  BY <1>1, <1>4, ReturnRelease DEF Working

\* The end of the walk and the final status.
LEMMA FinishRelease ==
  ASSUME LockInv, InTime, Shrinks, NEW p \in Procs, p # "timeoutCheck",
         EndOfWalk(p) \/ Recheck(p) \/ FinalStatus(p)
  PROVE  ReleasingOK'
<1>0. proc[p] \in LocalState
  BY ReleaseLocal
<1>1. CASE EndOfWalk(p)
  <2> DEFINE s == IF proc[p].dec = "commit" THEN "Committed"
                  ELSE IF IsTimeoutGlobalStatus(p) THEN "TimeoutRolledBack" ELSE "RolledBack"
             label == IF status[proc[p].x] = "None" THEN "finalStatus" ELSE "recheckBranches"
             m == [proc[p] EXCEPT !.goal = s, !.pc = label]
  <2>1. proc[p].pc = "drive" /\ Becomes(p, m) /\ label \in {"finalStatus", "recheckBranches"}
    BY <1>1 DEF EndOfWalk
  <2>2. /\ m.pc = label /\ m.list = proc[p].list /\ m.view = proc[p].view /\ m.dec = proc[p].dec
        /\ m.x = proc[p].x
    BY <1>0 DEF LocalState
  <2> HIDE DEF m, label
  <2> QED  BY <2>1, <2>2, SameRelease
<1>2. CASE Recheck(p)
  <2>1. proc[p].pc = "recheckBranches" /\ (Return(p) \/ Goto(p, "finalStatus"))
    BY <1>2 DEF Recheck, Finished
  <2> QED  BY <2>1, ReturnRelease, GotoRelease DEF Working, Concluding
<1>3. CASE FinalStatus(p)
  <2> DEFINE m == [proc[p] EXCEPT !.st[proc[p].x] = proc[p].goal, !.pc = "finalUnlock"]
  <2>1. proc[p].pc = "finalStatus" /\ Becomes(p, m)
    BY <1>3 DEF FinalStatus
  <2>2. /\ m.pc = "finalUnlock" /\ m.list = proc[p].list /\ m.view = proc[p].view
        /\ m.dec = proc[p].dec /\ m.x = proc[p].x
    BY <1>0 DEF LocalState
  <2> HIDE DEF m
  <2> QED  BY <2>1, <2>2, SameRelease
<1> QED  BY <1>1, <1>2, <1>3

\* A step of a handler or worker.
LEMMA ProcRelease ==
  ASSUME LockInv, InTime, StoreWorks, FreeOnGiveUp, Shrinks, NEW p \in Procs, ProcStep(p)
  PROVE  ReleasingOK'
<1>0. ~Faulty(p)
  BY NoErrors DEF LockInv, EndInv
<1>1. CASE p = "timeoutCheck"
  <2>1. proc[p].pc \in {"idle", "pick"}
    BY <1>1, ReleaseLocal
  <2>2. \E x \in Xids : PickTimeout(x)
    BY <1>0, <1>1, <2>1 DEF ProcStep, Proceed, FindBranches, ReadBranches, CloseSession,
       ReleaseOnCommit, RecordDecision, AlreadyDecided, DeferCommit, RecordTimeout, PickRetry,
       RecordRetry, ReleaseBranch, RemoveBranchSession, Recheck, FinalStatus, FinalUnlock,
       RemoveGlobalSession, RemoveLeftBranch, Walk, RefuseSaga, EndOfWalk, DropFailedBranch,
       QueueNotReady, Next2, Await, AnswerDone, AnswerRetryable, AnswerCannotRetry, AnswerError,
       SendCallback
  <2> QED  BY <1>1, <2>2, PickTimeoutRelease
<1>2. CASE p # "timeoutCheck" /\ Proceed(p)
  <2>1. CASE AlreadyDecided(p) \/ DeferCommit(p) \/ RecordRetry(p)
    <3>1. proc[p].pc \in Working /\ Return(p)
      BY <2>1 DEF AlreadyDecided, DeferCommit, RecordRetry, Working, Concluding
    <3> QED  BY <3>1, ReturnRelease
  <2>2. CASE RemoveGlobalSession(p)
    <3>1. proc[p].pc = "finalSession" /\ (Return(p) \/ Goto(p, "finalBranches"))
      BY <2>2 DEF RemoveGlobalSession, Finished
    <3>2. AllHeld'[proc[p].x] = {}
      BY <3>1, ReleaseStays DEF ReleaseOK
    <3> QED  BY <1>2, <3>1, <3>2, ReturnRelease, GotoRelease DEF Working
  <2> QED  BY <1>2, <2>1, <2>2, FindBranchesRelease, CloseSessionRelease, UnlockRelease,
              RecordDecisionRelease, PickRetryRelease, RemoveBranchRelease, FinishRelease,
              RemoveLeftRelease DEF Proceed
<1>3. CASE p # "timeoutCheck" /\ (Walk(p) \/ Await(p) \/ \E b \in Branches : SendCallback(p, b))
  <2>1. CASE RefuseSaga(p)
    BY <2>1, ReturnRelease DEF RefuseSaga, Working
  <2>2. CASE EndOfWalk(p)
    BY <1>3, <2>2, FinishRelease
  <2>3. CASE \E b \in Branches : DropFailedBranch(p, b)
    BY <1>3, <2>3, ChooseRelease DEF DropFailedBranch
  <2>4. CASE \E b \in Branches : SendCallback(p, b)
    BY <1>3, <2>4, ChooseRelease DEF SendCallback, Next2
  <2>5. CASE \E b \in Branches : QueueNotReady(p, b)
    BY <1>3, <2>5, NotDoneRelease DEF QueueNotReady, Next2, Walking
  <2>6. CASE AnswerDone(p)
    <3>1. proc[p].pc = "await" /\ Goto(p, "unlockBranch")
      BY <2>6 DEF AnswerDone
    <3>2. proc[p].cur \in BranchesOf(proc[p].x)
      BY <3>1, ReleaseLocal DEF ReleaseOK
    <3> QED  BY <1>3, <3>1, <3>2, GotoRelease
  <2>7. CASE AnswerRetryable(p)
    BY <1>3, <2>7, NotDoneRelease DEF AnswerRetryable, Walking
  <2>8. CASE AnswerCannotRetry(p)
    <3>1. \/ Continue(p, proc[p].cur)
          \/ Becomes(p, [proc[p] EXCEPT !.pc = "finalStatus", !.goal = FailedGoal(p)])
      BY <2>8 DEF AnswerCannotRetry
    <3>2. proc[p].pc \in Walking /\ "finalStatus" \in Concluding
      BY <2>8 DEF AnswerCannotRetry, Walking, Concluding
    <3> QED  BY <1>3, <3>1, <3>2, ContinueRelease, ConcludeRelease
  <2>9. CASE AnswerError(p)
    <3>1. \/ Return(p)
          \/ Becomes(p, [proc[p] EXCEPT !.pc = "errorStatus", !.goal = RetryGoal(p)])
      BY <2>9 DEF AnswerError
    <3>2. proc[p].pc \in Walking /\ proc[p].pc \in Working /\ "errorStatus" \in Concluding
      BY <2>9 DEF AnswerError, Walking, Working, Concluding
    <3> QED  BY <1>3, <3>1, <3>2, ReturnRelease, ConcludeRelease
  <2> QED  BY <1>3, <2>1, <2>2, <2>3, <2>4, <2>5, <2>6, <2>7, <2>8, <2>9 DEF Walk, Await
<1> QED  BY <1>0, <1>1, <1>2, <1>3 DEF ProcStep

LEMMA NextReleasing ==
  ASSUME LockInv, InTime, StoreWorks, FreeOnGiveUp, Shrinks, [Next]_vars
  PROVE  ReleasingOK'
<1>1. CASE ClientStep
  <2>1. ASSUME NEW h \in Handlers, NEW x \in Xids, Request(h, x) PROVE ReleasingOK'
    <3> DEFINE l == [Idle EXCEPT !.pc = "branches", !.dec = tm[x], !.x = x, !.list = {x},
                                 !.st[x] = status[x], !.open = IF active[x] THEN {x} ELSE {}]
    <3>1. UNCHANGED proc \/ Becomes(h, l)
      BY <2>1 DEF Request, FindSession
    <3>2. l.pc = "branches" /\ l.x = x /\ l.list = {x}
      BY DEF Idle
    <3>3. h \in Procs /\ h \notin Workers
      BY HandlersAssumption DEF Procs
    <3> HIDE DEF l
    <3>4. ReleaseOK(h, l, AllHeld')
      BY <3>2, <3>3 DEF ReleaseOK, Workers
    <3> QED  BY <3>1, <3>3, <3>4, ReleaseKeep, ReleaseBecomes
  <2>2. CASE \E x \in Xids : Begin(x) \/ \E d \in Decisions : Decide(x, d)
    BY <2>2, ReleaseKeep DEF Begin, Decide
  <2> QED  BY <1>1, <2>1, <2>2, NoErrors DEF ClientStep, EndInv, LockInv
<1>2. CASE EnvStep
  <2>1. CASE Crash
    <3>1. \A p \in Procs : proc'[p] = Idle
      BY <2>1 DEF Crash
    <3>2. Idle.pc = "idle"
      BY DEF Idle
    <3>3. \A p \in Procs : ReleaseOK(p, Idle, AllHeld')
      BY <3>2 DEF ReleaseOK
    <3> QED  BY <3>1, <3>3 DEF ReleasingOK
  <2> QED  BY <1>2, <2>1, ReleaseKeep DEF EnvStep, Elapse, Connect, Disconnect
<1>3. CASE (\E b \in Branches : BranchStep(b)) \/ UNCHANGED vars
  BY <1>3, ReleaseKeep DEF BranchStep, RegisterFind, AcquireLock, AddBranchSession, ReportFind,
     ReportWrite, RegisterError, vars
<1>4. ASSUME NEW w \in Workers, Scan(w) PROVE ReleasingOK'
  <2> DEFINE l == [Idle EXCEPT
                     !.pc = IF w = "timeoutCheck" THEN "pick" ELSE "branches",
                     !.dec = IF w \in {"timeoutCheck", "retryRollingBack"} THEN "rollback"
                             ELSE "commit",
                     !.list = Listed(w),
                     !.st = [x \in Xids |-> IF x \in Listed(w) THEN status[x] ELSE "None"],
                     !.open = {x \in Listed(w) : active[x]}]
  <2>1. /\ l.pc = (IF w = "timeoutCheck" THEN "pick" ELSE "branches") /\ l.list = Listed(w)
        /\ l.dec = (IF w \in {"timeoutCheck", "retryRollingBack"} THEN "rollback" ELSE "commit")
    BY DEF Idle
  <2>2. Becomes(w, l) /\ w \in Procs /\ w \notin Handlers
    BY <1>4, HandlersAssumption DEF Scan, Procs
  <2>3. l.dec = "commit" => \A x \in l.list : AllHeld'[x] = {}
    <3> SUFFICES ASSUME w \notin {"timeoutCheck", "retryRollingBack"}, NEW x \in Listed(w)
                 PROVE  AllHeld'[x] = {}
      BY <2>1
    <3>1. x \in Xids /\ status[x] \in {"CommitRetrying", "AsyncCommitting"}
      BY DEF Listed, Workers
    <3>2. Held(x) = {}
      BY <3>1 DEF LockInv, FreeOK, CommitStatus
    <3>3. tm[x] # "active"
      BY <3>1 DEF LockInv, EndInv, OpenOK
    <3> QED  BY <3>1, <3>2, <3>3 DEF AllHeld, Shrinks
  <2> HIDE DEF l
  <2>4. ReleaseOK(w, l, AllHeld')
    BY <2>1, <2>2, <2>3 DEF ReleaseOK
  <2> QED  BY <2>2, <2>4, ReleaseBecomes
<1>5. CASE \E p \in Procs : ProcStep(p)
  BY <1>5, ProcRelease
<1> QED  BY <1>1, <1>2, <1>3, <1>4, <1>5 DEF Next

-----------------------------------------------------------------------------
(* OwnersOK: every locked row has a branch that names it. *)

\* The row r of x has a branch.
Owned(r, x) == \E b \in BranchesOf(x) : r \in RowsOf[b] /\ (reg[b] = "add" \/ bs[b] # "None")

\* No branch is lost.
LEMMA KeepOwner ==
  ASSUME NEW r, NEW x, Owned(r, x),
         \A b \in Branches : /\ reg[b] = "add" => reg'[b] = "add" \/ bs'[b] # "None"
                             /\ bs[b] # "None" => bs'[b] # "None"
  PROVE  Owned(r, x)'
<1>1. PICK b \in BranchesOf(x) : r \in RowsOf[b] /\ (reg[b] = "add" \/ bs[b] # "None")
  BY DEF Owned
<1>2. b \in Branches
  BY <1>1 DEF BranchesOf
<1>3. CASE reg[b] = "add"
  BY <1>1, <1>2, <1>3 DEF Owned, BranchesOf
<1>4. CASE bs[b] # "None"
  BY <1>1, <1>2, <1>4 DEF Owned, BranchesOf
<1> QED  BY <1>1, <1>3, <1>4

\* A branch row that goes has had its rows freed.
LEMMA RemoveOwner ==
  ASSUME LockInv, ReleasingOK', NEW p \in Procs, NEW c \in Branches, NEW x \in Xids, NEW r,
         (RemoveBranchSession(p) /\ c = proc[p].cur) \/ RemoveLeftBranch(p, c),
         r \in Held(x), Owned(r, x), UNCHANGED reg
  PROVE  Owned(r, x)'
<1>1. /\ bs' = [bs EXCEPT ![c] = "None"]
      /\ proc[p].pc \in {"removeBranch", "finalBranches"}
      /\ proc[p].pc = "finalBranches" => c \in View(p)
      /\ proc[p].pc = "removeBranch" => c = proc[p].cur
  BY DEF RemoveBranchSession, RemoveLeftBranch
<1>2. ReleaseOK(p, proc[p], AllHeld) /\ bs \in [Branches -> {"None", "Registered", "PhaseOneFailed"}]
  BY ReleaseLocal DEF LockInv, EndInv, IInv, TypeOK, StoreType
<1>3. c \in BranchesOf(proc[p].x)
  BY <1>1, <1>2 DEF ReleaseOK, View
<1>4. x = proc[p].x => r \notin RowsOf[c]
  BY <1>1, <1>2 DEF ReleaseOK, AllHeld
<1>5. PICK b \in BranchesOf(x) : r \in RowsOf[b] /\ (reg[b] = "add" \/ bs[b] # "None")
  BY DEF Owned
<1>6. b # c
  BY <1>3, <1>4, <1>5 DEF BranchesOf
<1>7. bs'[b] = bs[b] /\ reg'[b] = reg[b]
  BY <1>1, <1>2, <1>5, <1>6 DEF BranchesOf
<1> QED  BY <1>5, <1>7 DEF Owned

\* A registration that is cut off leaves its rows behind; the others are inserted.
LEMMA CrashOwner ==
  ASSUME LockInv, Crash, NEW x \in Xids, NEW r, Owned(r, x), ~Stray(r, x)'
  PROVE  Owned(r, x)'
<1>1. PICK b \in BranchesOf(x) : r \in RowsOf[b] /\ (reg[b] = "add" \/ bs[b] # "None")
  BY DEF Owned
<1>2. bs' = bs
  BY DEF Crash, store
<1>3. crashes' > 0
  BY DEF Crash, LockInv, EndInv, IInv, TypeOK, FaultType
<1>4. reg[b] = "add" => reg'[b] = "refused"
  BY DEF Crash, InFlight, Failed, BranchesOf
<1>5. reg[b] # "add"
  BY <1>1, <1>3, <1>4 DEF Stray
<1> QED  BY <1>1, <1>2, <1>5 DEF Owned

\* AcquireLock takes rows for a branch that is inserted next.
LEMMA AcquireOwner ==
  ASSUME LockInv, NEW b \in Branches, AcquireLock(b), NEW x \in Xids, NEW r \in Rows,
         lock'[r] = x, lock[r] = x => Owned(r, x)
  PROVE  Owned(r, x)'
<1>0. reg \in [Branches -> {"none", "lock", "add", "registered", "refused", "reporting", "done"}]
  BY DEF LockInv, EndInv, IInv, TypeOK, ClientType
<1>1. CASE lock[r] = x
  <2>1. \A c \in Branches : reg[c] = "add" => reg'[c] = "add"
    BY <1>0 DEF AcquireLock
  <2> QED  BY <1>1, <2>1, KeepOwner DEF AcquireLock
<1>2. CASE lock[r] # x
  <2>1. x = TxOf[b] /\ r \in RowsOf[b] /\ reg'[b] = "add"
    BY <1>0, <1>2 DEF AcquireLock
  <2> QED  BY <2>1 DEF Owned, BranchesOf
<1> QED  BY <1>1, <1>2

LEMMA NextOwners ==
  ASSUME LockInv, StoreWorks, ReleasingOK', [Next]_vars
  PROVE  OwnersOK'
<1> SUFFICES ASSUME NEW x \in Xids, NEW r \in Rows, lock'[r] = x, ~Stray(r, x)'
             PROVE  Owned(r, x)'
  BY DEF OwnersOK, Held, Owned, BranchesOf
<1>0. /\ bs \in [Branches -> {"None", "Registered", "PhaseOneFailed"}]
      /\ reg \in [Branches -> {"none", "lock", "add", "registered", "refused", "reporting", "done"}]
  BY DEF LockInv, EndInv, IInv, TypeOK, StoreType, ClientType
<1>1. ~Stray(r, x)
  BY StrayGrows DEF LockInv, EndInv
<1>2. lock[r] = x => r \in Held(x) /\ Owned(r, x)
  BY <1>1 DEF LockInv, OwnersOK, Held, Owned
<1>3. ASSUME NEW b \in Branches, AcquireLock(b) PROVE Owned(r, x)'
  BY <1>2, <1>3, AcquireOwner
<1>4. CASE ~ \E b \in Branches : AcquireLock(b)
  <2>1. r \in Held(x) /\ Owned(r, x)
    BY <1>2, <1>4, LockSteps DEF LockInv, EndInv, BranchesOf
  <2>2. CASE UNCHANGED <<bs, reg>>
    BY <2>1, <2>2, KeepOwner
  <2>3. CASE Crash
    BY <2>1, <2>3, CrashOwner
  <2>4. CASE ClientStep \/ EnvStep \/ (\E w \in Workers : Scan(w)) \/ UNCHANGED vars
    BY <2>2, <2>3, <2>4 DEF ClientStep, Begin, Decide, Request, RequestError, FindSession, EnvStep,
       Elapse, Connect, Disconnect, Scan, vars, store, clients
  <2>5. ASSUME NEW b \in Branches, BranchStep(b) PROVE Owned(r, x)'
    <3>1. ~AcquireLock(b) /\ ~RegisterError(b)
      BY <1>4, NoErrors DEF LockInv, EndInv
    <3>2. \A c \in Branches : reg[c] = "add" => reg'[c] = "add" \/ bs'[c] # "None"
      BY <1>0, <2>5, <3>1 DEF BranchStep, RegisterFind, AddBranchSession, ReportFind, ReportWrite,
         store
    <3>3. \A c \in Branches : bs[c] # "None" => bs'[c] # "None"
      BY <1>0, <2>5, <3>1 DEF BranchStep, RegisterFind, AddBranchSession, ReportFind, ReportWrite,
         store
    <3> QED  BY <2>1, <3>2, <3>3, KeepOwner
  <2>6. ASSUME NEW p \in Procs, ProcStep(p) PROVE Owned(r, x)'
    <3>1. UNCHANGED reg
      BY <2>6, FrameOfProcStep DEF LockInv, EndInv
    <3>2. CASE RemoveBranchSession(p)
      <4>1. proc[p].cur \in Branches
        BY <3>2, ReleaseLocal DEF RemoveBranchSession, ReleaseOK, BranchesOf
      <4> QED  BY <2>1, <3>1, <3>2, <4>1, RemoveOwner
    <3>3. CASE \E b \in Branches : RemoveLeftBranch(p, b)
      BY <2>1, <3>1, <3>3, RemoveOwner
    <3>4. CASE UNCHANGED bs
      BY <2>2, <3>1, <3>4
    <3>5. CASE Proceed(p)
      BY <3>2, <3>3, <3>4, <3>5 DEF Proceed, FindBranches, ReadBranches, CloseSession,
         ReleaseOnCommit, RecordDecision, AlreadyDecided, DeferCommit, RecordTimeout, PickTimeout,
         PickRetry, RecordRetry, ReleaseBranch, Recheck, FinalStatus, FinalUnlock,
         RemoveGlobalSession, store
    <3> QED  BY <2>6, <3>4, <3>5, StatusKept DEF ProcStep
  <2> QED  BY <2>4, <2>5, <2>6 DEF Next
<1> QED  BY <1>3, <1>4

-----------------------------------------------------------------------------
(* FreeOK: who commits, and who is gone, holds nothing. *)

\* The status that a step of a process writes.
LEMMA ProcFree ==
  ASSUME LockInv, InTime, ReleasingOK', Shrinks, NEW p \in Procs, ProcStep(p), NEW x \in Xids,
         tm[x] # "active", status'[x] \in CommitStatus \cup {"None"}
  PROVE  Held(x)' = {}
<1>0. /\ status \in [Xids -> Status] /\ ReleaseOK(p, proc[p], AllHeld)
      /\ proc[p].pc \notin {"idle", "pick"} => p # "timeoutCheck"
      /\ proc[p].pc \in Concluding => proc[p].goal \in StatusOf(proc[p].dec)
      /\ proc[p].dec \in Decisions
  BY ReleaseLocal, LocalFacts DEF LockInv, EndInv, IInv, TypeOK, StoreType, LocalOK
<1>1. Held(x) = {} => Held(x)' = {}
  BY DEF Shrinks
<1>2. CASE status'[x] = status[x]
  BY <1>1, <1>2 DEF LockInv, FreeOK
<1>3. ASSUME x = proc[p].x, proc[p].dec = "commit", proc[p].pc \in Working,
             proc[p].pc \notin {"close", "unlockAll"}
      PROVE  Held(x) = {}
  <2>1. proc[p].x \in proc[p].list
    BY <1>3, WorkDecided DEF LockInv, EndInv
  <2>2. AllHeld[x] = {}
    <3>1. proc[p].pc \notin {"idle", "branches"}
      BY <1>3 DEF Working, Concluding
    <3> HIDE DEF AllHeld
    <3> QED  BY <1>0, <1>3, <2>1, <3>1 DEF ReleaseOK
  <2> QED  BY <2>2 DEF AllHeld
<1>4. CASE RecordDecision(p)
  <2>1. SetStatus(proc[p].x, IF proc[p].dec = "commit" THEN "Committing" ELSE "RollingBack")
        /\ proc[p].pc = "decide"
    BY <1>4 DEF RecordDecision
  <2>2. CASE x = proc[p].x /\ proc[p].dec = "commit"
    BY <1>1, <1>3, <2>1, <2>2 DEF Working
  <2>3. CASE x = proc[p].x /\ proc[p].dec # "commit"
    BY <1>0, <1>2, <2>1, <2>3 DEF SetStatus, CommitStatus
  <2>4. CASE x # proc[p].x
    BY <1>0, <1>2, <2>1, <2>4 DEF SetStatus
  <2> QED  BY <2>2, <2>3, <2>4
<1>5. CASE DeferCommit(p)
  <2>1. proc[p].pc = "async" /\ SetStatus(proc[p].x, "AsyncCommitting")
    BY <1>5 DEF DeferCommit
  <2>2. proc[p].dec = "commit"
    BY <2>1, LocalFacts DEF LocalOK, LockInv, EndInv, IInv
  <2>3. CASE x # proc[p].x
    BY <1>0, <1>2, <2>1, <2>3 DEF SetStatus
  <2> QED  BY <1>1, <1>3, <2>1, <2>2, <2>3 DEF Working
<1>6. CASE RecordRetry(p) \/ FinalStatus(p)
  <2>1. /\ proc[p].pc \in Concluding /\ SetStatus(proc[p].x, proc[p].goal)
        /\ proc[p].pc \in Working /\ proc[p].pc \notin {"close", "unlockAll"}
    BY <1>6 DEF RecordRetry, FinalStatus, Concluding, Working
  <2>2. CASE x # proc[p].x
    BY <1>0, <1>2, <2>1, <2>2 DEF SetStatus
  <2>3. CASE x = proc[p].x /\ proc[p].dec = "commit"
    BY <1>1, <1>3, <2>1, <2>3
  <2>4. CASE x = proc[p].x /\ proc[p].dec # "commit" /\ status'[x] # status[x]
    <3>1. status'[x] = proc[p].goal
      BY <1>0, <2>1, <2>4 DEF SetStatus
    <3>2. proc[p].goal \in RollbackStatus
      BY <1>0, <2>1, <2>4 DEF StatusOf
    <3>3. "None" \notin RollbackStatus
      BY DEF RollbackStatus, TimeoutStatus
    <3> QED  BY <3>1, <3>2, <3>3, StatusesApart
  <2> QED  BY <1>2, <2>2, <2>3, <2>4
<1>7. CASE RemoveGlobalSession(p)
  <2>1. proc[p].pc = "finalSession" /\ status' = [status EXCEPT ![proc[p].x] = "None"]
    BY <1>7 DEF RemoveGlobalSession
  <2>2. CASE x # proc[p].x
    BY <1>0, <1>2, <2>1, <2>2
  <2>3. CASE x = proc[p].x
    <3>1. AllHeld[x] = {}
      BY <1>0, <2>1, <2>3 DEF ReleaseOK
    <3> QED  BY <1>1, <3>1 DEF AllHeld
  <2> QED  BY <2>2, <2>3
<1>8. CASE p = "timeoutCheck" /\ RecordTimeout
  BY <1>0, <1>8 DEF RecordTimeout
<1>9. CASE UNCHANGED status
  BY <1>2, <1>9
<1>10. CASE Proceed(p)
  BY <1>4, <1>5, <1>6, <1>7, <1>8, <1>9, <1>10 DEF Proceed, FindBranches, ReadBranches, CloseSession,
     ReleaseOnCommit, AlreadyDecided, PickTimeout, PickRetry, ReleaseBranch,
     RemoveBranchSession, Recheck, FinalUnlock, RemoveLeftBranch, store
<1> QED  BY <1>9, <1>10, StatusKept DEF ProcStep

LEMMA NextFree ==
  ASSUME LockInv, EndInv', InTime, ReleasingOK', Shrinks, [Next]_vars, NEW x \in Xids,
         status'[x] \in CommitStatus \cup {"None"}
  PROVE  Held(x)' = {}
<1>0. "Begin" \notin CommitStatus \cup {"None"} /\ status \in [Xids -> Status]
      /\ tm \in [Xids -> {"none", "active"} \cup Decisions]
  BY DEF CommitStatus, LockInv, EndInv, IInv, TypeOK, StoreType, ClientType
<1>1. tm'[x] # "active"
  BY <1>0 DEF EndInv, OpenOK
<1>2. CASE tm[x] = "active"
  <2>1. status[x] = "Begin"
    BY <1>2 DEF LockInv, EndInv, OpenOK
  <2>2. PICK y \in Xids, d \in Decisions : Decide(y, d)
    <3>1. UNCHANGED tm => FALSE
      BY <1>1, <1>2
    <3>2. CASE ClientStep
      BY <1>0, <1>1, <1>2, <3>1, <3>2 DEF ClientStep, Begin, Request, RequestError, FindSession
    <3>3. CASE EnvStep \/ (\E b \in Branches : BranchStep(b)) \/ (\E w \in Workers : Scan(w))
               \/ UNCHANGED vars
      BY <3>1, <3>3 DEF EnvStep, Elapse, Connect, Disconnect, Crash, BranchStep, RegisterFind,
         AcquireLock, AddBranchSession, ReportFind, ReportWrite, RegisterError, Scan, vars, clients
    <3>4. CASE \E p \in Procs : ProcStep(p)
      BY <3>1, <3>4, FrameOfProcStep DEF LockInv, EndInv
    <3> QED  BY <3>2, <3>3, <3>4 DEF Next
  <2> QED  BY <1>0, <2>1, <2>2 DEF Decide, store
<1>3. CASE tm[x] # "active"
  <2>1. ASSUME status'[x] = status[x] PROVE Held(x)' = {}
    BY <1>3, <2>1 DEF LockInv, FreeOK, Shrinks
  <2>2. CASE ClientStep
    <3>1. ASSUME NEW y \in Xids, Begin(y) PROVE Held(x)' = {}
      BY <1>0, <2>1, <3>1 DEF Begin
    <3>2. CASE \E y \in Xids, d \in Decisions : Decide(y, d)
      BY <2>1, <3>2 DEF Decide, store
    <3>3. CASE \E h \in Handlers, y \in Xids : Request(h, y) \/ RequestError(h, y)
      BY <2>1, <3>3 DEF Request, RequestError, FindSession, store
    <3> QED  BY <2>2, <3>1, <3>2, <3>3 DEF ClientStep
  <2>3. CASE EnvStep \/ (\E b \in Branches : BranchStep(b)) \/ (\E w \in Workers : Scan(w))
             \/ UNCHANGED vars
    BY <2>1, <2>3 DEF EnvStep, Elapse, Connect, Disconnect, Crash, BranchStep, RegisterFind,
       AcquireLock, AddBranchSession, ReportFind, ReportWrite, RegisterError, Scan, vars, store
  <2>4. CASE \E p \in Procs : ProcStep(p)
    BY <1>3, <2>4, ProcFree
  <2> QED  BY <2>2, <2>3, <2>4 DEF Next
<1> QED  BY <1>2, <1>3

LEMMA InitLock ==
  ASSUME Init
  PROVE  LockInv
<1>1. \A x \in Xids : Held(x) = {}
  BY TopologyAssumption DEF Init, Held
<1>2. OwnersOK /\ FreeOK
  BY <1>1 DEF OwnersOK, FreeOK
<1>3. ReleasingOK
  BY DEF Init, ReleasingOK, ReleaseOK, Idle
<1> QED  BY <1>2, <1>3, InitEnd DEF LockInv

LEMMA NextLock ==
  ASSUME LockInv, EndInv', InTime, StoreWorks, FreeOnGiveUp, [Next]_vars
  PROVE  LockInv'
<1>1. Shrinks
  BY NextShrinks DEF LockInv
<1>2. ReleasingOK'
  BY <1>1, NextReleasing
<1>3. OwnersOK'
  BY <1>2, NextOwners
<1>4. FreeOK'
  BY <1>1, <1>2, NextFree DEF FreeOK
<1> QED  BY <1>2, <1>3, <1>4 DEF LockInv

LEMMA LockInvariance ==
  ASSUME InTime, StoreWorks, FreeOnGiveUp
  PROVE  Spec => []LockInv
<1>1. Init => LockInv
  BY InitLock
<1>2. LockInv /\ EndInv' /\ [Next]_vars => LockInv'
  BY NextLock
<1> QED  BY <1>1, <1>2, EndInvariance, PTL DEF Spec

-----------------------------------------------------------------------------

\* The rows that stay locked by a transaction that is gone.
Orphan(r) == lock[r] # NoXid /\ status[lock[r]] = "None"

\* With crashes, a row stays locked by a transaction that is gone only if the crash came between
\* AcquireLock and the insert of the branch in BranchRegister: no other interleaving of Commit,
\* Rollback and the workers loses a row lock, as long as the store works, transactions end
\* within their timeout and giving up a rollback frees its rows.
THEOREM OrphansAreStray ==
  ASSUME InTime, StoreWorks, FreeOnGiveUp
  PROVE  Spec => [](\A r \in Rows : Orphan(r) => Stray(r, lock[r]))
<1>1. ASSUME LockInv, NEW r \in Rows, Orphan(r) PROVE Stray(r, lock[r])
  <2>1. lock[r] \in Xids
    BY <1>1 DEF Orphan, LockInv, EndInv, IInv, TypeOK, StoreType
  <2>2. Held(lock[r]) = {}
    BY <1>1, <2>1 DEF Orphan, LockInv, FreeOK
  <2> QED  BY <2>2 DEF Held
<1>2. LockInv => \A r \in Rows : Orphan(r) => Stray(r, lock[r])
  BY <1>1
<1> QED  BY <1>2, LockInvariance, PTL

\* Without a crash none does: ReleaseGlobalSessionLock, ReleaseLock branch by branch, or the
\* release on Commit have freed every row before RemoveGlobalTransaction deletes the session.
THEOREM NoOrphan ==
  ASSUME InTime, StoreWorks, FreeOnGiveUp, MaxCrashes = 0
  PROVE  Spec => []NoOrphanLock
<1> DEFINE Intact == crashes = 0
<1>1. Init => Intact
  BY DEF Init
<1>2. Intact /\ IInv /\ [Next]_vars => Intact'
  <2> SUFFICES ASSUME Intact, IInv, [Next]_vars PROVE UNCHANGED crashes
    OBVIOUS
  <2>1. CASE ClientStep
    BY <2>1 DEF ClientStep, Begin, Decide, Request, RequestError, FindSession, faults
  <2>2. ~Crash
    BY DEF Crash, Intact
  <2>3. CASE EnvStep
    BY <2>2, <2>3 DEF EnvStep, Elapse, Connect, Disconnect
  <2>4. CASE (\E b \in Branches : BranchStep(b)) \/ (\E w \in Workers : Scan(w)) \/ UNCHANGED vars
    BY <2>4 DEF BranchStep, RegisterFind, AcquireLock, AddBranchSession, ReportFind, ReportWrite,
       RegisterError, Scan, vars, faults
  <2>5. CASE \E p \in Procs : ProcStep(p)
    BY <2>5, FrameOfProcStep
  <2> QED  BY <2>1, <2>3, <2>4, <2>5 DEF Next
<1>3. Intact /\ (\A r \in Rows : Orphan(r) => Stray(r, lock[r])) => NoOrphanLock
  BY DEF Orphan, Stray, NoOrphanLock
<1> HIDE DEF Intact
<1> QED  BY <1>1, <1>2, <1>3, OrphansAreStray, Invariance, PTL DEF Spec

=============================================================================
