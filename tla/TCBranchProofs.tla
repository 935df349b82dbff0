---------------------------- MODULE TCBranchProofs ----------------------------
(***************************************************************************)
(* No branch is lost: who deletes a branch row, and on what grounds, for   *)
(* every topology and any number of handlers, timeouts and crashes.  And   *)
(* the coordinator is an atomic commit: it implements GlobalTransaction.   *)
(***************************************************************************)
EXTENDS TCSessionProofs

(* Branch rows are deleted by goroutines that act on old copies, and the     *)
(* sessions by others.  The proof goes from the grounds of a deletion to who *)
(* has them, by sets that only grow.                                         *)

\* The branches whose row has been inserted.
Entered == {b \in Branches : reg[b] \in {"registered", "reporting", "done"}}
EnteredOK == \A b \in Branches : bs[b] # "None" => b \in Entered

\* The entered branches whose row may go.
Excused == {b \in Entered : \/ bs[b] # "Registered"
                            \/ {<<"commit", b>>, <<"rollback", b>>} \cap acked # {}
                            \/ Pardoned(TxOf[b])}

\* Process p in state l writes no commit status of x any more.
NoCommit(p, l, x) ==
  l.pc # "idle" /\ l.dec = "commit" /\ x \in l.list =>
    p \in Handlers /\ l.pc \in {"branches", "close", "unlockAll", "decide"} /\ l.st[x] # "Begin"

\* Neither does anybody else.
Doomed(x) ==
  /\ status[x] \notin {"Begin"} \cup CommitStatus
  /\ \A p \in Procs : NoCommit(p, proc[p], x)

\* The transactions whose session may be gone.
Over == {x \in Xids : /\ tm[x] # "none"
                      /\ \/ Pardoned(x) \/ Doomed(x)
                         \/ Decided(x) /\ \A b \in BranchesOf(x) : bs[b] = "None"}
GoneOK == \A x \in Xids : tm[x] # "none" /\ status[x] = "None" => x \in Over

\* There is no session before Begin.
BegunOK == \A x \in Xids : tm[x] = "none" => status[x] = "None"

\* The transactions that are decided or have left Begin.
Leaving == {x \in Xids : Decided(x) \/ (tm[x] # "none" /\ status[x] # "Begin")}

\* The labels at which the session or what is left of the copy is about to go.
Ending == {"finalStatus", "finalUnlock", "finalSession", "finalBranches"}

\* What a process may have in its copy, and what it deletes.
CopyOK(p, l, entered, excused, over, leaving) ==
  /\ p # "timeoutCheck" => l.list \subseteq leaving
  /\ p \in Handlers /\ l.pc # "idle" => l.list = {l.x}
  /\ l.view \subseteq entered /\ l.failed \subseteq excused
  /\ l.pc \in Walking => l.todo \subseteq entered
  /\ l.pc \in {"await", "unlockBranch", "removeBranch"} => l.cur \in BranchesOf(l.x) \cap entered
  /\ l.pc \in {"unlockBranch", "removeBranch"} => l.cur \in excused
  /\ l.dec = "rollback" /\ l.pc \in Walking => l.view \cap BranchesOf(l.x) \subseteq l.todo
  /\ l.pc \in Ending => l.x \in over /\ l.view \cap BranchesOf(l.x) \subseteq excused

CopiesOK == \A p \in Procs : CopyOK(p, proc[p], Entered, Excused, Over, Leaving)

BranchInv == IInv /\ AwaitedOK /\ EnteredOK /\ CopiesOK /\ GoneOK /\ BegunOK

-----------------------------------------------------------------------------
(* What every step leaves as it is. *)

\* The facts about branches and transactions that are never taken back.
Lasting ==
  /\ Entered \subseteq Entered' /\ EnteredOK'
  /\ \A b \in Entered : bs[b] # "Registered" => bs'[b] # "Registered"
  /\ acked \subseteq acked' /\ refused \subseteq refused'
  /\ \A x \in Xids : past[x] \subseteq past'[x] /\ (tm[x] # "none" => tm'[x] # "none")

LEMMA ProcLasting ==
  ASSUME BranchInv, NEW p \in Procs, ProcStep(p)
  PROVE  Lasting
<1>0. IInv /\ EnteredOK /\ bs \in [Branches -> {"None", "Registered", "PhaseOneFailed"}]
  BY DEF BranchInv, IInv, TypeOK, StoreType
<1>1. UNCHANGED <<reg, tm, past>>
  BY <1>0, FrameOfProcStep
<1>2. /\ \A b \in Branches : bs'[b] \in {bs[b], "None"}
      /\ acked \subseteq acked' /\ refused \subseteq refused'
  <2>1. CASE Proceed(p)
    BY <1>0, <2>1 DEF Proceed, FindBranches, ReadBranches, CloseSession, ReleaseOnCommit,
       RecordDecision, AlreadyDecided, DeferCommit, RecordTimeout, PickTimeout, PickRetry,
       RecordRetry, ReleaseBranch, RemoveBranchSession, Recheck, FinalStatus, FinalUnlock,
       RemoveGlobalSession, RemoveLeftBranch, store, history
  <2>2. CASE Walk(p) \/ Await(p) \/ \E b \in Branches : SendCallback(p, b)
    BY <2>2 DEF Walk, RefuseSaga, EndOfWalk, DropFailedBranch, QueueNotReady, Await,
       AnswerDone, AnswerRetryable, AnswerCannotRetry, AnswerError, SendCallback, store, history
  <2>3. CASE Faulty(p)
    BY <2>3 DEF Faulty, FindBranchesError, ReadBranches, RecheckError, UnlockError,
       WriteError, store, history
  <2> QED  BY <2>1, <2>2, <2>3 DEF ProcStep
<1>3. Entered' = Entered
  BY <1>1 DEF Entered
<1> QED  BY <1>0, <1>1, <1>2, <1>3 DEF Lasting, EnteredOK, Entered

LEMMA NextLasting ==
  ASSUME BranchInv, [Next]_vars
  PROVE  Lasting
<1>0. /\ IInv /\ EnteredOK /\ bs \in [Branches -> {"None", "Registered", "PhaseOneFailed"}]
      /\ reg \in [Branches -> {"none", "lock", "add", "registered", "refused", "reporting", "done"}]
      /\ tm \in [Xids -> {"none", "active"} \cup Decisions] /\ "none" \notin Decisions
      /\ past \in [Xids -> SUBSET Deadlines]
  BY DEF BranchInv, IInv, TypeOK, StoreType, ClientType, FaultType, Decisions
<1> DEFINE Rest == acked \subseteq acked' /\ refused \subseteq refused'
           Times == \A x \in Xids : past[x] \subseteq past'[x]
           Begun == \A x \in Xids : tm[x] # "none" => tm'[x] # "none"
<1>1. ASSUME UNCHANGED bs, Entered' = Entered, Rest, Times, Begun PROVE Lasting
  BY <1>0, <1>1 DEF Lasting, EnteredOK
<1>2. CASE ClientStep
  <2>1. UNCHANGED <<bs, reg, acked, refused, past>>
    BY <1>2 DEF ClientStep, Begin, Decide, Request, RequestError, FindSession, store, faults, history
  <2>2. Entered' = Entered
    BY <2>1 DEF Entered
  <2>3. Begun
    <3>1. ASSUME NEW y \in Xids, Begin(y) PROVE Begun
      BY <1>0, <3>1 DEF Begin
    <3>2. ASSUME NEW y \in Xids, NEW d \in Decisions, Decide(y, d) PROVE Begun
      BY <1>0, <3>2 DEF Decide
    <3>3. CASE \E h \in Handlers, y \in Xids : Request(h, y) \/ RequestError(h, y)
      BY <3>3 DEF Request, RequestError, FindSession
    <3> QED  BY <1>2, <3>1, <3>2, <3>3 DEF ClientStep
  <2> QED  BY <1>1, <2>1, <2>2, <2>3
<1>3. CASE EnvStep
  <2>1. UNCHANGED <<bs, acked, refused, tm>>
    BY <1>3 DEF EnvStep, Elapse, Connect, Disconnect, Crash, store, history, clients
  <2>2. Times
    BY <1>0, <1>3 DEF EnvStep, Elapse, Connect, Disconnect, Crash
  <2>3. Entered' = Entered
    <3>1. CASE Crash
      BY <1>0, <3>1 DEF Crash, InFlight, Failed, Entered
    <3> QED  BY <1>3, <3>1 DEF EnvStep, Elapse, Connect, Disconnect, clients, Entered
  <2> QED  BY <1>1, <2>1, <2>2, <2>3
<1>4. ASSUME NEW b \in Branches, BranchStep(b) PROVE Lasting
  <2>1. UNCHANGED <<acked, refused, tm, past>>
    BY <1>4 DEF BranchStep, RegisterFind, AcquireLock, AddBranchSession, ReportFind, ReportWrite,
       RegisterError, history, faults
  <2>2. CASE RegisterFind(b) \/ AcquireLock(b) \/ ReportFind(b) \/ RegisterError(b)
    <3>1. UNCHANGED bs /\ Entered' = Entered
      BY <1>0, <2>2 DEF RegisterFind, AcquireLock, ReportFind, RegisterError, store, InFlight,
         Failed, Entered
    <3> QED  BY <1>1, <2>1, <3>1
  <2>3. CASE AddBranchSession(b)
    <3>1. /\ reg[b] = "add"
          /\ bs' = [bs EXCEPT ![b] = "Registered"] /\ reg' = [reg EXCEPT ![b] = "registered"]
      BY <2>3 DEF AddBranchSession
    <3>2. Entered' = Entered \cup {b} /\ b \notin Entered
      BY <1>0, <3>1 DEF Entered
    <3>3. \A c \in Branches : c # b => bs'[c] = bs[c]
      BY <1>0, <3>1
    <3> QED  BY <1>0, <2>1, <3>2, <3>3 DEF Lasting, EnteredOK, Entered
  <2>4. CASE ReportWrite(b)
    <3>1. /\ Entered' = Entered
          /\ \A c \in Branches : bs'[c] = bs[c] \/ (bs[c] # "None" /\ bs'[c] = "PhaseOneFailed")
      BY <1>0, <2>4 DEF ReportWrite, Entered
    <3> QED  BY <1>0, <2>1, <3>1 DEF Lasting, EnteredOK, Entered
  <2> QED  BY <1>4, <2>2, <2>3, <2>4 DEF BranchStep
<1>5. CASE (\E w \in Workers : Scan(w)) \/ UNCHANGED vars
  <2>1. UNCHANGED <<bs, reg, acked, refused, tm, past>>
    BY <1>5 DEF Scan, vars, store, clients, faults, history
  <2>2. Entered' = Entered
    BY <2>1 DEF Entered
  <2> QED  BY <1>1, <2>1, <2>2
<1>6. CASE \E p \in Procs : ProcStep(p)
  BY <1>6, ProcLasting
<1> QED  BY <1>2, <1>3, <1>4, <1>5, <1>6 DEF Next

-----------------------------------------------------------------------------
(* Doomed: a transaction nobody will commit stays so. *)

\* Who takes a session to a commit status.
LEMMA CommitWrites ==
  ASSUME IInv, NEW p \in Procs, Proceed(p), NEW x \in Xids,
         status'[x] \in CommitStatus, status[x] \notin CommitStatus
  PROVE  /\ proc[p].x = x /\ proc[p].dec = "commit"
         /\ proc[p].pc \in Working \ {"close", "unlockAll"}
         /\ proc[p].pc = "decide" => proc[p].st[x] = "Begin"
<1>0. /\ ProcInv /\ status \in [Xids -> Status] /\ proc[p].dec \in Decisions
      /\ CommitStatus \cap (RollbackStatus \cup {"None"}) = {}
  BY LocalFacts DEF IInv, TypeOK, StoreType, CommitStatus, RollbackStatus, TimeoutStatus
<1>1. status'[x] # status[x]
  OBVIOUS
<1>2. CASE RecordDecision(p)
  BY <1>0, <1>1, <1>2 DEF RecordDecision, SetStatus, Decisions, RollbackStatus, Working
<1>3. CASE DeferCommit(p)
  BY <1>0, <1>1, <1>3, LocalFacts DEF DeferCommit, SetStatus, LocalOK, Working
<1>4. CASE RecordRetry(p) \/ FinalStatus(p)
  <2>1. proc[p].pc \in Concluding /\ SetStatus(proc[p].x, proc[p].goal)
    BY <1>4 DEF RecordRetry, FinalStatus, Concluding
  <2>2. proc[p].goal \in StatusOf(proc[p].dec)
    BY <1>0, <2>1, LocalFacts DEF LocalOK
  <2>3. proc[p].x = x /\ status'[x] = proc[p].goal
    BY <1>0, <1>1, <2>1 DEF SetStatus
  <2>4. proc[p].dec = "commit"
    BY <1>0, <2>2, <2>3 DEF StatusOf
  <2> QED  BY <2>1, <2>3, <2>4 DEF Concluding, Working
<1>5. CASE RemoveGlobalSession(p) \/ (p = "timeoutCheck" /\ RecordTimeout)
  <2>1. status'[x] \in {status[x], "None", "TimeoutRollingBack"}
    BY <1>0, <1>5 DEF RemoveGlobalSession, RecordTimeout, SetStatus
  <2> QED  BY <1>0, <1>1, <2>1 DEF RollbackStatus, TimeoutStatus
<1>6. CASE UNCHANGED status
  BY <1>1, <1>6
<1> QED  BY <1>2, <1>3, <1>4, <1>5, <1>6 DEF Proceed, FindBranches, ReadBranches, AlreadyDecided,
            Recheck, CloseSession, ReleaseOnCommit, ReleaseBranch, FinalUnlock,
            RemoveBranchSession, RemoveLeftBranch, PickTimeout, PickRetry, store

\* A handler that commits and found the session no longer in Begin only reports its status.
LEMMA CommitMoves ==
  ASSUME BranchInv, StoreWorks, NEW p \in Handlers, ProcStep(p),
         proc[p].pc \in {"branches", "close", "unlockAll", "decide"},
         proc[p].pc = "decide" => proc[p].st[proc[p].x] # "Begin"
  PROVE  \/ Becomes(p, Idle)
         \/ \E l \in LocalState : /\ Becomes(p, l) /\ l.st = proc[p].st /\ l.list = proc[p].list
                                  /\ l.pc \in {"close", "unlockAll", "decide"}
<1>0. /\ p \in Procs /\ p \notin Workers /\ proc[p] \in LocalState /\ ~Faulty(p)
      /\ CopyOK(p, proc[p], Entered, Excused, Over, Leaving)
  BY HandlersAssumption, LocalFacts, NoErrors DEF Procs, BranchInv, IInv, CopiesOK
<1>1. FindBranches(p) \/ CloseSession(p) \/ ReleaseOnCommit(p) \/ AlreadyDecided(p)
  BY <1>0 DEF ProcStep, Proceed, RecordDecision, DeferCommit, Workers, PickRetry, RecordRetry,
     ReleaseBranch, RemoveBranchSession, Recheck, FinalStatus, FinalUnlock, RemoveGlobalSession,
     RemoveLeftBranch, Walk, RefuseSaga, EndOfWalk, DropFailedBranch, QueueNotReady, Next2, Await,
     AnswerDone, AnswerRetryable, AnswerCannotRetry, AnswerError, SendCallback
<1>2. CASE FindBranches(p)
  <2> DEFINE rows == {b \in Branches : TxOf[b] \in proc[p].list /\ bs[b] # "None"}
             m == [proc[p] EXCEPT !.view = rows, !.failed = {b \in rows : bs[b] = "PhaseOneFailed"},
                                  !.pc = "close"]
  <2>1. m \in LocalState /\ m.st = proc[p].st /\ m.list = proc[p].list /\ m.pc = "close"
    BY <1>0 DEF LocalState, Labels
  <2>2. Becomes(p, m)
    BY <1>2 DEF FindBranches, ReadBranches
  <2> HIDE DEF m
  <2> QED  BY <2>1, <2>2
<1>3. CASE CloseSession(p)
  <2> DEFINE next == IF p \in Handlers /\ proc[p].dec = "commit" THEN "unlockAll" ELSE "decide"
             m == [proc[p] EXCEPT !.open = @ \ {proc[p].x}, !.pc = next]
  <2>1. m \in LocalState /\ m.st = proc[p].st /\ m.list = proc[p].list /\ m.pc = next
    BY <1>0 DEF LocalState, Labels
  <2>2. Becomes(p, m)
    BY <1>3 DEF CloseSession
  <2> HIDE DEF m
  <2> QED  BY <2>1, <2>2
<1>4. CASE ReleaseOnCommit(p)
  <2> DEFINE m == [proc[p] EXCEPT !.pc = "decide"]
  <2>1. m \in LocalState /\ m.st = proc[p].st /\ m.list = proc[p].list /\ m.pc = "decide"
    BY <1>0 DEF LocalState, Labels
  <2>2. Becomes(p, m)
    BY <1>4 DEF ReleaseOnCommit, Goto
  <2> HIDE DEF m
  <2> QED  BY <2>1, <2>2
<1>5. CASE AlreadyDecided(p)
  <2>1. proc[p].list \ {proc[p].x} = {}
    BY <1>0, <1>5 DEF CopyOK, AlreadyDecided
  <2> QED  BY <1>5, <2>1 DEF AlreadyDecided, Return
<1> QED  BY <1>1, <1>2, <1>3, <1>4, <1>5

\* No process adds to its list, or changes what it does with it.
SameWork(p, l) == l = Idle \/ (l.dec = proc[p].dec /\ l.list \subseteq proc[p].list)

LEMMA ReturnSame ==
  ASSUME IInv, NEW p \in Procs, Return(p)
  PROVE  SameWork(p, proc'[p])
<1> DEFINE x == proc[p].x
           rest == proc[p].list \ {x}
           l == [proc[p] EXCEPT !.pc = "pick", !.x = NoXid, !.list = rest, !.st[x] = "None",
                                !.open = @ \ {x}, !.view = @ \ BranchesOf(x),
                                !.failed = @ \ BranchesOf(x), !.todo = {},
                                !.cur = NoBranch, !.goal = "None"]
<1>1. proc[p] \in LocalState /\ proc \in [Procs -> LocalState]
  BY LocalFacts DEF IInv, ProcInv, ProcType
<1>2. l.dec = proc[p].dec /\ l.list = rest
  BY <1>1 DEF LocalState
<1> HIDE DEF l
<1>3. proc'[p] = IF rest = {} THEN Idle ELSE l
  BY <1>1 DEF Return, Becomes, l
<1> QED  BY <1>2, <1>3 DEF SameWork

LEMMA ProceedSame ==
  ASSUME IInv, NEW p \in Procs, Proceed(p)
  PROVE  SameWork(p, proc'[p])
<1>0. proc[p] \in LocalState /\ proc \in [Procs -> LocalState]
  BY LocalFacts DEF IInv, ProcInv, ProcType
<1>1. ASSUME NEW l, Becomes(p, l) PROVE proc'[p] = l
  BY <1>0, <1>1 DEF Becomes
<1>2. CASE \/ AlreadyDecided(p) \/ DeferCommit(p) \/ RecordRetry(p) \/ Return(p)
           \/ (p = "timeoutCheck" /\ RecordTimeout)
  BY <1>2, ReturnSame DEF AlreadyDecided, DeferCommit, RecordRetry, RecordTimeout
<1>3. CASE FindBranches(p) \/ CloseSession(p) \/ RemoveBranchSession(p) \/ FinalStatus(p)
  <2>1. CASE FindBranches(p)
    BY <1>0, <2>1 DEF FindBranches, ReadBranches, Becomes, LocalState, SameWork
  <2>2. CASE CloseSession(p)
    BY <1>0, <2>2 DEF CloseSession, Becomes, LocalState, SameWork
  <2>3. CASE RemoveBranchSession(p)
    BY <1>0, <2>3 DEF RemoveBranchSession, Becomes, LocalState, SameWork
  <2>4. CASE FinalStatus(p)
    <3> DEFINE m == [proc[p] EXCEPT !.st[proc[p].x] = proc[p].goal, !.pc = "finalUnlock"]
    <3>1. m.dec = proc[p].dec /\ m.list = proc[p].list
      BY <1>0 DEF LocalState
    <3>2. proc'[p] = m
      BY <1>1, <2>4 DEF FinalStatus
    <3> HIDE DEF m
    <3> QED  BY <3>1, <3>2 DEF SameWork
  <2> QED  BY <1>3, <2>1, <2>2, <2>3, <2>4
<1>4. CASE RecordDecision(p)
  <2> DEFINE x == proc[p].x
             s == IF proc[p].dec = "commit" THEN "Committing" ELSE "RollingBack"
             l == [proc[p] EXCEPT !.st[x] = s]
  <2>1. l \in LocalState /\ l.dec = proc[p].dec /\ l.list = proc[p].list
    BY <1>0 DEF LocalState, Status, CommitStatus, RollbackStatus
  <2>2. proc'[p] = [l EXCEPT !.pc = "async"] \/ proc'[p] = Driving(l, x)
    BY <1>1, <1>4 DEF RecordDecision
  <2> HIDE DEF l
  <2> QED  BY <2>1, <2>2 DEF Driving, LocalState, SameWork
<1>5. CASE \E x \in Xids : PickRetry(p, x) \/ (p = "timeoutCheck" /\ PickTimeout(x))
  <2>1. ASSUME NEW x \in Xids, PickTimeout(x), p = "timeoutCheck" PROVE SameWork(p, proc'[p])
    <3> DEFINE close == [proc[p] EXCEPT !.pc = "close", !.x = x]
               next == [proc[p] EXCEPT !.list = @ \ {x}, !.st[x] = "None", !.open = @ \ {x}]
    <3>1. close.dec = proc[p].dec /\ close.list = proc[p].list
      BY <1>0 DEF LocalState
    <3>2. next.dec = proc[p].dec /\ next.list \subseteq proc[p].list
      BY <1>0 DEF LocalState
    <3>3. Becomes(p, close) \/ Becomes(p, next) \/ Becomes(p, Idle)
      BY <2>1 DEF PickTimeout
    <3> HIDE DEF close, next
    <3> QED  BY <1>1, <3>1, <3>2, <3>3 DEF SameWork
  <2>2. ASSUME NEW x \in Xids, PickRetry(p, x) PROVE SameWork(p, proc'[p])
    <3> DEFINE skip == [proc[p] EXCEPT !.list = @ \ {x}, !.st[x] = "None", !.open = @ \ {x},
                                       !.view = @ \ BranchesOf(x), !.failed = @ \ BranchesOf(x)]
               drop == [proc[p] EXCEPT !.x = x,
                          !.pc = IF p = "retryRollingBack" /\ UnlockOnRetryTimeout
                                 THEN "finalUnlock" ELSE "finalSession"]
               drive == Driving(proc[p], x)
    <3>1. skip.dec = proc[p].dec /\ skip.list \subseteq proc[p].list
      BY <1>0 DEF LocalState
    <3>2. drop.dec = proc[p].dec /\ drop.list = proc[p].list
      BY <1>0 DEF LocalState
    <3>3. drive.dec = proc[p].dec /\ drive.list = proc[p].list
      BY <1>0 DEF LocalState, Driving
    <3>4. Becomes(p, skip) \/ Becomes(p, drop) \/ Becomes(p, drive) \/ Becomes(p, Idle)
      BY <2>2 DEF PickRetry
    <3> HIDE DEF skip, drop, drive
    <3> QED  BY <1>1, <3>1, <3>2, <3>3, <3>4 DEF SameWork
  <2> QED  BY <1>5, <2>1, <2>2
<1>6. CASE Goto(p, "decide") \/ Goto(p, "removeBranch") \/ Goto(p, "finalStatus")
           \/ Goto(p, "finalSession") \/ Goto(p, "finalBranches")
  BY <1>0, <1>6 DEF Goto, Becomes, LocalState, SameWork
<1>7. CASE \E b \in Branches : RemoveLeftBranch(p, b)
  <2> PICK b \in Branches : RemoveLeftBranch(p, b)
    BY <1>7
  <2>1. CASE Return(p)
    BY <2>1, ReturnSame
  <2>2. CASE Becomes(p, [proc[p] EXCEPT !.view = @ \ {b}])
    BY <1>0, <2>2 DEF Becomes, LocalState, SameWork
  <2> QED  BY <2>1, <2>2 DEF RemoveLeftBranch, Finished
<1> QED  BY <1>2, <1>3, <1>4, <1>5, <1>6, <1>7 DEF Proceed, ReleaseOnCommit, ReleaseBranch, Recheck,
            FinalUnlock, RemoveGlobalSession, Finished

LEMMA ProcSame ==
  ASSUME IInv, StoreWorks, NEW p \in Procs, ProcStep(p)
  PROVE  SameWork(p, proc'[p]) /\ proc[p].pc # "idle"
<1>0. proc[p] \in LocalState /\ proc \in [Procs -> LocalState] /\ ~Faulty(p)
  BY LocalFacts, NoErrors DEF IInv, ProcInv, ProcType
<1>1. proc[p].pc # "idle"
  BY <1>0 DEF ProcStep, Proceed, FindBranches, ReadBranches, CloseSession, ReleaseOnCommit,
     RecordDecision, AlreadyDecided, DeferCommit, RecordTimeout, PickTimeout, PickRetry,
     RecordRetry, ReleaseBranch, RemoveBranchSession, Recheck, FinalStatus, FinalUnlock,
     RemoveGlobalSession, RemoveLeftBranch, Walk, RefuseSaga, EndOfWalk, DropFailedBranch,
     QueueNotReady, Next2, Await, AnswerDone, AnswerRetryable, AnswerCannotRetry, AnswerError,
     SendCallback
<1>2. Return(p) => SameWork(p, proc'[p])
  BY ReturnSame
<1>3. ASSUME NEW b, Continue(p, b) PROVE SameWork(p, proc'[p])
  BY <1>0, <1>3 DEF Continue, Becomes, LocalState, SameWork
<1>4. ASSUME NEW s, NEW label, Becomes(p, [proc[p] EXCEPT !.pc = label, !.goal = s])
      PROVE  SameWork(p, proc'[p])
  BY <1>0, <1>4 DEF Becomes, LocalState, SameWork
<1>5. ASSUME NEW b, NotDone(p, b) PROVE SameWork(p, proc'[p])
  BY <1>2, <1>3, <1>4, <1>5 DEF NotDone, Finished
<1>6. CASE Walk(p)
  <2>1. CASE EndOfWalk(p)
    BY <1>0, <1>1, <2>1 DEF EndOfWalk, Becomes, LocalState, SameWork
  <2>2. ASSUME NEW b \in Branches, DropFailedBranch(p, b) PROVE SameWork(p, proc'[p])
    BY <1>0, <2>2 DEF DropFailedBranch, Becomes, LocalState, SameWork
  <2> QED  BY <1>1, <1>2, <1>5, <1>6, <2>1, <2>2 DEF Walk, RefuseSaga, QueueNotReady
<1>7. CASE Await(p)
  <2>1. CASE AnswerDone(p)
    BY <1>0, <1>1, <2>1 DEF AnswerDone, Goto, Becomes, LocalState, SameWork
  <2> QED  BY <1>1, <1>2, <1>3, <1>4, <1>5, <1>7, <2>1 DEF Await, AnswerRetryable, AnswerCannotRetry, AnswerError
<1>8. ASSUME NEW b \in Branches, SendCallback(p, b) PROVE SameWork(p, proc'[p])
  BY <1>0, <1>8 DEF SendCallback, Becomes, LocalState, SameWork
<1> QED  BY <1>0, <1>1, <1>6, <1>7, <1>8, ProceedSame DEF ProcStep

LEMMA DoomedStatus ==
  ASSUME BranchInv, [Next]_vars, NEW x \in Xids, tm[x] # "none", Doomed(x)
  PROVE  status'[x] \notin {"Begin"} \cup CommitStatus
<1>0. IInv /\ status \in [Xids -> Status] /\ "Begin" \notin CommitStatus
  BY DEF BranchInv, IInv, TypeOK, StoreType, CommitStatus
<1>1. status'[x] # "Begin"
  BY <1>0, TMSteps DEF Doomed
<1>2. ASSUME NEW p \in Procs, Proceed(p), status'[x] \in CommitStatus PROVE FALSE
  <2>1. /\ proc[p].x = x /\ proc[p].dec = "commit"
        /\ proc[p].pc \in Working \ {"close", "unlockAll"}
        /\ proc[p].pc = "decide" => proc[p].st[x] = "Begin"
    BY <1>0, <1>2, CommitWrites DEF Doomed
  <2>2. x \in proc[p].list
    BY <1>0, <2>1, WorkFacts DEF IInv
  <2>3. NoCommit(p, proc[p], x)
    BY DEF Doomed
  <2> QED  BY <2>1, <2>2, <2>3 DEF NoCommit, Working, Concluding
<1>3. CASE \E p \in Procs : ProcStep(p)
  BY <1>1, <1>2, <1>3, StatusKept DEF ProcStep, Doomed
<1>4. CASE ClientStep
  <2>1. ASSUME NEW y \in Xids, Begin(y) PROVE status'[x] = status[x]
    BY <1>0, <2>1 DEF Begin
  <2> QED  BY <1>4, <2>1 DEF ClientStep, Decide, Request, RequestError, FindSession, store, Doomed
<1>5. CASE EnvStep \/ (\E b \in Branches : BranchStep(b)) \/ (\E w \in Workers : Scan(w))
           \/ UNCHANGED vars
  <2>1. UNCHANGED status
    BY <1>5 DEF EnvStep, Elapse, Connect, Disconnect, Crash, BranchStep, RegisterFind, AcquireLock,
       AddBranchSession, ReportFind, ReportWrite, RegisterError, Scan, vars, store
  <2> QED  BY <2>1 DEF Doomed
<1> QED  BY <1>3, <1>4, <1>5 DEF Next

LEMMA DoomedProcs ==
  ASSUME BranchInv, StoreWorks, [Next]_vars, NEW x \in Xids, Doomed(x), NEW q \in Procs
  PROVE  NoCommit(q, proc'[q], x)
<1>0. /\ IInv /\ proc \in [Procs -> LocalState] /\ NoCommit(q, proc[q], x)
      /\ status[x] \notin {"Begin"} \cup CommitStatus
  BY DEF BranchInv, IInv, ProcInv, ProcType, Doomed
<1>1. CASE UNCHANGED proc
  BY <1>0, <1>1
<1>2. ASSUME NEW p, NEW l, Becomes(p, l), NoCommit(p, l, x) PROVE NoCommit(q, proc'[q], x)
  BY <1>0, <1>2 DEF Becomes
<1>3. NoCommit(q, Idle, x)
  BY DEF NoCommit, Idle
<1>4. CASE ClientStep
  <2>1. ASSUME NEW h \in Handlers, NEW y \in Xids, Request(h, y) PROVE NoCommit(q, proc'[q], x)
    <3> DEFINE l == [Idle EXCEPT !.pc = "branches", !.dec = tm[y], !.x = y, !.list = {y},
                                 !.st[y] = status[y], !.open = IF active[y] THEN {y} ELSE {}]
    <3>1. UNCHANGED proc \/ Becomes(h, l)
      BY <2>1 DEF Request, FindSession
    <3>2. l.pc = "branches" /\ l.list = {y} /\ l.st[y] = status[y]
      BY DEF Idle
    <3> HIDE DEF l
    <3>3. NoCommit(h, l, x)
      BY <1>0, <3>2 DEF NoCommit
    <3> QED  BY <1>1, <1>2, <3>1, <3>3
  <2>2. CASE \E y \in Xids : Begin(y) \/ \E d \in Decisions : Decide(y, d)
    BY <1>1, <2>2 DEF Begin, Decide
  <2> QED  BY <1>0, <1>4, <2>1, <2>2, NoErrors DEF ClientStep
<1>5. CASE EnvStep
  <2>1. CASE Crash
    BY <1>3, <2>1 DEF Crash
  <2> QED  BY <1>1, <1>5, <2>1 DEF EnvStep, Elapse, Connect, Disconnect
<1>6. CASE (\E b \in Branches : BranchStep(b)) \/ UNCHANGED vars
  BY <1>1, <1>6 DEF BranchStep, RegisterFind, AcquireLock, AddBranchSession, ReportFind,
     ReportWrite, RegisterError, vars
<1>7. ASSUME NEW w \in Workers, Scan(w) PROVE NoCommit(q, proc'[q], x)
  <2> DEFINE l == [Idle EXCEPT
                     !.pc = IF w = "timeoutCheck" THEN "pick" ELSE "branches",
                     !.dec = IF w \in {"timeoutCheck", "retryRollingBack"} THEN "rollback"
                             ELSE "commit",
                     !.list = Listed(w),
                     !.st = [y \in Xids |-> IF y \in Listed(w) THEN status[y] ELSE "None"],
                     !.open = {y \in Listed(w) : active[y]}]
  <2>1. /\ l.list = Listed(w)
        /\ l.dec = "commit" => w \notin {"timeoutCheck", "retryRollingBack"}
    BY DEF Idle
  <2>2. Becomes(w, l)
    BY <1>7 DEF Scan
  <2> HIDE DEF l
  <2>3. l.dec = "commit" => x \notin l.list
    BY <1>0, <2>1 DEF Listed, Workers, CommitStatus
  <2> QED  BY <1>2, <2>2, <2>3 DEF NoCommit
<1>8. ASSUME NEW p \in Procs, ProcStep(p) PROVE NoCommit(q, proc'[q], x)
  <2>1. PICK l : Becomes(p, l)
    <3>1. CASE Proceed(p)
      BY <3>1 DEF Proceed, FindBranches, ReadBranches, CloseSession, ReleaseOnCommit,
         RecordDecision, AlreadyDecided, DeferCommit, RecordTimeout, PickTimeout, PickRetry,
         RecordRetry, ReleaseBranch, RemoveBranchSession, Recheck, FinalStatus, FinalUnlock,
         RemoveGlobalSession, RemoveLeftBranch, Goto, Finished, Return
    <3>2. CASE ~Proceed(p)
      BY <1>0, <1>8, <3>2, NoErrors DEF ProcStep, Walk, RefuseSaga, EndOfWalk, DropFailedBranch,
         QueueNotReady, NotDone, Continue, Await, AnswerDone, AnswerRetryable, AnswerCannotRetry,
         AnswerError, SendCallback, Goto, Finished, Return
    <3> QED  BY <3>1, <3>2
  <2>2. proc'[p] = l
    BY <1>0, <2>1 DEF Becomes
  <2>3. NoCommit(p, l, x)
    <3> SUFFICES ASSUME l.pc # "idle", l.dec = "commit", x \in l.list
                 PROVE  p \in Handlers /\ l.pc \in {"close", "unlockAll", "decide"} /\ l.st[x] # "Begin"
      BY DEF NoCommit
    <3>1. proc[p].dec = "commit" /\ x \in proc[p].list /\ proc[p].pc # "idle"
      BY <1>0, <1>8, <2>2, ProcSame DEF SameWork, Idle
    <3>2. /\ p \in Handlers /\ proc[p].pc \in {"branches", "close", "unlockAll", "decide"}
          /\ proc[p].st[x] # "Begin"
      BY <3>1 DEF Doomed, NoCommit
    <3>3. proc[p].x = x
      BY <3>1, <3>2 DEF BranchInv, CopiesOK, CopyOK
    <3>4. ~Becomes(p, Idle)
      BY <1>0, <2>2 DEF Becomes, Idle
    <3>5. PICK m \in LocalState : /\ Becomes(p, m) /\ m.st = proc[p].st /\ m.list = proc[p].list
                                  /\ m.pc \in {"close", "unlockAll", "decide"}
      BY <1>8, <3>2, <3>3, <3>4, CommitMoves
    <3>6. m = l
      BY <1>0, <2>2, <3>5 DEF Becomes
    <3> QED  BY <3>2, <3>5, <3>6
  <2> QED  BY <1>2, <2>1, <2>3
<1> QED  BY <1>4, <1>5, <1>6, <1>7, <1>8 DEF Next

-----------------------------------------------------------------------------
(* What is known stays known. *)

Advances == /\ Entered \subseteq Entered' /\ Excused \subseteq Excused'
            /\ Over \subseteq Over' /\ Leaving \subseteq Leaving'

LEMMA NextAdvances ==
  ASSUME BranchInv, StoreWorks, [Next]_vars
  PROVE  Advances
<1>0. IInv /\ AwaitedOK /\ Lasting
  BY NextLasting DEF BranchInv
<1>1. \A b \in Branches : TxOf[b] \in Xids
  BY TopologyAssumption
<1>2. \A x \in Xids : Pardoned(x) => Pardoned(x)'
  BY <1>0 DEF Pardoned, Lasting, BranchesOf
<1>3. Excused \subseteq Excused'
  BY <1>0, <1>1, <1>2 DEF Excused, Lasting, Entered
<1>4. ASSUME NEW x \in Leaving PROVE x \in Leaving'
  <2>1. x \in Xids /\ tm[x] # "none" /\ tm'[x] # "none"
    BY <1>0, <1>4 DEF Leaving, Lasting, Decided, Decisions
  <2>2. Decided(x) => Decided(x)'
    BY <1>0, <2>1, GoneStays
  <2>3. status[x] # "Begin" => status'[x] # "Begin"
    BY <1>0, <2>1, TMSteps
  <2> QED  BY <1>4, <2>1, <2>2, <2>3 DEF Leaving, Decided
<1>5. ASSUME NEW x \in Over PROVE x \in Over'
  <2>1. x \in Xids /\ tm[x] # "none" /\ tm'[x] # "none"
    BY <1>0, <1>5 DEF Over, Lasting
  <2>2. CASE Doomed(x)
    <3>1. Doomed(x)'
      BY <2>1, <2>2, DoomedStatus, DoomedProcs DEF Doomed
    <3> QED  BY <2>1, <3>1 DEF Over
  <2>3. CASE Decided(x) /\ \A b \in BranchesOf(x) : bs[b] = "None"
    <3>1. Decided(x)'
      BY <1>0, <2>1, <2>3, GoneStays
    <3>2. \A b \in BranchesOf(x) : bs'[b] = "None"
      BY <1>0, <2>3, BranchGone DEF BranchesOf
    <3> QED  BY <2>1, <3>1, <3>2 DEF Over, BranchesOf, Decided
  <2> QED  BY <1>2, <1>5, <2>1, <2>2, <2>3 DEF Over
<1> QED  BY <1>0, <1>3, <1>4, <1>5 DEF Advances, Lasting

-----------------------------------------------------------------------------
(* CopiesOK: what is left to show of each step is the new state of its process. *)

Fits(p, l) == CopyOK(p, l, Entered', Excused', Over', Leaving')

LEMMA CopyFacts ==
  ASSUME BranchInv, NEW p \in Procs
  PROVE  /\ proc[p] \in LocalState /\ proc \in [Procs -> LocalState]
         /\ CopyOK(p, proc[p], Entered, Excused, Over, Leaving)
  BY LocalFacts DEF BranchInv, IInv, ProcInv, ProcType, CopiesOK

LEMMA CopyStays ==
  ASSUME BranchInv, Advances, NEW p \in Procs
  PROVE  Fits(p, proc[p])
  BY CopyFacts DEF Fits, CopyOK, Advances

LEMMA CopyBecomes ==
  ASSUME BranchInv, Advances, NEW p \in Procs, NEW l, Becomes(p, l), Fits(p, l)
  PROVE  CopiesOK'
<1>1. ASSUME NEW q \in Procs PROVE Fits(q, proc'[q])
  <2>1. proc'[q] = IF q = p THEN l ELSE proc[q]
    BY CopyFacts DEF Becomes
  <2> QED  BY <2>1, CopyStays
<1> QED  BY <1>1 DEF CopiesOK, Fits

LEMMA CopyKeeps ==
  ASSUME BranchInv, Advances, UNCHANGED proc
  PROVE  CopiesOK'
  BY CopyStays DEF CopiesOK, Fits

\* The labels at which no branch is at hand.
Calm == Labels \ (Walking \cup Ending)

LEMMA CalmLabels ==
  /\ {"idle", "branches", "pick", "close", "unlockAll", "decide", "async", "retryStatus",
      "errorStatus", "recheckBranches"} \subseteq Calm
  BY DEF Calm, Labels, Walking, Ending

\* A step of p to such a label, with no more in hand than before.
LEMMA CalmCopy ==
  ASSUME BranchInv, Advances, NEW p \in Procs, NEW l, Becomes(p, l), l.pc \in Calm,
         l.list \subseteq proc[p].list, l.view \subseteq proc[p].view,
         l.failed \subseteq proc[p].failed,
         p \in Handlers /\ l.pc # "idle" => l.list = {l.x}
  PROVE  CopiesOK'
<1>1. CopyOK(p, proc[p], Entered, Excused, Over, Leaving)
  BY CopyFacts
<1>2. Fits(p, l)
  BY <1>1 DEF Fits, CopyOK, Advances, Calm, Walking
<1> QED  BY <1>2, CopyBecomes

LEMMA IdleCopy ==
  ASSUME BranchInv, Advances, NEW p \in Procs, Becomes(p, Idle)
  PROVE  CopiesOK'
<1>1. Idle.pc = "idle" /\ Idle.list = {} /\ Idle.view = {} /\ Idle.failed = {}
  BY DEF Idle
<1> QED  BY <1>1, CalmLabels, CalmCopy

\* A handler has one transaction, and ends with it.
LEMMA ReturnCopy ==
  ASSUME BranchInv, Advances, NEW p \in Procs, Return(p), proc[p].pc # "idle"
  PROVE  CopiesOK'
<1> DEFINE x == proc[p].x
           rest == proc[p].list \ {x}
           l == [proc[p] EXCEPT !.pc = "pick", !.x = NoXid, !.list = rest, !.st[x] = "None",
                                !.open = @ \ {x}, !.view = @ \ BranchesOf(x),
                                !.failed = @ \ BranchesOf(x), !.todo = {},
                                !.cur = NoBranch, !.goal = "None"]
<1>1. proc[p] \in LocalState /\ (p \in Handlers => proc[p].list = {x})
  BY CopyFacts DEF CopyOK
<1>2. /\ l.pc = "pick" /\ l.list = rest
      /\ l.view \subseteq proc[p].view /\ l.failed \subseteq proc[p].failed
  BY <1>1 DEF LocalState
<1>3. Becomes(p, IF rest = {} THEN Idle ELSE l)
  BY DEF Return
<1> HIDE DEF l
<1>4. CASE rest = {}
  BY <1>3, <1>4, IdleCopy
<1>5. CASE rest # {}
  BY <1>1, <1>2, <1>3, <1>5, CalmLabels, CalmCopy
<1> QED  BY <1>4, <1>5

\* The walk begins with all branches of the copy.
LEMMA DrivingCopy ==
  ASSUME BranchInv, Advances, NEW p \in Procs, NEW l \in LocalState, NEW x,
         l.list = proc[p].list, l.view = proc[p].view, l.failed = proc[p].failed,
         p \in Handlers => l.list = {x},
         Becomes(p, Driving(l, x))
  PROVE  CopiesOK'
<1> DEFINE m == Driving(l, x)
<1>1. /\ m.pc = "drive" /\ m.view = l.view /\ m.failed = l.failed /\ m.list = l.list /\ m.x = x
      /\ m.todo = l.view \cap BranchesOf(x)
  BY DEF Driving, LocalState
<1>2. CopyOK(p, proc[p], Entered, Excused, Over, Leaving)
  BY CopyFacts
<1> HIDE DEF m
<1>3. Fits(p, m)
  BY <1>1, <1>2 DEF Fits, CopyOK, Advances, Walking, Ending
<1> QED  BY <1>3, CopyBecomes DEF m

\* The next branch of the walk; one that failed in phase one may go at once.
LEMMA ChooseCopy ==
  ASSUME BranchInv, Advances, NEW p \in Procs, NEW b \in Branches, b \in proc[p].todo,
         proc[p].pc = "drive", NEW label \in {"await", "unlockBranch"},
         label = "unlockBranch" => b \in proc[p].failed,
         Becomes(p, [proc[p] EXCEPT !.pc = label, !.cur = b])
  PROVE  CopiesOK'
<1> DEFINE m == [proc[p] EXCEPT !.pc = label, !.cur = b]
<1>1. proc[p] \in LocalState /\ CopyOK(p, proc[p], Entered, Excused, Over, Leaving)
  BY CopyFacts
<1>2. b \in BranchesOf(proc[p].x)
  BY LocalFacts DEF BranchInv, IInv, LocalOK, Walking
<1>3. /\ m.pc = label /\ m.view = proc[p].view /\ m.failed = proc[p].failed /\ m.x = proc[p].x
      /\ m.todo = proc[p].todo /\ m.cur = b /\ m.dec = proc[p].dec /\ m.list = proc[p].list
  BY <1>1 DEF LocalState
<1> HIDE DEF m
<1>4. Fits(p, m)
  BY <1>1, <1>2, <1>3 DEF Fits, CopyOK, Advances, Walking, Ending
<1> QED  BY <1>4, CopyBecomes DEF m

\* A commit goes on without a branch, which stays in the copy.
LEMMA ContinueCopy ==
  ASSUME BranchInv, Advances, NEW p \in Procs, NEW b, Continue(p, b), proc[p].dec = "commit",
         proc[p].pc \in {"drive", "await"}
  PROVE  CopiesOK'
<1> DEFINE m == [proc[p] EXCEPT !.pc = "drive", !.todo = @ \ {b}, !.cur = NoBranch]
<1>1. proc[p] \in LocalState /\ CopyOK(p, proc[p], Entered, Excused, Over, Leaving)
  BY CopyFacts
<1>2. /\ m.pc = "drive" /\ m.view = proc[p].view /\ m.failed = proc[p].failed /\ m.x = proc[p].x
      /\ m.todo \subseteq proc[p].todo /\ m.dec = "commit" /\ m.list = proc[p].list
  BY <1>1 DEF LocalState
<1> HIDE DEF m
<1>3. Fits(p, m)
  BY <1>1, <1>2 DEF Fits, CopyOK, Advances, Walking, Ending
<1> QED  BY <1>3, CopyBecomes DEF Continue, m

\* A walk that ends with a status to be recorded for the workers.
LEMMA RecordCopy ==
  ASSUME BranchInv, Advances, NEW p \in Procs, NEW label \in {"retryStatus", "errorStatus"}, NEW s,
         proc[p].pc # "idle", Becomes(p, [proc[p] EXCEPT !.pc = label, !.goal = s])
  PROVE  CopiesOK'
<1> DEFINE m == [proc[p] EXCEPT !.pc = label, !.goal = s]
<1>1. proc[p] \in LocalState /\ (p \in Handlers => proc[p].list = {proc[p].x})
  BY CopyFacts DEF CopyOK
<1>2. /\ m.pc = label /\ m.view = proc[p].view /\ m.failed = proc[p].failed /\ m.x = proc[p].x
      /\ m.list = proc[p].list
  BY <1>1 DEF LocalState
<1>3. Becomes(p, m)
  OBVIOUS
<1> HIDE DEF m
<1> QED  BY <1>1, <1>2, <1>3, CalmLabels, CalmCopy

LEMMA NotDoneCopy ==
  ASSUME BranchInv, Advances, NEW p \in Procs, NEW b, NotDone(p, b),
         proc[p].pc \in {"drive", "await"}
  PROVE  CopiesOK'
<1>1. CASE Becomes(p, [proc[p] EXCEPT !.pc = "retryStatus", !.goal = RetryGoal(p)])
  BY <1>1, RecordCopy
<1>2. CASE Continue(p, b) /\ proc[p].dec = "commit"
  BY <1>2, ContinueCopy
<1>3. CASE Return(p)
  BY <1>3, ReturnCopy
<1> QED  BY <1>1, <1>2, <1>3 DEF NotDone, Finished

-----------------------------------------------------------------------------
(* CopiesOK: the steps of a process, one by one. *)

\* Once a transaction is pardoned, whoever works on it may end it.
LEMMA PardonEnds ==
  ASSUME BranchInv, Advances, NEW p \in Procs, p # "timeoutCheck", NEW x \in proc[p].list,
         Pardoned(x)'
  PROVE  x \in Over' /\ proc[p].view \cap BranchesOf(x) \subseteq Excused'
<1>1. /\ proc[p].list \subseteq Leaving' /\ proc[p].view \subseteq Entered'
  BY CopyFacts DEF CopyOK, Advances
<1>2. x \in Xids /\ tm'[x] # "none"
  BY <1>1 DEF Leaving, Decided, Decisions
<1> QED  BY <1>1, <1>2 DEF Over, Excused, BranchesOf

\* What is read of the branches: each has been entered, one that failed may go.
LEMMA FindBranchesCopy ==
  ASSUME BranchInv, Advances, NEW p \in Procs, FindBranches(p)
  PROVE  CopiesOK'
<1> DEFINE rows == {b \in Branches : TxOf[b] \in proc[p].list /\ bs[b] # "None"}
           bad == {b \in rows : bs[b] = "PhaseOneFailed"}
           m == [proc[p] EXCEPT !.view = rows, !.failed = bad,
                                !.pc = IF p \in Handlers THEN "close" ELSE "pick"]
<1>1. /\ proc[p] \in LocalState /\ CopyOK(p, proc[p], Entered, Excused, Over, Leaving)
      /\ proc[p].pc = "branches"
  BY CopyFacts DEF FindBranches, ReadBranches
<1>2. /\ m.view = rows /\ m.failed = bad /\ m.pc \in {"close", "pick"}
      /\ m.list = proc[p].list /\ m.x = proc[p].x
  BY <1>1 DEF LocalState
<1>3. rows \subseteq Entered /\ bad \subseteq Excused
  BY DEF BranchInv, EnteredOK, Excused
<1>4. Becomes(p, m)
  BY DEF FindBranches, ReadBranches
<1> HIDE DEF m, rows, bad
<1>5. Fits(p, m)
  BY <1>1, <1>2, <1>3 DEF Fits, CopyOK, Advances, Walking, Ending
<1> QED  BY <1>4, <1>5, CopyBecomes

LEMMA CloseSessionCopy ==
  ASSUME BranchInv, Advances, NEW p \in Procs, CloseSession(p)
  PROVE  CopiesOK'
<1> DEFINE next == IF p \in Handlers /\ proc[p].dec = "commit" THEN "unlockAll" ELSE "decide"
           m == [proc[p] EXCEPT !.open = @ \ {proc[p].x}, !.pc = next]
<1>1. proc[p] \in LocalState /\ (p \in Handlers => proc[p].list = {proc[p].x})
  BY CopyFacts DEF CloseSession, CopyOK
<1>2. /\ m.pc = next /\ m.view = proc[p].view /\ m.failed = proc[p].failed
      /\ m.list = proc[p].list /\ m.x = proc[p].x
  BY <1>1 DEF LocalState
<1>3. Becomes(p, m)
  BY DEF CloseSession
<1> HIDE DEF m
<1> QED  BY <1>1, <1>2, <1>3, CalmLabels, CalmCopy

LEMMA RecordDecisionCopy ==
  ASSUME BranchInv, Advances, NEW p \in Procs, RecordDecision(p)
  PROVE  CopiesOK'
<1> DEFINE x == proc[p].x
           s == IF proc[p].dec = "commit" THEN "Committing" ELSE "RollingBack"
           l == [proc[p] EXCEPT !.st[x] = s]
           m == [l EXCEPT !.pc = "async"]
<1>1. proc[p] \in LocalState /\ (p \in Handlers => proc[p].list = {x})
  BY CopyFacts DEF RecordDecision, CopyOK
<1>2. /\ l \in LocalState /\ l.view = proc[p].view /\ l.failed = proc[p].failed
      /\ l.list = proc[p].list /\ l.x = x
  BY <1>1 DEF LocalState, Status, CommitStatus, RollbackStatus
<1>3. /\ m.pc = "async" /\ m.view = proc[p].view /\ m.failed = proc[p].failed
      /\ m.list = proc[p].list /\ m.x = x
  BY <1>2 DEF LocalState
<1>4. Becomes(p, m) \/ Becomes(p, Driving(l, x))
  BY DEF RecordDecision
<1> HIDE DEF m
<1>5. CASE Becomes(p, m)
  BY <1>1, <1>3, <1>5, CalmLabels, CalmCopy
<1> HIDE DEF l
<1>6. CASE Becomes(p, Driving(l, x))
  BY <1>1, <1>2, <1>6, DrivingCopy
<1> QED  BY <1>4, <1>5, <1>6

LEMMA PickTimeoutCopy ==
  ASSUME BranchInv, Advances, NEW x \in Xids, PickTimeout(x)
  PROVE  CopiesOK'
<1> DEFINE p == "timeoutCheck"
           close == [proc[p] EXCEPT !.pc = "close", !.x = x]
           next == [proc[p] EXCEPT !.list = @ \ {x}, !.st[x] = "None", !.open = @ \ {x}]
<1>1. p \in Procs /\ p \notin Handlers
  BY HandlersAssumption DEF Procs, Workers
<1>2. proc[p] \in LocalState /\ proc[p].pc = "pick"
  BY <1>1, CopyFacts DEF PickTimeout
<1>3. /\ close.pc = "close" /\ close.view = proc[p].view /\ close.failed = proc[p].failed
      /\ close.list = proc[p].list
  BY <1>2 DEF LocalState
<1>4. /\ next.pc = "pick" /\ next.view = proc[p].view /\ next.failed = proc[p].failed
      /\ next.list \subseteq proc[p].list
  BY <1>2 DEF LocalState
<1>5. Becomes(p, close) \/ Becomes(p, next) \/ Becomes(p, Idle)
  BY DEF PickTimeout
<1> HIDE DEF close, next
<1>6. CASE Becomes(p, close)
  BY <1>1, <1>3, <1>6, CalmLabels, CalmCopy
<1>7. CASE Becomes(p, next)
  BY <1>1, <1>4, <1>7, CalmLabels, CalmCopy
<1> QED  BY <1>1, <1>5, <1>6, <1>7, IdleCopy

\* A worker gives a transaction up only when its retries have run out.
LEMMA PickRetryCopy ==
  ASSUME BranchInv, Advances, NEW p \in Procs, NEW x \in Xids, PickRetry(p, x)
  PROVE  CopiesOK'
<1> DEFINE skip == [proc[p] EXCEPT !.list = @ \ {x}, !.st[x] = "None", !.open = @ \ {x},
                                   !.view = @ \ BranchesOf(x), !.failed = @ \ BranchesOf(x)]
           label == IF p = "retryRollingBack" /\ UnlockOnRetryTimeout
                    THEN "finalUnlock" ELSE "finalSession"
           drop == [proc[p] EXCEPT !.x = x, !.pc = label]
<1>1. p \notin Handlers /\ p # "timeoutCheck"
  BY HandlersAssumption DEF PickRetry
<1>2. /\ proc[p] \in LocalState /\ proc[p].pc = "pick" /\ x \in proc[p].list
      /\ CopyOK(p, proc[p], Entered, Excused, Over, Leaving)
  BY CopyFacts DEF PickRetry
<1>3. /\ skip.pc = "pick" /\ skip.view \subseteq proc[p].view /\ skip.failed \subseteq proc[p].failed
      /\ skip.list \subseteq proc[p].list
  BY <1>2 DEF LocalState
<1>4. /\ drop.pc = label /\ drop.view = proc[p].view /\ drop.failed = proc[p].failed
      /\ drop.list = proc[p].list /\ drop.x = x
  BY <1>2 DEF LocalState
<1>5. \/ Becomes(p, Idle) \/ Becomes(p, skip) \/ Becomes(p, Driving(proc[p], x))
      \/ Becomes(p, drop) /\ "retry" \in past[x] /\ UNCHANGED past
  BY DEF PickRetry, GivesUp, faults
<1> HIDE DEF skip, drop
<1>6. CASE Becomes(p, skip)
  BY <1>1, <1>3, <1>6, CalmLabels, CalmCopy
<1>7. CASE Becomes(p, Driving(proc[p], x))
  BY <1>1, <1>2, <1>7, DrivingCopy
<1>8. CASE Becomes(p, drop) /\ "retry" \in past[x] /\ UNCHANGED past
  <2>1. x \in Over' /\ proc[p].view \cap BranchesOf(x) \subseteq Excused'
    BY <1>1, <1>2, <1>8, PardonEnds DEF Pardoned
  <2>2. Fits(p, drop)
    BY <1>1, <1>2, <1>4, <2>1 DEF Fits, CopyOK, Advances, Walking, Ending
  <2> QED  BY <1>8, <2>2, CopyBecomes
<1> QED  BY <1>5, <1>6, <1>7, <1>8, IdleCopy

\* A branch whose row is deleted leaves the copy.
LEMMA RemoveBranchCopy ==
  ASSUME BranchInv, Advances, NEW p \in Procs, RemoveBranchSession(p)
  PROVE  CopiesOK'
<1> DEFINE b == proc[p].cur
           m == [proc[p] EXCEPT !.pc = "drive", !.view = @ \ {b}, !.todo = @ \ {b},
                                !.cur = NoBranch]
<1>1. /\ proc[p] \in LocalState /\ proc[p].pc = "removeBranch"
      /\ CopyOK(p, proc[p], Entered, Excused, Over, Leaving)
  BY CopyFacts DEF RemoveBranchSession
<1>2. /\ m.pc = "drive" /\ m.view = proc[p].view \ {b} /\ m.todo = proc[p].todo \ {b}
      /\ m.failed = proc[p].failed /\ m.x = proc[p].x /\ m.dec = proc[p].dec
      /\ m.list = proc[p].list
  BY <1>1 DEF LocalState
<1>3. Becomes(p, m)
  BY DEF RemoveBranchSession
<1> HIDE DEF m
<1>4. Fits(p, m)
  BY <1>1, <1>2 DEF Fits, CopyOK, Advances, Walking, Ending
<1> QED  BY <1>3, <1>4, CopyBecomes

\* From one label to another, with the same branches in hand.
LEMMA GotoCopy ==
  ASSUME BranchInv, Advances, NEW p \in Procs, proc[p].pc # "idle",
         NEW label \in {"decide", "unlockBranch", "removeBranch", "finalStatus", "finalSession",
                        "finalBranches"},
         Goto(p, label),
         label \in {"unlockBranch", "removeBranch"} =>
           proc[p].pc \in {"await", "unlockBranch"} /\ proc[p].cur \in Excused',
         label \in Ending =>
           proc[p].x \in Over' /\ proc[p].view \cap BranchesOf(proc[p].x) \subseteq Excused'
  PROVE  CopiesOK'
<1> DEFINE m == [proc[p] EXCEPT !.pc = label]
<1>1. proc[p] \in LocalState /\ CopyOK(p, proc[p], Entered, Excused, Over, Leaving)
  BY CopyFacts
<1>2. /\ m.pc = label /\ m.view = proc[p].view /\ m.failed = proc[p].failed /\ m.x = proc[p].x
      /\ m.todo = proc[p].todo /\ m.cur = proc[p].cur /\ m.dec = proc[p].dec
      /\ m.list = proc[p].list
  BY <1>1 DEF LocalState
<1> HIDE DEF m
<1>3. Fits(p, m)
  BY <1>1, <1>2 DEF Fits, CopyOK, Advances, Walking, Ending
<1> QED  BY <1>3, CopyBecomes DEF Goto, m

\* The walk is over and the session is gone: somebody else had grounds to end the transaction.
LEMMA EndOfWalkCopy ==
  ASSUME BranchInv, Advances, NEW p \in Procs, EndOfWalk(p)
  PROVE  CopiesOK'
<1> DEFINE x == proc[p].x
           s == IF proc[p].dec = "commit" THEN "Committed"
                ELSE IF IsTimeoutGlobalStatus(p) THEN "TimeoutRolledBack" ELSE "RolledBack"
           label == IF status[x] = "None" THEN "finalStatus" ELSE "recheckBranches"
           m == [proc[p] EXCEPT !.goal = s, !.pc = label]
<1>0. /\ IInv /\ GoneOK /\ proc[p] \in LocalState /\ proc[p].pc = "drive" /\ proc[p].todo = {}
      /\ CopyOK(p, proc[p], Entered, Excused, Over, Leaving)
  BY CopyFacts DEF BranchInv, EndOfWalk
<1>1. /\ m.pc = label /\ m.view = proc[p].view /\ m.failed = proc[p].failed /\ m.x = x
      /\ m.list = proc[p].list
  BY <1>0 DEF LocalState
<1>2. Becomes(p, m)
  BY DEF EndOfWalk
<1> HIDE DEF m
<1>3. CASE status[x] = "None"
  <2>1. x \in proc[p].list /\ x \in Xids /\ p # "timeoutCheck"
    BY <1>0, WorkFacts, LocalFacts DEF IInv, Working, LocalOK
  <2>2. tm[x] # "none"
    BY <1>0, <2>1 DEF CopyOK, Leaving, Decided, Decisions
  <2>3. x \in Over
    BY <1>0, <1>3, <2>1, <2>2 DEF GoneOK
  <2>4. proc[p].view \cap BranchesOf(x) \subseteq Excused
    <3>1. CASE Pardoned(x)
      BY <1>0, <3>1 DEF CopyOK, Excused, BranchesOf
    <3>2. CASE Doomed(x)
      <4>1. NoCommit(p, proc[p], x)
        BY <3>2 DEF Doomed
      <4>2. proc[p].dec = "rollback"
        BY <1>0, <2>1, <4>1 DEF NoCommit, LocalState, Decisions
      <4> QED  BY <1>0, <4>2 DEF CopyOK, Walking
    <3>3. CASE \A b \in BranchesOf(x) : bs[b] = "None"
      BY <1>0, <3>3 DEF CopyOK, Excused
    <3> QED  BY <2>3, <3>1, <3>2, <3>3 DEF Over
  <2>5. Fits(p, m)
    BY <1>0, <1>1, <1>3, <2>3, <2>4 DEF Fits, CopyOK, Advances, Walking, Ending
  <2> QED  BY <1>2, <2>5, CopyBecomes
<1>4. CASE status[x] # "None"
  <2>1. p \in Handlers => proc[p].list = {x}
    BY <1>0 DEF CopyOK
  <2> QED  BY <1>1, <1>2, <1>4, <2>1, CalmLabels, CalmCopy
<1> QED  BY <1>3, <1>4

\* The second look finds no branch: the TM has decided, or the TC rolls back and nobody else
\* will commit.
LEMMA RecheckCopy ==
  ASSUME BranchInv, Advances, NEW p \in Procs, Recheck(p)
  PROVE  CopiesOK'
<1> DEFINE x == proc[p].x
<1>0. /\ IInv /\ proc[p].pc = "recheckBranches"
      /\ CopyOK(p, proc[p], Entered, Excused, Over, Leaving)
  BY CopyFacts DEF BranchInv, Recheck
<1>1. CASE Return(p)
  BY <1>0, <1>1, ReturnCopy
<1>2. CASE Goto(p, "finalStatus") /\ \A b \in BranchesOf(x) : bs[b] = "None"
  <2>1. x \in proc[p].list /\ x \in Xids /\ p # "timeoutCheck"
    BY <1>0, WorkFacts, LocalFacts DEF IInv, Working, Concluding, LocalOK
  <2>2. tm[x] # "none" /\ (Decided(x) \/ status[x] # "Begin")
    BY <1>0, <2>1 DEF CopyOK, Leaving, Decided, Decisions
  <2>3. x \in Over
    <3>1. CASE Decided(x)
      BY <1>2, <2>1, <2>2, <3>1 DEF Over
    <3>2. CASE ~Decided(x)
      <4>1. status[x] \notin CommitStatus
        BY <1>0, <2>1, <3>2 DEF IInv, StatusMandate, StatusOf, Mandate, Decided, Decisions
      <4>2. ASSUME NEW q \in Procs PROVE NoCommit(q, proc[q], x)
        <5>1. LocalOK(q, proc[q]) /\ MandateOf(q, proc[q])
          BY <1>0, LocalFacts DEF IInv
        <5> QED  BY <3>2, <5>1 DEF NoCommit, LocalOK, MandateOf, Mandate, Decided, Decisions
      <4> QED  BY <2>1, <2>2, <3>2, <4>1, <4>2 DEF Over, Doomed
    <3> QED  BY <3>1, <3>2
  <2>4. proc[p].view \cap BranchesOf(x) \subseteq Excused
    BY <1>0, <1>2 DEF CopyOK, Excused
  <2> QED  BY <1>0, <1>2, <2>3, <2>4, GotoCopy DEF Advances
<1> QED  BY <1>1, <1>2 DEF Recheck, Finished

LEMMA FinalStatusCopy ==
  ASSUME BranchInv, Advances, NEW p \in Procs, FinalStatus(p)
  PROVE  CopiesOK'
<1> DEFINE l == [proc[p] EXCEPT !.st[proc[p].x] = proc[p].goal]
           m == [l EXCEPT !.pc = "finalUnlock"]
<1>0. /\ proc[p] \in LocalState /\ proc[p].pc = "finalStatus"
      /\ CopyOK(p, proc[p], Entered, Excused, Over, Leaving)
  BY CopyFacts DEF FinalStatus
<1>1. /\ m.pc = "finalUnlock" /\ m.view = proc[p].view /\ m.failed = proc[p].failed
      /\ m.x = proc[p].x /\ m.list = proc[p].list
  BY <1>0 DEF LocalState
<1>2. Becomes(p, m)
  BY DEF FinalStatus
<1> HIDE DEF m
<1>3. Fits(p, m)
  BY <1>0, <1>1 DEF Fits, CopyOK, Advances, Walking, Ending
<1> QED  BY <1>2, <1>3, CopyBecomes

LEMMA RemoveLeftCopy ==
  ASSUME BranchInv, Advances, NEW p \in Procs, NEW b \in Branches, RemoveLeftBranch(p, b)
  PROVE  CopiesOK'
<1> DEFINE m == [proc[p] EXCEPT !.view = @ \ {b}]
<1>0. /\ proc[p] \in LocalState /\ proc[p].pc = "finalBranches"
      /\ CopyOK(p, proc[p], Entered, Excused, Over, Leaving)
  BY CopyFacts DEF RemoveLeftBranch
<1>1. /\ m.pc = "finalBranches" /\ m.view = proc[p].view \ {b} /\ m.failed = proc[p].failed
      /\ m.x = proc[p].x /\ m.list = proc[p].list
  BY <1>0 DEF LocalState
<1>2. Return(p) \/ Becomes(p, m)
  BY DEF RemoveLeftBranch, Finished
<1> HIDE DEF m
<1>3. Fits(p, m)
  BY <1>0, <1>1 DEF Fits, CopyOK, Advances, Walking, Ending
<1> QED  BY <1>0, <1>2, <1>3, CopyBecomes, ReturnCopy

\* A refusal for good ends the transaction, or the commit goes on without the branch.
LEMMA CannotRetryCopy ==
  ASSUME BranchInv, Advances, NEW p \in Procs, AnswerCannotRetry(p)
  PROVE  CopiesOK'
<1> DEFINE x == proc[p].x
           m == [proc[p] EXCEPT !.pc = "finalStatus", !.goal = FailedGoal(p)]
<1>0. /\ IInv /\ proc[p] \in LocalState /\ proc[p].pc = "await"
      /\ CopyOK(p, proc[p], Entered, Excused, Over, Leaving)
  BY CopyFacts DEF BranchInv, AnswerCannotRetry
<1>1. /\ m.pc = "finalStatus" /\ m.view = proc[p].view /\ m.failed = proc[p].failed
      /\ m.x = x /\ m.list = proc[p].list
  BY <1>0 DEF LocalState
<1>2. Becomes(p, m) \/ (Continue(p, proc[p].cur) /\ proc[p].dec = "commit")
  BY DEF AnswerCannotRetry
<1> HIDE DEF m
<1>3. CASE Becomes(p, m)
  <2> PICK y : y = x
    OBVIOUS
  <2>1. y \in proc[p].list /\ p # "timeoutCheck" /\ proc[p].dec \in Decisions
    BY <1>0, WorkFacts, LocalFacts DEF IInv, Working, LocalOK
  <2>2. <<proc[p].dec, proc[p].cur>> \in refused' /\ proc[p].cur \in BranchesOf(y)
    BY <1>0 DEF AnswerCannotRetry, CopyOK
  <2>3. Pardoned(y)'
    BY <2>1, <2>2 DEF Pardoned, BranchesOf
  <2>4. y \in Over' /\ proc[p].view \cap BranchesOf(y) \subseteq Excused'
    BY <2>1, <2>3, PardonEnds
  <2>5. Fits(p, m)
    BY <1>0, <1>1, <2>4 DEF Fits, CopyOK, Advances, Walking, Ending
  <2> QED  BY <1>3, <2>5, CopyBecomes
<1>4. CASE Continue(p, proc[p].cur) /\ proc[p].dec = "commit"
  BY <1>0, <1>4, ContinueCopy
<1> QED  BY <1>2, <1>3, <1>4

\* What the RM has carried out may go.
LEMMA AnswerDoneCopy ==
  ASSUME BranchInv, Advances, NEW p \in Procs, AnswerDone(p)
  PROVE  CopiesOK'
<1>1. /\ proc[p].pc = "await" /\ Goto(p, "unlockBranch") /\ proc[p].dec \in Decisions
      /\ CopyOK(p, proc[p], Entered, Excused, Over, Leaving)
  BY CopyFacts, LocalFacts DEF AnswerDone, BranchInv, IInv
<1>2. <<proc[p].dec, proc[p].cur>> \in acked' /\ proc[p].cur \in Entered'
  BY <1>1 DEF AnswerDone, CopyOK, Advances
<1>3. proc[p].cur \in Excused'
  BY <1>1, <1>2 DEF Excused, Decisions
<1> QED  BY <1>1, <1>3, GotoCopy DEF Ending

LEMMA WalkCopy ==
  ASSUME BranchInv, Advances, NEW p \in Procs,
         Walk(p) \/ Await(p) \/ \E b \in Branches : SendCallback(p, b)
  PROVE  CopiesOK'
<1>1. CASE RefuseSaga(p)
  BY <1>1, ReturnCopy DEF RefuseSaga
<1>2. ASSUME NEW b \in Branches, DropFailedBranch(p, b) PROVE CopiesOK'
  BY <1>2, ChooseCopy DEF DropFailedBranch
<1>3. ASSUME NEW b \in Branches, SendCallback(p, b) PROVE CopiesOK'
  BY <1>3, ChooseCopy DEF SendCallback, Next2
<1>4. ASSUME NEW b \in Branches, QueueNotReady(p, b) PROVE CopiesOK'
  BY <1>4, NotDoneCopy DEF QueueNotReady, Next2
<1>5. CASE AnswerRetryable(p)
  BY <1>5, NotDoneCopy DEF AnswerRetryable
<1>6. CASE AnswerError(p)
  <2>1. /\ proc[p].pc = "await"
        /\ Return(p) \/ Becomes(p, [proc[p] EXCEPT !.pc = "errorStatus", !.goal = RetryGoal(p)])
    BY <1>6 DEF AnswerError
  <2> QED  BY <2>1, ReturnCopy, RecordCopy
<1> QED  BY <1>1, <1>2, <1>3, <1>4, <1>5, <1>6, EndOfWalkCopy, AnswerDoneCopy, CannotRetryCopy
         DEF Walk, Await

LEMMA ProceedCopy ==
  ASSUME BranchInv, Advances, NEW p \in Procs, Proceed(p)
  PROVE  CopiesOK'
<1>0. CopyOK(p, proc[p], Entered, Excused, Over, Leaving)
  BY CopyFacts
<1>1. CASE AlreadyDecided(p) \/ DeferCommit(p) \/ RecordRetry(p) \/ (p = "timeoutCheck" /\ RecordTimeout)
  <2>1. proc[p].pc # "idle" /\ Return(p)
    BY <1>1 DEF AlreadyDecided, DeferCommit, RecordRetry, RecordTimeout
  <2> QED  BY <2>1, ReturnCopy
<1>2. CASE ReleaseOnCommit(p)
  <2>1. proc[p].pc = "unlockAll" /\ Goto(p, "decide")
    BY <1>2 DEF ReleaseOnCommit
  <2> QED  BY <2>1, GotoCopy DEF Ending
<1>3. CASE ReleaseBranch(p)
  <2>1. proc[p].pc = "unlockBranch" /\ Goto(p, "removeBranch")
    BY <1>3 DEF ReleaseBranch
  <2> QED  BY <1>0, <2>1, GotoCopy DEF Ending, CopyOK, Advances
<1>4. CASE FinalUnlock(p)
  <2>1. proc[p].pc = "finalUnlock" /\ Goto(p, "finalSession")
    BY <1>4 DEF FinalUnlock
  <2> QED  BY <1>0, <2>1, GotoCopy DEF Ending, CopyOK, Advances
<1>5. CASE RemoveGlobalSession(p)
  <2>1. proc[p].pc = "finalSession" /\ (Return(p) \/ Goto(p, "finalBranches"))
    BY <1>5 DEF RemoveGlobalSession, Finished
  <2>2. CASE Goto(p, "finalBranches")
    BY <1>0, <2>1, <2>2, GotoCopy DEF Ending, CopyOK, Advances
  <2> QED  BY <2>1, <2>2, ReturnCopy
<1> QED  BY <1>1, <1>2, <1>3, <1>4, <1>5, FindBranchesCopy, CloseSessionCopy, RecordDecisionCopy,
            PickTimeoutCopy, PickRetryCopy, RemoveBranchCopy, RecheckCopy, FinalStatusCopy,
            RemoveLeftCopy DEF Proceed

-----------------------------------------------------------------------------
(* CopiesOK: work that starts. *)

LEMMA StartCopy ==
  ASSUME BranchInv, Advances, NEW p \in Procs, NEW l, Becomes(p, l),
         l.pc = "branches" \/ (l.pc = "pick" /\ p = "timeoutCheck"),
         l.view = {}, l.failed = {},
         p \in Handlers => l.list = {l.x},
         p # "timeoutCheck" => l.list \subseteq Leaving
  PROVE  CopiesOK'
<1>1. Fits(p, l)
  BY DEF Fits, CopyOK, Advances, Walking, Ending
<1> QED  BY <1>1, CopyBecomes

LEMMA NextCopies ==
  ASSUME BranchInv, StoreWorks, [Next]_vars
  PROVE  CopiesOK'
<1>0. Advances /\ IInv
  BY NextAdvances DEF BranchInv
<1>1. CASE ClientStep
  <2>1. ASSUME NEW h \in Handlers, NEW x \in Xids, Request(h, x) PROVE CopiesOK'
    <3> DEFINE l == [Idle EXCEPT !.pc = "branches", !.dec = tm[x], !.x = x, !.list = {x},
                                 !.st[x] = status[x], !.open = IF active[x] THEN {x} ELSE {}]
    <3>1. UNCHANGED proc \/ Becomes(h, l)
      BY <2>1 DEF Request, FindSession
    <3>2. l.pc = "branches" /\ l.x = x /\ l.list = {x} /\ l.view = {} /\ l.failed = {}
      BY DEF Idle
    <3>3. x \in Leaving
      BY <2>1 DEF Request, FindSession, Leaving, Decided
    <3>4. h \in Procs
      BY DEF Procs
    <3> HIDE DEF l
    <3> QED  BY <1>0, <3>1, <3>2, <3>3, <3>4, CopyKeeps, StartCopy
  <2>2. CASE \E x \in Xids : Begin(x) \/ \E d \in Decisions : Decide(x, d)
    BY <1>0, <2>2, CopyKeeps DEF Begin, Decide
  <2> QED  BY <1>0, <1>1, <2>1, <2>2, NoErrors DEF ClientStep
<1>2. CASE EnvStep
  <2>1. CASE Crash
    <3>1. \A p \in Procs : proc'[p] = Idle
      BY <2>1 DEF Crash
    <3>2. Idle.pc = "idle" /\ Idle.list = {} /\ Idle.view = {} /\ Idle.failed = {}
      BY DEF Idle
    <3>3. \A p \in Procs : Fits(p, Idle)
      BY <3>2 DEF Fits, CopyOK, Walking, Ending
    <3> QED  BY <3>1, <3>3 DEF CopiesOK, Fits
  <2> QED  BY <1>0, <1>2, <2>1, CopyKeeps DEF EnvStep, Elapse, Connect, Disconnect
<1>3. CASE (\E b \in Branches : BranchStep(b)) \/ UNCHANGED vars
  BY <1>0, <1>3, CopyKeeps DEF BranchStep, RegisterFind, AcquireLock, AddBranchSession, ReportFind,
     ReportWrite, RegisterError, vars
<1>4. ASSUME NEW w \in Workers, Scan(w) PROVE CopiesOK'
  <2> DEFINE l == [Idle EXCEPT
                     !.pc = IF w = "timeoutCheck" THEN "pick" ELSE "branches",
                     !.dec = IF w \in {"timeoutCheck", "retryRollingBack"} THEN "rollback"
                             ELSE "commit",
                     !.list = Listed(w),
                     !.st = [x \in Xids |-> IF x \in Listed(w) THEN status[x] ELSE "None"],
                     !.open = {x \in Listed(w) : active[x]}]
  <2>1. /\ l.pc = (IF w = "timeoutCheck" THEN "pick" ELSE "branches") /\ l.list = Listed(w)
        /\ l.view = {} /\ l.failed = {}
    BY DEF Idle
  <2>2. Becomes(w, l) /\ w \in Procs /\ w \notin Handlers
    BY <1>4, HandlersAssumption DEF Scan, Procs
  <2>3. ASSUME w # "timeoutCheck", NEW x \in Listed(w) PROVE x \in Leaving
    <3>1. x \in Xids /\ status[x] \notin {"None", "Begin"}
      BY <2>3 DEF Listed, Workers, RetryRollbackStatus
    <3> QED  BY <3>1 DEF Leaving, BranchInv, BegunOK
  <2> HIDE DEF l
  <2> QED  BY <1>0, <2>1, <2>2, <2>3, StartCopy
<1>5. CASE \E p \in Procs : ProcStep(p)
  BY <1>0, <1>5, NoErrors, ProceedCopy, WalkCopy DEF ProcStep
<1> QED  BY <1>1, <1>2, <1>3, <1>4, <1>5 DEF Next

-----------------------------------------------------------------------------
(* GoneOK and BegunOK: the sessions that are not there. *)

\* A session is deleted by a process that has come to its end.
LEMMA SessionDeleted ==
  ASSUME IInv, NEW p \in Procs, ProcStep(p), NEW x \in Xids,
         status[x] # "None", status'[x] = "None"
  PROVE  proc[p].x = x /\ proc[p].pc = "finalSession"
<1>0. status \in [Xids -> Status] /\ "None" \notin CommitStatus \cup RollbackStatus
  BY DEF IInv, TypeOK, StoreType, CommitStatus, RollbackStatus, TimeoutStatus
<1>1. ASSUME NEW y, NEW s \in CommitStatus \cup RollbackStatus, SetStatus(y, s) PROVE FALSE
  BY <1>0, <1>1 DEF SetStatus
<1>2. CASE UNCHANGED status
  BY <1>2
<1>3. CASE RemoveGlobalSession(p)
  BY <1>0, <1>3 DEF RemoveGlobalSession
<1>4. CASE RecordRetry(p) \/ FinalStatus(p)
  <2>1. proc[p].pc \in Concluding /\ SetStatus(proc[p].x, proc[p].goal)
    BY <1>4 DEF RecordRetry, FinalStatus, Concluding
  <2>2. proc[p].goal \in CommitStatus \cup RollbackStatus
    BY <2>1, LocalFacts DEF IInv, LocalOK, StatusOf
  <2> QED  BY <1>1, <2>1, <2>2
<1>5. CASE RecordDecision(p) \/ DeferCommit(p) \/ (p = "timeoutCheck" /\ RecordTimeout)
  <2>1. \E y, s : s \in CommitStatus \cup RollbackStatus /\ SetStatus(y, s)
    BY <1>5 DEF RecordDecision, DeferCommit, RecordTimeout, CommitStatus, RollbackStatus,
       TimeoutStatus
  <2> QED  BY <1>1, <2>1
<1>6. CASE Proceed(p)
  BY <1>2, <1>3, <1>4, <1>5, <1>6 DEF Proceed, FindBranches, ReadBranches, AlreadyDecided, Recheck,
     CloseSession, ReleaseOnCommit, ReleaseBranch, FinalUnlock, RemoveBranchSession,
     RemoveLeftBranch, PickTimeout, PickRetry, store
<1> QED  BY <1>2, <1>6, StatusKept DEF ProcStep

\* What the steps outside the processes do to the sessions.
LEMMA SessionBegun ==
  ASSUME IInv, [Next]_vars, ~\E p \in Procs : ProcStep(p), NEW x \in Xids
  PROVE  \/ tm'[x] = "active" /\ status'[x] = "Begin"
         \/ (tm'[x] = "none" <=> tm[x] = "none") /\ status'[x] = status[x]
<1>0. StoreType /\ ClientType
  BY DEF IInv, TypeOK
<1>1. ASSUME NEW y \in Xids, Begin(y)
      PROVE  \/ tm'[x] = "active" /\ status'[x] = "Begin"
             \/ tm'[x] = tm[x] /\ status'[x] = status[x]
  BY <1>0, <1>1 DEF Begin, StoreType, ClientType
<1>2. ASSUME NEW y \in Xids, NEW d \in Decisions, Decide(y, d)
      PROVE  UNCHANGED status /\ (tm'[x] = "none" <=> tm[x] = "none")
  BY <1>0, <1>2 DEF Decide, Decisions, ClientType, store
<1>3. CASE \E h \in Handlers, y \in Xids : Request(h, y) \/ RequestError(h, y)
  BY <1>3 DEF Request, RequestError, FindSession, store
<1>4. CASE EnvStep \/ (\E b \in Branches : BranchStep(b)) \/ (\E w \in Workers : Scan(w))
           \/ UNCHANGED vars
  BY <1>4 DEF EnvStep, Elapse, Connect, Disconnect, Crash, BranchStep, RegisterFind,
     AcquireLock, AddBranchSession, ReportFind, ReportWrite, RegisterError, Scan, vars, store, clients
<1> QED  BY <1>1, <1>2, <1>3, <1>4 DEF Next, ClientStep

LEMMA NextGone ==
  ASSUME BranchInv, StoreWorks, [Next]_vars
  PROVE  GoneOK' /\ BegunOK'
<1>0. IInv /\ GoneOK /\ BegunOK /\ CopiesOK /\ Over \subseteq Over'
  BY NextAdvances DEF BranchInv, Advances
<1>1. ASSUME NEW p \in Procs, ProcStep(p) PROVE GoneOK' /\ BegunOK'
  <2>1. UNCHANGED tm /\ status \in [Xids -> Status]
    BY <1>0, <1>1, FrameOfProcStep DEF IInv, TypeOK, StoreType
  <2>2. ASSUME NEW x \in Xids, tm[x] # "none", status'[x] = "None" PROVE x \in Over
    <3>1. CASE status[x] = "None"
      BY <1>0, <2>2, <3>1 DEF GoneOK
    <3>2. CASE status[x] # "None"
      <4>1. proc[p].x = x /\ proc[p].pc = "finalSession"
        BY <1>0, <1>1, <2>2, <3>2, SessionDeleted
      <4> QED  BY <1>0, <4>1 DEF CopiesOK, CopyOK, Ending
    <3> QED  BY <3>1, <3>2
  <2>3. ASSUME NEW x \in Xids, status[x] = "None" PROVE status'[x] = "None"
    <3>1. CASE Proceed(p)
      BY <1>0, <2>1, <2>3, <3>1, StatusWrites DEF SetStatus
    <3> QED  BY <1>1, <2>3, <3>1, StatusKept DEF ProcStep
  <2> QED  BY <1>0, <2>1, <2>2, <2>3 DEF GoneOK, BegunOK
<1>2. CASE ~\E p \in Procs : ProcStep(p)
  BY <1>0, <1>2, SessionBegun DEF GoneOK, BegunOK
<1> QED  BY <1>1, <1>2

-----------------------------------------------------------------------------

LEMMA InitBranch ==
  ASSUME Init
  PROVE  BranchInv
<1>1. AwaitedOK /\ EnteredOK /\ GoneOK /\ BegunOK
  BY TopologyAssumption DEF Init, AwaitedOK, InFlight, EnteredOK, GoneOK, BegunOK
<1>2. CopiesOK
  BY DEF Init, CopiesOK, CopyOK, Idle, Walking, Ending
<1> QED  BY <1>1, <1>2, InitInv DEF BranchInv

LEMMA BranchInvariance ==
  ASSUME ~LateRPC, StoreWorks
  PROVE  Spec => []BranchInv
<1>1. Init => BranchInv
  BY InitBranch
<1>2. BranchInv /\ IInv' /\ [Next]_vars => BranchInv'
  <2> SUFFICES ASSUME BranchInv, IInv', [Next]_vars PROVE BranchInv'
    OBVIOUS
  <2>1. AwaitedOK'
    BY NextInFlight DEF BranchInv, AwaitedOK
  <2>2. EnteredOK'
    BY NextLasting DEF Lasting
  <2>3. CopiesOK' /\ GoneOK' /\ BegunOK'
    BY NextCopies, NextGone
  <2> QED  BY <2>1, <2>2, <2>3 DEF BranchInv
<1> QED  BY <1>1, <1>2, Invariance, PTL DEF Spec

\* Who deletes the row of a branch has grounds to.
LEMMA RowDeleted ==
  ASSUME BranchInv, StoreWorks, [Next]_vars, NEW b \in Branches, bs[b] # "None", bs'[b] = "None"
  PROVE  b \in Excused
<1>0. IInv /\ bs \in [Branches -> {"None", "Registered", "PhaseOneFailed"}]
  BY DEF BranchInv, IInv, TypeOK, StoreType
<1>1. ASSUME NEW p \in Procs, ProcStep(p) PROVE b \in Excused
  <2>0. CopyOK(p, proc[p], Entered, Excused, Over, Leaving)
    BY <1>1, CopyFacts
  <2>1. CASE RemoveBranchSession(p)
    <3>1. proc[p].pc = "removeBranch" /\ b = proc[p].cur
      BY <1>0, <2>1 DEF RemoveBranchSession
    <3> QED  BY <2>0, <3>1 DEF CopyOK
  <2>2. ASSUME NEW c \in Branches, RemoveLeftBranch(p, c) PROVE b \in Excused
    <3>1. proc[p].pc = "finalBranches" /\ b \in View(p)
      BY <1>0, <2>2 DEF RemoveLeftBranch
    <3> QED  BY <2>0, <3>1 DEF CopyOK, View, Ending
  <2>3. CASE Proceed(p)
    BY <2>1, <2>2, <2>3 DEF Proceed, FindBranches, ReadBranches, CloseSession, ReleaseOnCommit,
       RecordDecision, AlreadyDecided, DeferCommit, RecordTimeout, PickTimeout, PickRetry,
       RecordRetry, ReleaseBranch, Recheck, FinalStatus, FinalUnlock, RemoveGlobalSession, store
  <2> QED  BY <1>1, <2>3, StatusKept DEF ProcStep
<1>2. CASE \E c \in Branches : BranchStep(c)
  BY <1>0, <1>2 DEF BranchStep, RegisterFind, AcquireLock, AddBranchSession, ReportFind, ReportWrite,
     RegisterError, store
<1>3. CASE ClientStep \/ EnvStep \/ (\E w \in Workers : Scan(w)) \/ UNCHANGED vars
  BY <1>3 DEF ClientStep, Begin, Decide, Request, RequestError, FindSession, EnvStep, Elapse,
     Connect, Disconnect, Crash, Scan, vars, store
<1> QED  BY <1>1, <1>2, <1>3 DEF Next

\* No branch is lost: for any topology and any number of handlers, timeouts, give-ups, refusals
\* and crashes, the row of a branch goes only when its RM has carried out phase two, its phase
\* one has failed, an RM has refused for good or the retries have run out, be it deleted by
\* RemoveBranchSession or left over to RemoveGlobalTransaction of a handler or worker that found
\* the session gone.  No business call ends before its registrations and reports, and no
\* statement of the store fails: a failed query is taken for a transaction without branches.
THEOREM BranchesKept ==
  ASSUME ~LateRPC, StoreWorks
  PROVE  Spec => NoLostBranch
<1>1. ASSUME BranchInv, [Next]_vars, NEW b \in Branches, bs[b] # "None", bs'[b] = "None"
      PROVE  \/ {<<"commit", b>>, <<"rollback", b>>} \cap acked # {}
             \/ bs[b] = "PhaseOneFailed"
             \/ Pardoned(TxOf[b])
  <2>1. b \in Excused
    BY <1>1, RowDeleted
  <2> QED  BY <1>1, <2>1 DEF Excused, BranchInv, IInv, TypeOK, StoreType
<1>2. BranchInv /\ [Next]_vars =>
        [\A b \in Branches : bs[b] # "None" /\ bs'[b] = "None" =>
           \/ {<<"commit", b>>, <<"rollback", b>>} \cap acked # {}
           \/ bs[b] = "PhaseOneFailed"
           \/ Pardoned(TxOf[b])]_vars
  BY <1>1
<1> QED  BY <1>2, BranchInvariance, PTL DEF Spec, NoLostBranch

-----------------------------------------------------------------------------
(* The coordinator implements GlobalTransaction.  Besides BranchInv the step *)
(* that ends a transaction needs to know why it may: who is about to remove  *)
(* the session has seen the last branch row gone, or the transaction is      *)
(* given up; and a branch row is gone because its RM has carried out what    *)
(* the TM decided.                                                           *)

\* The decided transactions that have no branch row any more, or are given up.
Closed == {x \in Xids : Decided(x) /\ (Pardoned(x) \/ \A b \in BranchesOf(x) : bs[b] = "None")}

\* Such is a transaction whose session is about to be removed, and one without a session.
EndsOK == \A p \in Procs : proc[p].pc \in Ending => proc[p].x \in Closed
ClosedOK == \A x \in Xids : Decided(x) /\ status[x] = "None" => x \in Closed

\* What the RMs have carried out is the decision of the TM.
DoneOK == \A d \in Decisions, b \in Branches : <<d, b>> \in acked => b \in Entered /\ tm[TxOf[b]] = d

\* The grounds on which the row of an entered branch is gone.
Cleared(b) == \/ reg[b] \in {"reporting", "done"} \/ Pardoned(TxOf[b])
              \/ {<<"commit", b>>, <<"rollback", b>>} \cap acked # {}
ReportOK == \A b \in Branches : bs[b] = "PhaseOneFailed" => reg[b] = "done"
ClearedOK == \A b \in Entered : bs[b] = "None" => Cleared(b)

PromiseInv == BranchInv /\ OpenOK /\ EndsOK /\ ClosedOK /\ DoneOK /\ ReportOK /\ ClearedOK

Lasts == Closed \subseteq Closed' /\ Advances /\ Lasting

LEMMA NextLasts ==
  ASSUME BranchInv, StoreWorks, [Next]_vars
  PROVE  Lasts
<1>0. IInv /\ AwaitedOK /\ Lasting /\ Advances
  BY NextLasting, NextAdvances DEF BranchInv
<1>1. ASSUME NEW x \in Closed PROVE x \in Closed'
  <2>1. x \in Xids /\ Decided(x)'
    BY <1>0, <1>1, GoneStays DEF Closed
  <2>2. Pardoned(x) => Pardoned(x)'
    BY <1>0, <2>1 DEF Pardoned, Lasting, BranchesOf
  <2>3. ASSUME \A b \in BranchesOf(x) : bs[b] = "None" PROVE \A b \in BranchesOf(x) : bs'[b] = "None"
    BY <1>0, <1>1, <2>3, BranchGone DEF Closed, BranchesOf
  <2> QED  BY <1>1, <2>1, <2>2, <2>3 DEF Closed, BranchesOf
<1> QED  BY <1>0, <1>1 DEF Lasts

-----------------------------------------------------------------------------
(* EndsOK: how a process comes to its end. *)

\* The processes that leave their transaction, or walk on.
LEMMA ReturnLeaves ==
  ASSUME IInv, NEW p \in Procs, Return(p)
  PROVE  proc'[p].pc \in {"idle", "pick"}
<1> DEFINE x == proc[p].x
           rest == proc[p].list \ {x}
           l == [proc[p] EXCEPT !.pc = "pick", !.x = NoXid, !.list = rest, !.st[x] = "None",
                                !.open = @ \ {x}, !.view = @ \ BranchesOf(x),
                                !.failed = @ \ BranchesOf(x), !.todo = {},
                                !.cur = NoBranch, !.goal = "None"]
<1>1. proc[p] \in LocalState /\ proc \in [Procs -> LocalState]
  BY LocalFacts DEF IInv, ProcInv, ProcType
<1>2. l.pc = "pick" /\ Idle.pc = "idle"
  BY <1>1 DEF LocalState, Idle
<1> HIDE DEF l
<1>3. proc'[p] = IF rest = {} THEN Idle ELSE l
  BY <1>1 DEF Return, Becomes, l
<1> QED  BY <1>2, <1>3

LEMMA GotoMoves ==
  ASSUME IInv, NEW p \in Procs, NEW label, Goto(p, label)
  PROVE  proc'[p].pc = label /\ proc'[p].x = proc[p].x
<1>1. proc[p] \in LocalState /\ proc \in [Procs -> LocalState]
  BY LocalFacts DEF IInv, ProcInv, ProcType
<1> QED  BY <1>1 DEF Goto, Becomes, LocalState

LEMMA ContinueMoves ==
  ASSUME IInv, NEW p \in Procs, NEW b, Continue(p, b)
  PROVE  proc'[p].pc = "drive"
<1>1. proc[p] \in LocalState /\ proc \in [Procs -> LocalState]
  BY LocalFacts DEF IInv, ProcInv, ProcType
<1> QED  BY <1>1 DEF Continue, Becomes, LocalState

LEMMA DrivingMoves ==
  ASSUME IInv, NEW p \in Procs, NEW l \in LocalState, NEW x, Becomes(p, Driving(l, x))
  PROVE  proc'[p].pc = "drive"
<1>1. proc \in [Procs -> LocalState]
  BY DEF IInv, ProcInv, ProcType
<1> QED  BY <1>1 DEF Driving, Becomes, LocalState

\* The steps that bring p to its end, or on the way to it.
Grounds(p) ==
  \/ proc[p].pc \in Ending /\ proc'[p].x = proc[p].x
  \/ EndOfWalk(p) /\ status[proc[p].x] = "None" /\ proc'[p].x = proc[p].x
  \/ /\ Recheck(p) /\ proc'[p].x = proc[p].x
     /\ \A b \in BranchesOf(proc[p].x) : bs[b] = "None"
  \/ AnswerCannotRetry(p) /\ proc'[p].x = proc[p].x
  \/ \E x \in Xids : PickRetry(p, x) /\ "retry" \in past[x] /\ proc'[p].x = x

LEMMA ProceedEnds ==
  ASSUME IInv, NEW p \in Procs, Proceed(p), proc'[p].pc \in Ending
  PROVE  Grounds(p)
<1>0. proc[p] \in LocalState /\ proc \in [Procs -> LocalState]
  BY LocalFacts DEF IInv, ProcInv, ProcType
<1>1. ASSUME NEW l, Becomes(p, l) PROVE proc'[p] = l
  BY <1>0, <1>1 DEF Becomes
<1>2. ~Return(p)
  BY ReturnLeaves DEF Ending
<1>3. ~Goto(p, "decide") /\ ~Goto(p, "removeBranch")
  BY GotoMoves DEF Ending
<1>4. ~FindBranches(p) /\ ~CloseSession(p) /\ ~RemoveBranchSession(p)
  BY <1>0, <1>1 DEF FindBranches, ReadBranches, CloseSession, RemoveBranchSession, LocalState,
     Ending
<1>5. ~RecordDecision(p)
  <2> SUFFICES ASSUME RecordDecision(p) PROVE FALSE
    OBVIOUS
  <2> DEFINE x == proc[p].x
             s == IF proc[p].dec = "commit" THEN "Committing" ELSE "RollingBack"
             l == [proc[p] EXCEPT !.st[x] = s]
             m == [l EXCEPT !.pc = "async"]
  <2>1. l \in LocalState
    BY <1>0 DEF LocalState, Status, CommitStatus, RollbackStatus
  <2>2. m.pc = "async"
    BY <2>1 DEF LocalState
  <2>3. Becomes(p, m) \/ Becomes(p, Driving(l, x))
    BY DEF RecordDecision
  <2> HIDE DEF l
  <2>4. ~Becomes(p, Driving(l, x))
    BY <2>1, DrivingMoves DEF Ending
  <2> HIDE DEF m
  <2> QED  BY <1>1, <2>2, <2>3, <2>4 DEF Ending
<1>6. ASSUME NEW x \in Xids, PickTimeout(x), p = "timeoutCheck" PROVE FALSE
  <2> DEFINE close == [proc[p] EXCEPT !.pc = "close", !.x = x]
             next == [proc[p] EXCEPT !.list = @ \ {x}, !.st[x] = "None", !.open = @ \ {x}]
  <2>1. close.pc = "close" /\ next.pc = "pick" /\ Idle.pc = "idle"
    BY <1>0, <1>6 DEF LocalState, PickTimeout, Idle
  <2>2. Becomes(p, close) \/ Becomes(p, next) \/ Becomes(p, Idle)
    BY <1>6 DEF PickTimeout
  <2> HIDE DEF close, next
  <2> QED  BY <1>1, <2>1, <2>2 DEF Ending
<1>7. ASSUME NEW x \in Xids, PickRetry(p, x) PROVE Grounds(p)
  <2> DEFINE skip == [proc[p] EXCEPT !.list = @ \ {x}, !.st[x] = "None", !.open = @ \ {x},
                                     !.view = @ \ BranchesOf(x), !.failed = @ \ BranchesOf(x)]
             label == IF p = "retryRollingBack" /\ UnlockOnRetryTimeout
                      THEN "finalUnlock" ELSE "finalSession"
             drop == [proc[p] EXCEPT !.x = x, !.pc = label]
  <2>1. skip.pc = "pick" /\ drop.x = x /\ Idle.pc = "idle"
    BY <1>0, <1>7 DEF LocalState, PickRetry, Idle
  <2>2. \/ Becomes(p, Idle) \/ Becomes(p, skip) \/ Becomes(p, Driving(proc[p], x))
        \/ Becomes(p, drop) /\ "retry" \in past[x]
    BY <1>7 DEF PickRetry, GivesUp
  <2>3. ~Becomes(p, Driving(proc[p], x))
    BY <1>0, DrivingMoves DEF Ending
  <2> HIDE DEF skip, drop
  <2> QED  BY <1>1, <1>7, <2>1, <2>2, <2>3 DEF Ending, Grounds
<1>8. CASE Recheck(p)
  <2>1. Goto(p, "finalStatus") /\ \A b \in BranchesOf(proc[p].x) : bs[b] = "None"
    BY <1>2, <1>8 DEF Recheck, Finished
  <2> QED  BY <1>8, <2>1, GotoMoves DEF Grounds
<1>9. CASE FinalUnlock(p) \/ RemoveGlobalSession(p)
  <2>1. proc[p].pc \in Ending /\ (Goto(p, "finalSession") \/ Goto(p, "finalBranches"))
    BY <1>2, <1>9 DEF FinalUnlock, RemoveGlobalSession, Finished, Ending
  <2> QED  BY <2>1, GotoMoves DEF Grounds
<1>10. CASE FinalStatus(p)
  <2> DEFINE l == [proc[p] EXCEPT !.st[proc[p].x] = proc[p].goal]
             m == [l EXCEPT !.pc = "finalUnlock"]
  <2>1. m.x = proc[p].x
    BY <1>0 DEF LocalState
  <2>2. Becomes(p, m) /\ proc[p].pc \in Ending
    BY <1>10 DEF FinalStatus, Ending
  <2> HIDE DEF m
  <2> QED  BY <1>1, <2>1, <2>2 DEF Grounds
<1>11. ASSUME NEW b \in Branches, RemoveLeftBranch(p, b) PROVE Grounds(p)
  <2>1. proc[p].pc \in Ending /\ Becomes(p, [proc[p] EXCEPT !.view = @ \ {b}])
    BY <1>2, <1>11 DEF RemoveLeftBranch, Finished, Ending
  <2> QED  BY <1>0, <2>1 DEF Becomes, LocalState, Grounds
<1> QED  BY <1>2, <1>3, <1>4, <1>5, <1>6, <1>7, <1>8, <1>9, <1>10, <1>11 DEF Proceed, ReleaseOnCommit,
            AlreadyDecided, DeferCommit, RecordTimeout, RecordRetry, ReleaseBranch

LEMMA WalkEnds ==
  ASSUME IInv, NEW p \in Procs, proc'[p].pc \in Ending,
         Walk(p) \/ Await(p) \/ \E b \in Branches : SendCallback(p, b)
  PROVE  Grounds(p)
<1>0. proc[p] \in LocalState /\ proc \in [Procs -> LocalState]
  BY LocalFacts DEF IInv, ProcInv, ProcType
<1>1. ASSUME NEW l, Becomes(p, l) PROVE proc'[p] = l
  BY <1>0, <1>1 DEF Becomes
<1>2. ~Return(p)
  BY ReturnLeaves DEF Ending
<1>3. ~Goto(p, "unlockBranch")
  BY GotoMoves DEF Ending
<1>4. \A b : ~Continue(p, b)
  BY ContinueMoves DEF Ending
<1>5. ~Becomes(p, [proc[p] EXCEPT !.pc = "retryStatus", !.goal = RetryGoal(p)])
  <2> DEFINE m == [proc[p] EXCEPT !.pc = "retryStatus", !.goal = RetryGoal(p)]
  <2>1. m.pc = "retryStatus"
    BY <1>0 DEF LocalState
  <2> HIDE DEF m
  <2>2. ~Becomes(p, m)
    BY <1>1, <2>1 DEF Ending
  <2> QED  BY <2>2 DEF m
<1>6. ~Becomes(p, [proc[p] EXCEPT !.pc = "errorStatus", !.goal = RetryGoal(p)])
  <2> DEFINE m == [proc[p] EXCEPT !.pc = "errorStatus", !.goal = RetryGoal(p)]
  <2>1. m.pc = "errorStatus"
    BY <1>0 DEF LocalState
  <2> HIDE DEF m
  <2>2. ~Becomes(p, m)
    BY <1>1, <2>1 DEF Ending
  <2> QED  BY <2>2 DEF m
<1>7. \A b : ~NotDone(p, b)
  BY <1>2, <1>4, <1>5 DEF NotDone, Finished
<1>8. CASE EndOfWalk(p)
  <2> DEFINE s == IF proc[p].dec = "commit" THEN "Committed"
                  ELSE IF IsTimeoutGlobalStatus(p) THEN "TimeoutRolledBack" ELSE "RolledBack"
             label == IF status[proc[p].x] = "None" THEN "finalStatus" ELSE "recheckBranches"
             m == [proc[p] EXCEPT !.goal = s, !.pc = label]
  <2>1. m.pc = label /\ m.x = proc[p].x
    BY <1>0 DEF LocalState
  <2>2. Becomes(p, m)
    BY <1>8 DEF EndOfWalk
  <2> HIDE DEF m
  <2> QED  BY <1>1, <1>8, <2>1, <2>2 DEF Ending, Grounds
<1>9. CASE AnswerCannotRetry(p)
  <2> DEFINE m == [proc[p] EXCEPT !.pc = "finalStatus", !.goal = FailedGoal(p)]
  <2>1. m.x = proc[p].x
    BY <1>0 DEF LocalState
  <2>2. Becomes(p, m)
    BY <1>4, <1>9 DEF AnswerCannotRetry
  <2> HIDE DEF m
  <2> QED  BY <1>1, <1>9, <2>1, <2>2 DEF Grounds
<1>10. ~AnswerError(p)
  BY <1>2, <1>6 DEF AnswerError
<1>11. ASSUME NEW b \in Branches, DropFailedBranch(p, b) PROVE FALSE
  <2> DEFINE m == [proc[p] EXCEPT !.pc = "unlockBranch", !.cur = b]
  <2>1. m.pc = "unlockBranch"
    BY <1>0 DEF LocalState
  <2>2. Becomes(p, m)
    BY <1>11 DEF DropFailedBranch
  <2> HIDE DEF m
  <2> QED  BY <1>1, <2>1, <2>2 DEF Ending
<1>12. ASSUME NEW b \in Branches, SendCallback(p, b) PROVE FALSE
  <2> DEFINE m == [proc[p] EXCEPT !.pc = "await", !.cur = b]
  <2>1. m.pc = "await"
    BY <1>0 DEF LocalState
  <2>2. Becomes(p, m)
    BY <1>12, Zenon DEF SendCallback
  <2> HIDE DEF m
  <2> QED  BY <1>1, <2>1, <2>2 DEF Ending
<1> QED  BY <1>2, <1>3, <1>7, <1>8, <1>9, <1>10, <1>11, <1>12 DEF Walk, RefuseSaga, QueueNotReady, Await,
            AnswerDone, AnswerRetryable

\* The grounds are good ones, whoever has been at work on the transaction before.
LEMMA GroundsClose ==
  ASSUME PromiseInv, InTime, Lasts, NEW p \in Procs, ProcStep(p), Grounds(p),
         proc[p].pc \in Working \/ \E x \in Xids : PickRetry(p, x)
  PROVE  proc'[p].x \in Closed'
<1>0. /\ IInv /\ UNCHANGED <<tm, past>> /\ CopyOK(p, proc[p], Entered, Excused, Over, Leaving)
      /\ proc[p].dec \in Decisions
  BY CopyFacts, FrameOfProcStep, LocalFacts DEF PromiseInv, BranchInv, IInv
<1> PICK y : y = proc[p].x
  OBVIOUS
<1>1. proc[p].pc \in Working => y \in Xids /\ Decided(y)
  BY <1>0, WorkDecided
<1>2. CASE proc[p].pc \in Ending /\ proc'[p].x = y
  BY <1>2 DEF PromiseInv, EndsOK, Lasts
<1>3. CASE EndOfWalk(p) /\ status[y] = "None" /\ proc'[p].x = y
  <2>1. proc[p].pc \in Working
    BY <1>3 DEF EndOfWalk, Working
  <2> QED  BY <1>1, <1>3, <2>1 DEF PromiseInv, ClosedOK, Lasts
<1>4. CASE Recheck(p) /\ proc'[p].x = y /\ \A b \in BranchesOf(y) : bs[b] = "None"
  <2>1. proc[p].pc \in Working
    BY <1>4 DEF Recheck, Working, Concluding
  <2> QED  BY <1>1, <1>4, <2>1 DEF Closed, Lasts
<1>5. CASE AnswerCannotRetry(p) /\ proc'[p].x = y
  <2>1. /\ proc[p].pc \in Working /\ proc[p].cur \in BranchesOf(y)
        /\ <<proc[p].dec, proc[p].cur>> \in refused'
    BY <1>0, <1>5 DEF AnswerCannotRetry, CopyOK, Working
  <2>2. Pardoned(y)'
    BY <1>0, <2>1 DEF Pardoned, BranchesOf
  <2>3. Decided(y)' /\ y \in Xids
    BY <1>0, <1>1, <2>1 DEF Decided
  <2> QED  BY <1>5, <2>2, <2>3 DEF Closed
<1>6. ASSUME NEW x \in Xids, PickRetry(p, x), "retry" \in past[x], proc'[p].x = x
      PROVE  x \in Closed'
  <2>1. p \in Workers \ {"timeoutCheck"} /\ proc[p].pc = "pick" /\ x \in proc[p].list
    BY <1>6, Zenon DEF PickRetry
  <2>2. Decided(x)
    BY <1>0, <2>1, WorkDecided
  <2>3. x \in Closed
    BY <1>6, <2>2 DEF Closed, Pardoned
  <2> QED  BY <2>3 DEF Lasts
<1> QED  BY <1>2, <1>3, <1>4, <1>5, <1>6 DEF Grounds

\* A step of p moves no other process.
LEMMA OthersStay ==
  ASSUME IInv, StoreWorks, NEW p \in Procs, ProcStep(p), NEW q \in Procs, q # p
  PROVE  proc'[q] = proc[q]
<1>0. proc \in [Procs -> LocalState]
  BY DEF IInv, ProcInv, ProcType
<1>1. ASSUME NEW l, Becomes(p, l) PROVE proc'[q] = proc[q]
  BY <1>0, <1>1 DEF Becomes
<1>2. Return(p) => proc'[q] = proc[q]
  BY <1>1, Zenon DEF Return
<1>3. ASSUME NEW label, Goto(p, label) PROVE proc'[q] = proc[q]
  BY <1>1, <1>3, Zenon DEF Goto
<1>4. ASSUME NEW b, Continue(p, b) PROVE proc'[q] = proc[q]
  BY <1>1, <1>4, Zenon DEF Continue
<1>5. ASSUME NEW b, NotDone(p, b) PROVE proc'[q] = proc[q]
  BY <1>1, <1>2, <1>4, <1>5, Zenon DEF NotDone, Finished
<1>6. CASE Proceed(p)
  <2>1. CASE \/ FindBranches(p) \/ CloseSession(p) \/ RecordDecision(p) \/ RemoveBranchSession(p)
             \/ FinalStatus(p) \/ \E x \in Xids : PickRetry(p, x)
    BY <1>1, <2>1, Zenon DEF FindBranches, ReadBranches, CloseSession, RecordDecision,
       RemoveBranchSession, FinalStatus, PickRetry
  <2>2. CASE p = "timeoutCheck" /\ (RecordTimeout \/ \E x \in Xids : PickTimeout(x))
    BY <1>1, <1>2, <2>2, Zenon DEF RecordTimeout, PickTimeout
  <2>3. CASE \/ AlreadyDecided(p) \/ DeferCommit(p) \/ RecordRetry(p) \/ ReleaseOnCommit(p)
             \/ ReleaseBranch(p) \/ Recheck(p) \/ FinalUnlock(p) \/ RemoveGlobalSession(p)
    BY <1>2, <1>3, <2>3, Zenon DEF AlreadyDecided, DeferCommit, RecordRetry, ReleaseOnCommit,
       ReleaseBranch, Recheck, FinalUnlock, RemoveGlobalSession, Finished
  <2>4. CASE \E b \in Branches : RemoveLeftBranch(p, b)
    BY <1>1, <1>2, <2>4, Zenon DEF RemoveLeftBranch, Finished
  <2> QED  BY <1>6, <2>1, <2>2, <2>3, <2>4 DEF Proceed
<1>7. CASE Walk(p)
  <2>1. CASE RefuseSaga(p) \/ EndOfWalk(p)
    BY <1>1, <1>2, <2>1, Zenon DEF RefuseSaga, EndOfWalk
  <2>2. ASSUME NEW b \in Branches, DropFailedBranch(p, b) \/ QueueNotReady(p, b)
        PROVE  proc'[q] = proc[q]
    BY <1>1, <1>5, <2>2, Zenon DEF DropFailedBranch, QueueNotReady
  <2> QED  BY <1>7, <2>1, <2>2 DEF Walk
<1>8. CASE Await(p)
  <2>1. CASE AnswerDone(p) \/ AnswerRetryable(p)
    BY <1>3, <1>5, <2>1, Zenon DEF AnswerDone, AnswerRetryable
  <2>2. CASE AnswerCannotRetry(p) \/ AnswerError(p)
    BY <1>1, <1>2, <1>4, <2>2, Zenon DEF AnswerCannotRetry, AnswerError
  <2> QED  BY <1>8, <2>1, <2>2 DEF Await
<1>9. ASSUME NEW b \in Branches, SendCallback(p, b) PROVE proc'[q] = proc[q]
  BY <1>1, <1>9, Zenon DEF SendCallback
<1> QED  BY <1>6, <1>7, <1>8, <1>9, NoErrors DEF ProcStep

LEMMA ProcEndsOK ==
  ASSUME PromiseInv, InTime, StoreWorks, Lasts, NEW p \in Procs, ProcStep(p)
  PROVE  EndsOK'
<1>0. IInv /\ proc \in [Procs -> LocalState]
  BY DEF PromiseInv, BranchInv, IInv, ProcInv, ProcType
<1>1. ASSUME NEW q \in Procs, q # p, proc'[q].pc \in Ending PROVE proc'[q].x \in Closed'
  <2>1. proc'[q] = proc[q]
    BY <1>0, <1>1, OthersStay
  <2> QED  BY <1>1, <2>1 DEF PromiseInv, EndsOK, Lasts
<1>2. ASSUME proc'[p].pc \in Ending PROVE proc'[p].x \in Closed'
  <2>1. Grounds(p)
    BY <1>0, <1>2, NoErrors, ProceedEnds, WalkEnds DEF ProcStep
  <2>2. proc[p].pc \in Working \/ \E x \in Xids : PickRetry(p, x)
    BY <2>1 DEF Grounds, EndOfWalk, Recheck, AnswerCannotRetry, Working, Concluding, Ending
  <2> QED  BY <2>1, <2>2, GroundsClose
<1> QED  BY <1>1, <1>2 DEF EndsOK

\* A process that starts is not at its end.
LEMMA StartEnds ==
  ASSUME PromiseInv, Lasts, NEW p \in Procs, NEW l, Becomes(p, l), l.pc \notin Ending
  PROVE  EndsOK'
<1>1. ASSUME NEW q \in Procs PROVE proc'[q] = IF q = p THEN l ELSE proc[q]
  BY DEF PromiseInv, BranchInv, IInv, ProcInv, ProcType, Becomes
<1> QED  BY <1>1 DEF PromiseInv, EndsOK, Lasts

LEMMA NextEndsOK ==
  ASSUME PromiseInv, InTime, StoreWorks, Lasts, [Next]_vars
  PROVE  EndsOK'
<1>0. IInv
  BY DEF PromiseInv, BranchInv
<1>1. CASE UNCHANGED proc
  BY <1>1 DEF PromiseInv, EndsOK, Lasts
<1>2. CASE ClientStep
  <2>1. ASSUME NEW h \in Handlers, NEW x \in Xids, Request(h, x) PROVE EndsOK'
    <3> DEFINE l == [Idle EXCEPT !.pc = "branches", !.dec = tm[x], !.x = x, !.list = {x},
                                 !.st[x] = status[x], !.open = IF active[x] THEN {x} ELSE {}]
    <3>1. UNCHANGED proc \/ Becomes(h, l)
      BY <2>1 DEF Request, FindSession
    <3>2. l.pc = "branches" /\ h \in Procs
      BY DEF Idle, Procs
    <3> HIDE DEF l
    <3> QED  BY <1>1, <3>1, <3>2, StartEnds DEF Ending
  <2>2. CASE \E x \in Xids : Begin(x) \/ \E d \in Decisions : Decide(x, d)
    BY <1>1, <2>2 DEF Begin, Decide
  <2> QED  BY <1>0, <1>2, <2>1, <2>2, NoErrors DEF ClientStep
<1>3. CASE EnvStep
  <2>1. CASE Crash
    BY <2>1 DEF Crash, EndsOK, Idle, Ending
  <2> QED  BY <1>1, <1>3, <2>1 DEF EnvStep, Elapse, Connect, Disconnect
<1>4. CASE (\E b \in Branches : BranchStep(b)) \/ UNCHANGED vars
  BY <1>1, <1>4 DEF BranchStep, RegisterFind, AcquireLock, AddBranchSession, ReportFind,
     ReportWrite, RegisterError, vars
<1>5. ASSUME NEW w \in Workers, Scan(w) PROVE EndsOK'
  <2> DEFINE l == [Idle EXCEPT
                     !.pc = IF w = "timeoutCheck" THEN "pick" ELSE "branches",
                     !.dec = IF w \in {"timeoutCheck", "retryRollingBack"} THEN "rollback"
                             ELSE "commit",
                     !.list = Listed(w),
                     !.st = [x \in Xids |-> IF x \in Listed(w) THEN status[x] ELSE "None"],
                     !.open = {x \in Listed(w) : active[x]}]
  <2>1. l.pc = IF w = "timeoutCheck" THEN "pick" ELSE "branches"
    BY DEF Idle
  <2>2. Becomes(w, l) /\ w \in Procs
    BY <1>5 DEF Scan, Procs
  <2> HIDE DEF l
  <2> QED  BY <2>1, <2>2, StartEnds DEF Ending
<1>6. CASE \E p \in Procs : ProcStep(p)
  BY <1>6, ProcEndsOK
<1> QED  BY <1>2, <1>3, <1>4, <1>5, <1>6 DEF Next

-----------------------------------------------------------------------------
(* The other parts of PromiseInv. *)

\* A decided transaction loses its session at the hands of a process that has come to its end.
LEMMA NextClosedOK ==
  ASSUME PromiseInv, InTime, Lasts, [Next]_vars
  PROVE  ClosedOK'
<1> SUFFICES ASSUME NEW x \in Xids, Decided(x)', status'[x] = "None" PROVE x \in Closed'
  BY DEF ClosedOK, Decided
<1>0. IInv /\ OpenOK /\ tm \in [Xids -> {"none", "active"} \cup Decisions]
  BY DEF PromiseInv, BranchInv, IInv, TypeOK, ClientType
<1>1. ASSUME status[x] = "None", Decided(x) PROVE x \in Closed'
  BY <1>1 DEF PromiseInv, ClosedOK, Lasts
<1>2. ASSUME NEW p \in Procs, ProcStep(p) PROVE x \in Closed'
  <2>1. Decided(x)
    BY <1>0, <1>2, FrameOfProcStep DEF Decided
  <2>2. ASSUME status[x] # "None" PROVE x \in Closed'
    <3>1. proc[p].x = x /\ proc[p].pc = "finalSession"
      BY <1>0, <1>2, <2>2, SessionDeleted
    <3> QED  BY <3>1 DEF PromiseInv, EndsOK, Ending, Lasts
  <2> QED  BY <1>1, <2>1, <2>2
<1>3. CASE ~\E p \in Procs : ProcStep(p)
  <2>1. status[x] = "None" /\ (tm'[x] = "none" <=> tm[x] = "none")
    BY <1>0, <1>3, SessionBegun DEF Decided, Decisions
  <2>2. tm[x] # "none" /\ tm[x] # "active"
    BY <1>0, <2>1 DEF OpenOK, Decided, Decisions
  <2> QED  BY <1>0, <1>1, <2>1, <2>2 DEF Decided
<1> QED  BY <1>2, <1>3

\* Who changes the history of phase two.
LEMMA ProcAnswers ==
  ASSUME NEW p \in Procs, ProcStep(p)
  PROVE  /\ UNCHANGED acked \/ AnswerDone(p)
         /\ UNCHANGED refused \/ AnswerCannotRetry(p)
<1>1. CASE Proceed(p)
  <2>1. CASE \/ FindBranches(p) \/ CloseSession(p) \/ ReleaseOnCommit(p) \/ RecordDecision(p)
             \/ p = "timeoutCheck" /\ (RecordTimeout \/ \E x \in Xids : PickTimeout(x))
             \/ \E x \in Xids : PickRetry(p, x)
    BY <2>1, Zenon DEF FindBranches, ReadBranches, CloseSession, ReleaseOnCommit, RecordDecision,
       RecordTimeout, PickTimeout, PickRetry, history
  <2>2. CASE AlreadyDecided(p) \/ DeferCommit(p) \/ RecordRetry(p) \/ ReleaseBranch(p)
    BY <2>2, Zenon DEF AlreadyDecided, DeferCommit, RecordRetry, ReleaseBranch, history
  <2>3. CASE \/ RemoveBranchSession(p) \/ Recheck(p) \/ FinalStatus(p) \/ FinalUnlock(p)
             \/ RemoveGlobalSession(p) \/ \E b \in Branches : RemoveLeftBranch(p, b)
    BY <2>3, Zenon DEF RemoveBranchSession, Recheck, FinalStatus, FinalUnlock, RemoveGlobalSession,
       RemoveLeftBranch, history
  <2> QED  BY <1>1, <2>1, <2>2, <2>3 DEF Proceed
<1>2. CASE Walk(p) \/ \E b \in Branches : SendCallback(p, b)
  BY <1>2, Zenon DEF Walk, RefuseSaga, EndOfWalk, DropFailedBranch, QueueNotReady, SendCallback,
     history
<1>3. CASE Faulty(p)
  BY <1>3, Zenon DEF Faulty, FindBranchesError, ReadBranches, RecheckError, UnlockError, WriteError,
     history
<1>4. CASE Await(p)
  BY <1>4 DEF Await, AnswerDone, AnswerRetryable, AnswerCannotRetry, AnswerError, history
<1> QED  BY <1>1, <1>2, <1>3, <1>4 DEF ProcStep

LEMMA AckedSteps ==
  ASSUME [Next]_vars
  PROVE  UNCHANGED acked \/ \E p \in Procs : AnswerDone(p)
<1>1. CASE ClientStep
  <2>1. CASE \E x \in Xids : Begin(x) \/ \E d \in Decisions : Decide(x, d)
    BY <2>1 DEF Begin, Decide, history
  <2>2. CASE \E h \in Handlers, x \in Xids : Request(h, x) \/ RequestError(h, x)
    BY <2>2, Zenon DEF Request, RequestError, FindSession
  <2> QED  BY <1>1, <2>1, <2>2 DEF ClientStep
<1>2. CASE EnvStep
  BY <1>2 DEF EnvStep, Elapse, Connect, Disconnect, Crash, history
<1>3. CASE \E b \in Branches : BranchStep(b)
  BY <1>3 DEF BranchStep, RegisterFind, AcquireLock, AddBranchSession, ReportFind, ReportWrite,
     RegisterError, history
<1>4. CASE \E w \in Workers : Scan(w)
  BY <1>4, Zenon DEF Scan, history
<1>5. CASE UNCHANGED vars
  BY <1>5 DEF vars, history
<1> QED  BY <1>1, <1>2, <1>3, <1>4, <1>5, ProcAnswers DEF Next

\* What an RM is asked for is what the TM has decided.
LEMMA AnswerIsDecision ==
  ASSUME PromiseInv, InTime, NEW p \in Procs, AnswerDone(p)
  PROVE  /\ proc[p].cur \in Entered /\ proc[p].dec \in Decisions /\ tm[TxOf[proc[p].cur]] = proc[p].dec
         /\ acked' = acked \cup {<<proc[p].dec, proc[p].cur>>}
<1>0. /\ IInv /\ CopyOK(p, proc[p], Entered, Excused, Over, Leaving)
      /\ proc[p].pc = "await" /\ proc[p].dec \in Decisions
  BY CopyFacts, LocalFacts DEF PromiseInv, BranchInv, IInv, AnswerDone
<1>1. proc[p].x \in Xids /\ Mandate(proc[p].dec, proc[p].x)
  BY <1>0, WorkFacts DEF IInv, Working
<1>2. tm[proc[p].x] = proc[p].dec
  BY <1>0, <1>1, MandateDecides
<1> QED  BY <1>0, <1>2 DEF CopyOK, BranchesOf, AnswerDone

LEMMA NextDoneOK ==
  ASSUME PromiseInv, InTime, Lasts, [Next]_vars
  PROVE  DoneOK'
<1> SUFFICES ASSUME NEW d \in Decisions, NEW b \in Branches, <<d, b>> \in acked'
             PROVE  b \in Entered' /\ tm'[TxOf[b]] = d
  BY DEF DoneOK
<1>0. IInv /\ TxOf[b] \in Xids
  BY TopologyAssumption DEF PromiseInv, BranchInv
<1>1. b \in Entered /\ tm[TxOf[b]] = d
  <2>1. CASE <<d, b>> \in acked
    BY <2>1 DEF PromiseInv, DoneOK
  <2>2. ASSUME NEW p \in Procs, AnswerDone(p), <<d, b>> \notin acked
        PROVE  b \in Entered /\ tm[TxOf[b]] = d
    BY <2>2, AnswerIsDecision
  <2> QED  BY <2>1, <2>2, AckedSteps
<1> QED  BY <1>0, <1>1, TMSteps DEF Lasts, Advances

\* What the steps do to the requests of a branch.
LEMMA RegSteps ==
  ASSUME BranchInv, StoreWorks, [Next]_vars, NEW b \in Branches
  PROVE  \/ reg'[b] = reg[b]
         \/ reg[b] \in {"none", "lock", "add"} /\ reg'[b] \in {"lock", "add", "refused"}
         \/ reg[b] = "add" /\ reg'[b] = "registered" /\ AddBranchSession(b)
         \/ reg[b] = "registered" /\ reg'[b] \in {"reporting", "done"} /\ ReportFind(b)
         \/ reg[b] = "reporting" /\ reg'[b] = "done"
<1>0. /\ IInv
      /\ reg \in [Branches -> {"none", "lock", "add", "registered", "refused", "reporting", "done"}]
  BY DEF BranchInv, IInv, TypeOK, ClientType
<1>1. CASE UNCHANGED reg
  BY <1>1
<1>2. CASE Crash
  BY <1>0, <1>2 DEF Crash, InFlight, Failed
<1>3. ASSUME NEW c \in Branches, BranchStep(c)
      PROVE  /\ c # b => reg'[b] = reg[b]
             /\ c = b => \/ reg[b] \in {"none", "lock", "add"} /\ reg'[b] \in {"lock", "add", "refused"}
                         \/ reg[b] = "add" /\ reg'[b] = "registered" /\ AddBranchSession(b)
                         \/ reg[b] = "registered" /\ reg'[b] \in {"reporting", "done"} /\ ReportFind(b)
                         \/ reg[b] = "reporting" /\ reg'[b] = "done"
  <2>1. CASE RegisterFind(c) \/ AcquireLock(c)
    BY <1>0, <2>1 DEF RegisterFind, AcquireLock
  <2>2. CASE AddBranchSession(c)
    BY <1>0, <2>2 DEF AddBranchSession
  <2>3. CASE ReportFind(c)
    BY <1>0, <2>3 DEF ReportFind
  <2>4. CASE ReportWrite(c)
    BY <1>0, <2>4 DEF ReportWrite
  <2> QED  BY <1>0, <1>3, <2>1, <2>2, <2>3, <2>4, NoErrors DEF BranchStep
<1>4. CASE ClientStep
  <2>1. CASE \E x \in Xids : Begin(x) \/ \E d \in Decisions : Decide(x, d)
    BY <1>1, <2>1 DEF Begin, Decide
  <2>2. CASE \E h \in Handlers, x \in Xids : Request(h, x) \/ RequestError(h, x)
    BY <1>1, <2>2, Zenon DEF Request, RequestError, FindSession
  <2> QED  BY <1>4, <2>1, <2>2 DEF ClientStep
<1>5. CASE EnvStep \/ (\E w \in Workers : Scan(w)) \/ UNCHANGED vars
  <2>1. CASE EnvStep
    BY <1>1, <1>2, <2>1 DEF EnvStep, Elapse, Connect, Disconnect, clients
  <2>2. CASE \E w \in Workers : Scan(w)
    BY <1>1, <2>2, Zenon DEF Scan, clients
  <2>3. CASE UNCHANGED vars
    BY <1>1, <2>3 DEF vars, clients
  <2> QED  BY <1>5, <2>1, <2>2, <2>3
<1>6. CASE \E p \in Procs : ProcStep(p)
  BY <1>0, <1>1, <1>6, FrameOfProcStep
<1> QED  BY <1>3, <1>4, <1>5, <1>6 DEF Next

LEMMA NextReportOK ==
  ASSUME PromiseInv, StoreWorks, [Next]_vars
  PROVE  ReportOK'
<1> SUFFICES ASSUME NEW b \in Branches, bs'[b] = "PhaseOneFailed" PROVE reg'[b] = "done"
  BY DEF ReportOK
<1>0. /\ BranchInv /\ IInv /\ bs \in [Branches -> {"None", "Registered", "PhaseOneFailed"}]
      /\ reg \in [Branches -> {"none", "lock", "add", "registered", "refused", "reporting", "done"}]
  BY DEF PromiseInv, BranchInv, IInv, TypeOK, StoreType, ClientType
<1>1. CASE bs[b] = "PhaseOneFailed"
  BY <1>0, <1>1, RegSteps DEF PromiseInv, ReportOK
<1>2. ASSUME NEW c \in Branches, BranchStep(c), bs[b] # "PhaseOneFailed" PROVE reg'[b] = "done"
  <2>1. CASE ReportWrite(c)
    BY <1>0, <1>2, <2>1 DEF ReportWrite
  <2>2. CASE AddBranchSession(c)
    BY <1>0, <1>2, <2>2 DEF AddBranchSession
  <2> QED  BY <1>0, <1>2, <2>1, <2>2, NoErrors DEF BranchStep, RegisterFind, AcquireLock, ReportFind,
              store
<1>3. ASSUME NEW p \in Procs, ProcStep(p) PROVE bs[b] = "PhaseOneFailed"
  <2>1. CASE UNCHANGED bs
    BY <2>1
  <2>2. CASE RemoveBranchSession(p) \/ \E c \in Branches : RemoveLeftBranch(p, c)
    <3>1. ASSUME NEW c, bs' = [bs EXCEPT ![c] = "None"] PROVE bs[b] = "PhaseOneFailed"
      BY <1>0, <3>1
    <3> QED  BY <2>2, <3>1, Zenon DEF RemoveBranchSession, RemoveLeftBranch
  <2>3. CASE \/ FindBranches(p) \/ CloseSession(p) \/ ReleaseOnCommit(p) \/ RecordDecision(p)
             \/ AlreadyDecided(p) \/ DeferCommit(p) \/ RecordRetry(p) \/ ReleaseBranch(p)
    BY <2>1, <2>3, Zenon DEF FindBranches, ReadBranches, CloseSession, ReleaseOnCommit,
       RecordDecision, AlreadyDecided, DeferCommit, RecordRetry, ReleaseBranch, store
  <2>4. CASE \/ p = "timeoutCheck" /\ (RecordTimeout \/ \E x \in Xids : PickTimeout(x))
             \/ \E x \in Xids : PickRetry(p, x)
    BY <2>1, <2>4, Zenon DEF RecordTimeout, PickTimeout, PickRetry, store
  <2>5. CASE Recheck(p) \/ FinalStatus(p) \/ FinalUnlock(p) \/ RemoveGlobalSession(p)
    BY <2>1, <2>5, Zenon DEF Recheck, FinalStatus, FinalUnlock, RemoveGlobalSession, store
  <2>6. CASE Proceed(p)
    BY <2>2, <2>3, <2>4, <2>5, <2>6 DEF Proceed
  <2> QED  BY <1>3, <2>1, <2>6, StatusKept DEF ProcStep
<1>4. CASE ClientStep \/ EnvStep \/ (\E w \in Workers : Scan(w)) \/ UNCHANGED vars
  <2>1. CASE ClientStep
    <3>1. CASE \E x \in Xids : Begin(x) \/ \E d \in Decisions : Decide(x, d)
      BY <1>1, <3>1 DEF Begin, Decide, store
    <3>2. CASE \E h \in Handlers, x \in Xids : Request(h, x) \/ RequestError(h, x)
      BY <1>1, <3>2, Zenon DEF Request, RequestError, FindSession, store
    <3> QED  BY <2>1, <3>1, <3>2 DEF ClientStep
  <2>2. CASE EnvStep
    BY <1>1, <2>2 DEF EnvStep, Elapse, Connect, Disconnect, Crash, store
  <2>3. CASE \E w \in Workers : Scan(w)
    BY <1>1, <2>3, Zenon DEF Scan, store
  <2>4. CASE UNCHANGED vars
    BY <1>1, <2>4 DEF vars, store
  <2> QED  BY <1>4, <2>1, <2>2, <2>3, <2>4
<1> QED  BY <1>1, <1>2, <1>3, <1>4 DEF Next

LEMMA NextClearedOK ==
  ASSUME PromiseInv, StoreWorks, Lasts, [Next]_vars
  PROVE  ClearedOK'
<1> SUFFICES ASSUME NEW b \in Branches, b \in Entered', bs'[b] = "None" PROVE Cleared(b)'
  BY DEF ClearedOK, Entered
<1>0. /\ BranchInv /\ TxOf[b] \in Xids
      /\ bs \in [Branches -> {"None", "Registered", "PhaseOneFailed"}]
  BY TopologyAssumption DEF PromiseInv, BranchInv, IInv, TypeOK, StoreType
<1>1. ASSUME Cleared(b) PROVE Cleared(b)'
  <2>1. reg[b] \in {"reporting", "done"} => reg'[b] \in {"reporting", "done"}
    BY <1>0, RegSteps
  <2>2. Pardoned(TxOf[b]) => Pardoned(TxOf[b])'
    BY <1>0 DEF Pardoned, Lasts, Lasting, BranchesOf
  <2> QED  BY <1>1, <2>1, <2>2 DEF Cleared, Lasts, Lasting
<1>2. CASE b \in Entered /\ bs[b] = "None"
  BY <1>1, <1>2 DEF PromiseInv, ClearedOK
<1>3. CASE b \in Entered /\ bs[b] # "None"
  <2>1. b \in Excused
    BY <1>0, <1>3, RowDeleted
  <2>2. Cleared(b)
    BY <1>0, <1>3, <2>1 DEF Excused, Cleared, PromiseInv, ReportOK
  <2> QED  BY <1>1, <2>2
<1>4. CASE b \notin Entered
  <2>1. AddBranchSession(b)
    BY <1>0, <1>4, RegSteps DEF Entered
  <2> QED  BY <1>0, <2>1 DEF AddBranchSession
<1> QED  BY <1>2, <1>3, <1>4

LEMMA PromiseInvariance ==
  ASSUME InTime, StoreWorks
  PROVE  Spec => []PromiseInv
<1>1. Init => PromiseInv
  <2> SUFFICES ASSUME Init PROVE PromiseInv
    OBVIOUS
  <2>1. OpenOK /\ BranchInv
    BY InitEnd, InitBranch DEF EndInv
  <2>2. EndsOK /\ ClosedOK /\ DoneOK /\ ReportOK /\ ClearedOK
    BY DEF Init, EndsOK, Idle, Ending, ClosedOK, Decided, Decisions, DoneOK, ReportOK, ClearedOK, Entered
  <2> QED  BY <2>1, <2>2 DEF PromiseInv
<1>2. PromiseInv /\ EndInv' /\ BranchInv' /\ [Next]_vars => PromiseInv'
  <2> SUFFICES ASSUME PromiseInv, EndInv', BranchInv', [Next]_vars PROVE PromiseInv'
    OBVIOUS
  <2>1. Lasts
    BY NextLasts DEF PromiseInv
  <2>2. EndsOK' /\ ClosedOK' /\ DoneOK'
    BY <2>1, NextEndsOK, NextClosedOK, NextDoneOK
  <2>3. ReportOK' /\ ClearedOK'
    BY <2>1, NextReportOK, NextClearedOK
  <2> QED  BY <2>2, <2>3 DEF PromiseInv, EndInv
<1>3. Spec => []EndInv /\ []BranchInv
  BY EndInvariance, BranchInvariance DEF InTime
<1> QED  BY <1>1, <1>2, <1>3, PTL DEF Spec


-----------------------------------------------------------------------------
(* Which step of GlobalTransaction each step is. *)

Stages   == [b \in Branches |-> Progress(b)]
Pardons  == {x \in Xids : Pardoned(x)}
Gone     == {x \in Xids : tm[x] \in Decisions /\ status[x] = "None"}
Informed == {x \in Xids : "Finished" \in told[x]}

\* What each part of the picture depends on.
LEMMA SeenFrame ==
  /\ UNCHANGED reg => UNCHANGED Stages
  /\ UNCHANGED <<past, refused>> => UNCHANGED Pardons
  /\ UNCHANGED <<tm, status>> => UNCHANGED Gone
  /\ UNCHANGED told => UNCHANGED Informed
  BY DEF Stages, Progress, Pardons, Pardoned, Gone, Informed

\* A step that changes nothing of it.
LEMMA StepUnseen ==
  ASSUME UNCHANGED <<tm, Stages, acked, Pardons, Gone, Informed>>
  PROVE  UNCHANGED Abstract!vars
  BY DEF Abstract!vars, Stages, Pardons, Gone, Informed

LEMMA StepPardons ==
  ASSUME NEW x \in Xids, tm[x] # "none", Pardons' = Pardons \/ Pardons' = Pardons \cup {x},
         UNCHANGED <<tm, Stages, acked, Gone, Informed>>
  PROVE  Abstract!Next \/ UNCHANGED Abstract!vars
<1>1. CASE Pardons' = Pardons
  BY <1>1, StepUnseen
<1>2. CASE Pardons' = Pardons \cup {x}
  <2>1. Abstract!Pardon(x)
    BY <1>2 DEF Abstract!Pardon, Stages, Pardons, Gone, Informed
  <2> QED  BY <2>1 DEF Abstract!Next
<1> QED  BY <1>1, <1>2

\* Requests of the TM.
LEMMA ClientPromise ==
  ASSUME PromiseInv, StoreWorks, ClientStep
  PROVE  Abstract!Next \/ UNCHANGED Abstract!vars
<1>0. /\ IInv /\ OpenOK /\ tm \in [Xids -> {"none", "active"} \cup Decisions]
      /\ status \in [Xids -> Status]
      /\ told \in [Xids -> SUBSET (Status \cup {"Finished"})]
      /\ "none" \notin Decisions /\ "active" \notin Decisions
  BY DEF PromiseInv, BranchInv, IInv, TypeOK, StoreType, ClientType, HistoryType, Decisions
<1>1. ASSUME NEW x \in Xids, Begin(x) PROVE Abstract!Next
  <2>1. /\ tm[x] = "none" /\ tm' = [tm EXCEPT ![x] = "active"]
        /\ status' = [status EXCEPT ![x] = "Begin"]
        /\ UNCHANGED <<reg, past, refused, acked, told>>
    BY <1>1 DEF Begin, faults, history
  <2>2. UNCHANGED Gone
    BY <1>0, <2>1 DEF Gone
  <2>3. Abstract!Begin(x)
    BY <2>1, <2>2, SeenFrame DEF Abstract!Begin, Stages, Pardons, Gone, Informed
  <2> QED  BY <2>3 DEF Abstract!Next
<1>2. ASSUME NEW x \in Xids, NEW d \in Decisions, Decide(x, d) PROVE Abstract!Next
  <2>1. /\ tm[x] = "active" /\ tm' = [tm EXCEPT ![x] = d]
        /\ UNCHANGED <<status, reg, past, refused, acked, told>>
    BY <1>2 DEF Decide, store, faults, history
  <2>2. UNCHANGED Gone
    BY <1>0, <2>1 DEF Gone, OpenOK
  <2>3. Abstract!Decide(x, d)
    BY <2>1, <2>2, SeenFrame DEF Abstract!Decide, Stages, Pardons, Gone, Informed
  <2> QED  BY <2>3 DEF Abstract!Next, Abstract!Decisions, Decisions
<1>3. ASSUME NEW h \in Handlers, NEW x \in Xids, Request(h, x)
      PROVE  Abstract!Next \/ UNCHANGED Abstract!vars
  <2>1. UNCHANGED <<status, reg, past, refused, acked, tm>> /\ tm[x] \in Decisions
    BY <1>3, Zenon DEF Request, FindSession, store
  <2>2. \/ UNCHANGED told
        \/ status[x] = "None" /\ told' = [told EXCEPT ![x] = @ \cup {"Finished"}]
    BY <1>3, Zenon DEF Request, FindSession
  <2>3. CASE UNCHANGED told
    BY <2>1, <2>3, SeenFrame, StepUnseen
  <2>4. CASE status[x] = "None" /\ told' = [told EXCEPT ![x] = @ \cup {"Finished"}]
    <3>1. Informed' = Informed \cup {x}
      BY <1>0, <2>4 DEF Informed
    <3>2. x \in Gone
      BY <2>1, <2>4 DEF Gone
    <3>3. Abstract!TellFinished(x)
      BY <2>1, <3>1, <3>2, SeenFrame DEF Abstract!TellFinished, Stages, Pardons, Gone, Informed
    <3> QED  BY <3>3 DEF Abstract!Next
  <2> QED  BY <2>2, <2>3, <2>4
<1> QED  BY <1>0, <1>1, <1>2, <1>3, NoErrors DEF ClientStep

\* Time, streams and crashes: only the end of the retries is seen.
LEMMA EnvPromise ==
  ASSUME PromiseInv, EnvStep
  PROVE  Abstract!Next \/ UNCHANGED Abstract!vars
<1>0. /\ BegunOK /\ past \in [Xids -> SUBSET Deadlines]
      /\ reg \in [Branches -> {"none", "lock", "add", "registered", "refused", "reporting", "done"}]
  BY DEF PromiseInv, BranchInv, IInv, TypeOK, ClientType, FaultType
<1>1. ASSUME NEW x \in Xids, NEW limit \in Limits, Elapse(x, limit)
      PROVE  Abstract!Next \/ UNCHANGED Abstract!vars
  <2>1. /\ status[x] # "None" /\ past' = [past EXCEPT ![x] = @ \cup {limit}]
        /\ UNCHANGED <<status, tm, reg, acked, refused, told>>
    BY <1>1 DEF Elapse, store, clients, history
  <2>2. tm[x] # "none"
    BY <1>0, <2>1 DEF BegunOK
  <2>3. \A y \in Xids : "retry" \in past'[y] <=> "retry" \in past[y] \/ (y = x /\ limit = "retry")
    BY <1>0, <2>1
  <2>4. Pardons' = Pardons \/ Pardons' = Pardons \cup {x}
    BY <2>1, <2>3 DEF Pardons, Pardoned
  <2> QED  BY <2>1, <2>2, <2>4, SeenFrame, StepPardons
<1>2. CASE Crash
  <2>1. UNCHANGED <<status, tm, past, acked, refused, told>>
    BY <1>2 DEF Crash, store, history
  <2>2. \A b \in Branches : Progress(b)' = Progress(b)
    BY <1>0, <1>2 DEF Crash, InFlight, Failed, Progress
  <2>3. UNCHANGED Stages
    BY <2>2 DEF Stages
  <2> QED  BY <2>1, <2>3, SeenFrame, StepUnseen
<1>3. ASSUME NEW a \in Apps, Connect(a) \/ Disconnect(a) PROVE UNCHANGED Abstract!vars
  <2>1. UNCHANGED <<status, tm, reg, past, acked, refused, told>>
    BY <1>3 DEF Connect, Disconnect, store, clients, history
  <2> QED  BY <2>1, SeenFrame, StepUnseen
<1> QED  BY <1>1, <1>2, <1>3 DEF EnvStep

\* Requests of an RM: a branch enters, or fails in phase one, before the decision.
LEMMA BranchPromise ==
  ASSUME PromiseInv, InTime, StoreWorks, NEW b \in Branches, BranchStep(b)
  PROVE  Abstract!Next \/ UNCHANGED Abstract!vars
<1>0. /\ IInv /\ AwaitedOK
      /\ reg \in [Branches -> {"none", "lock", "add", "registered", "refused", "reporting", "done"}]
  BY DEF PromiseInv, BranchInv, IInv, TypeOK, ClientType
<1>1. UNCHANGED <<status, tm, past, acked, refused, told>>
  BY <1>0, NoErrors DEF BranchStep, RegisterFind, AcquireLock, AddBranchSession, ReportFind, ReportWrite, store,
     faults, history
<1>2. CASE RegisterFind(b) \/ AcquireLock(b) \/ ReportWrite(b)
  <2>1. \A c \in Branches : Progress(c)' = Progress(c)
    <3>1. CASE RegisterFind(b)
      BY <1>0, <3>1 DEF RegisterFind, Progress
    <3>2. CASE AcquireLock(b)
      BY <1>0, <3>2 DEF AcquireLock, Progress
    <3>3. CASE ReportWrite(b)
      BY <1>0, <3>3 DEF ReportWrite, Progress
    <3> QED  BY <1>2, <3>1, <3>2, <3>3
  <2>2. UNCHANGED Stages
    BY <2>1 DEF Stages
  <2> QED  BY <1>1, <2>2, SeenFrame, StepUnseen
<1>3. CASE AddBranchSession(b)
  <2>1. reg[b] = "add" /\ reg' = [reg EXCEPT ![b] = "registered"]
    BY <1>3 DEF AddBranchSession
  <2>2. tm[TxOf[b]] = "active"
    BY <1>0, <2>1 DEF AwaitedOK, InFlight
  <2>3. Stages[b] = "none" /\ Stages' = [Stages EXCEPT ![b] = "entered"]
    BY <1>0, <2>1 DEF Stages, Progress
  <2>4. Abstract!Enter(b)
    BY <1>1, <2>2, <2>3, SeenFrame DEF Abstract!Enter, Abstract!Advance, Stages, Pardons, Gone, Informed
  <2> QED  BY <2>4 DEF Abstract!Next
<1>4. CASE ReportFind(b)
  <2>1. reg[b] = "registered" /\ reg' = [reg EXCEPT ![b] = reg'[b]] /\ reg'[b] \in {"reporting", "done"}
    BY <1>0, <1>4 DEF ReportFind
  <2>2. tm[TxOf[b]] = "active"
    BY <1>4 DEF ReportFind, InTime
  <2>3. Stages[b] = "entered" /\ Stages' = [Stages EXCEPT ![b] = "failed"]
    <3>1. \A c \in Branches : c # b => reg'[c] = reg[c]
      BY <1>0, <2>1
    <3>2. /\ Progress(b) = "entered" /\ Progress(b)' = "failed"
          /\ \A c \in Branches : c # b => Progress(c)' = Progress(c)
      BY <2>1, <3>1 DEF Progress
    <3> QED  BY <3>2 DEF Stages
  <2>4. Abstract!FailPhaseOne(b)
    BY <1>1, <2>2, <2>3, SeenFrame DEF Abstract!FailPhaseOne, Abstract!Advance, Stages, Pardons,
       Gone, Informed
  <2> QED  BY <2>4 DEF Abstract!Next
<1> QED  BY <1>0, <1>2, <1>3, <1>4, NoErrors DEF BranchStep

\* What a process tells a TM.
LEMMA ProcTold ==
  ASSUME IInv, StoreWorks, NEW p \in Procs, ProcStep(p)
  PROVE  UNCHANGED Informed
<1>0. told \in [Xids -> SUBSET (Status \cup {"Finished"})]
  BY DEF IInv, TypeOK, HistoryType
<1>1. UNCHANGED told \/ \E s : Reply(p, s)
  <2>1. Finished(p) => \E s : Reply(p, s)
    BY Zenon DEF Finished
  <2>2. ASSUME NEW b, NotDone(p, b) PROVE UNCHANGED told \/ \E s : Reply(p, s)
    BY <2>1, <2>2, Zenon DEF NotDone
  <2>3. CASE Proceed(p)
    <3>1. CASE \/ FindBranches(p) \/ CloseSession(p) \/ ReleaseOnCommit(p) \/ RecordDecision(p)
               \/ ReleaseBranch(p) \/ RemoveBranchSession(p) \/ FinalStatus(p) \/ FinalUnlock(p)
      BY <3>1, Zenon DEF FindBranches, ReadBranches, CloseSession, ReleaseOnCommit, RecordDecision,
         ReleaseBranch, RemoveBranchSession, FinalStatus, FinalUnlock, history
    <3>2. CASE \/ p = "timeoutCheck" /\ (RecordTimeout \/ \E x \in Xids : PickTimeout(x))
               \/ \E x \in Xids : PickRetry(p, x)
      BY <3>2, Zenon DEF RecordTimeout, PickTimeout, PickRetry, history
    <3>3. CASE AlreadyDecided(p) \/ DeferCommit(p) \/ RecordRetry(p)
      BY <3>3, Zenon DEF AlreadyDecided, DeferCommit, RecordRetry
    <3>4. CASE Recheck(p) \/ RemoveGlobalSession(p) \/ \E b \in Branches : RemoveLeftBranch(p, b)
      BY <2>1, <3>4, Zenon DEF Recheck, RemoveGlobalSession, RemoveLeftBranch
    <3> QED  BY <2>3, <3>1, <3>2, <3>3, <3>4 DEF Proceed
  <2>4. CASE Walk(p) \/ \E b \in Branches : SendCallback(p, b)
    BY <2>2, <2>4, Zenon DEF Walk, RefuseSaga, EndOfWalk, DropFailedBranch, QueueNotReady, SendCallback,
       history
  <2>5. CASE Await(p)
    BY <2>2, <2>5, Zenon DEF Await, AnswerDone, AnswerRetryable, AnswerCannotRetry, AnswerError, history
  <2> QED  BY <2>3, <2>4, <2>5, NoErrors DEF ProcStep
<1>2. ASSUME NEW s, Reply(p, s), NEW x \in Xids PROVE told[x] \subseteq told'[x]
  BY <1>0, <1>2 DEF Reply
<1>3. \A x \in Xids : "Finished" \in told[x] => "Finished" \in told'[x]
  BY <1>1, <1>2
<1>4. \A x \in Xids : "Finished" \in told'[x] => "Finished" \in told[x]
  BY ProcFinished
<1> QED  BY <1>3, <1>4 DEF Informed

\* The end of a transaction: all its branches have done what was to be done.
LEMMA ClosedSettled ==
  ASSUME PromiseInv, NEW x \in Closed
  PROVE  x \in Pardons \/ \A b \in Branches : TxOf[b] = x => Abstract!Settled(b)
<1>1. x \in Xids /\ Decided(x) /\ (Pardoned(x) \/ \A b \in BranchesOf(x) : bs[b] = "None")
  BY DEF Closed
<1>2. ASSUME ~Pardoned(x), NEW b \in Branches, TxOf[b] = x
      PROVE  Stages[b] # "entered" \/ <<tm[x], b>> \in acked
  <2>1. bs[b] = "None"
    BY <1>1, <1>2 DEF BranchesOf
  <2>2. CASE b \notin Entered \/ reg[b] \in {"reporting", "done"}
    BY <2>2 DEF Entered, Stages, Progress
  <2>3. CASE b \in Entered /\ reg[b] \notin {"reporting", "done"}
    <3>1. PICK d \in Decisions : <<d, b>> \in acked
      BY <1>2, <2>1, <2>3 DEF PromiseInv, ClearedOK, Cleared, Decisions
    <3> QED  BY <1>2, <3>1 DEF PromiseInv, DoneOK
  <2> QED  BY <2>2, <2>3
<1> QED  BY <1>1, <1>2 DEF Pardons, Stages, Abstract!Settled

LEMMA StepEnds ==
  ASSUME PromiseInv, NEW x \in Closed, Gone' = Gone \cup {x},
         UNCHANGED <<tm, Stages, acked, Pardons, Informed>>
  PROVE  Abstract!Next
<1>1. x \in Xids /\ Decided(x)
  BY DEF Closed
<1>2. x \in Pardons \/ \A b \in Branches : TxOf[b] = x => Abstract!Settled(b)
  BY ClosedSettled
<1>3. Abstract!End(x)
  BY <1>1, <1>2 DEF Abstract!End, Abstract!Decided, Abstract!Decisions, Abstract!BranchesOf,
     Decided, Decisions, Stages, Pardons, Gone, Informed
<1> QED  BY <1>1, <1>3 DEF Abstract!Next

\* Handlers and workers: an answer of an RM is a step of GlobalTransaction, and so is the end.
LEMMA ProcPromise ==
  ASSUME PromiseInv, InTime, StoreWorks, NEW p \in Procs, ProcStep(p)
  PROVE  Abstract!Next \/ UNCHANGED Abstract!vars
<1>0. /\ IInv /\ UNCHANGED <<reg, tm, past>> /\ UNCHANGED Informed /\ UNCHANGED Stages
      /\ CopyOK(p, proc[p], Entered, Excused, Over, Leaving)
  BY FrameOfProcStep, ProcTold, SeenFrame, CopyFacts DEF PromiseInv, BranchInv
<1>1. CASE AnswerDone(p)
  <2> PICK b, d : b = proc[p].cur /\ d = proc[p].dec
    OBVIOUS
  <2>1. b \in Entered /\ d \in Decisions /\ tm[TxOf[b]] = d /\ acked' = acked \cup {<<d, b>>}
    BY <1>1, AnswerIsDecision
  <2>2. UNCHANGED <<status, refused>>
    BY <1>1, Zenon DEF AnswerDone, store
  <2>3. b \in Branches /\ Stages[b] # "none"
    BY <2>1 DEF Entered, Stages, Progress
  <2>4. UNCHANGED <<Pardons, Gone>>
    BY <1>0, <2>2, SeenFrame
  <2>5. Abstract!CarryOut(b)
    BY <1>0, <2>1, <2>3, <2>4 DEF Abstract!CarryOut, Abstract!Decided, Abstract!Decisions, Decisions,
       Stages, Pardons, Gone, Informed
  <2> QED  BY <2>3, <2>5 DEF Abstract!Next
<1>2. CASE AnswerCannotRetry(p)
  <2> PICK x, b, d : x = proc[p].x /\ b = proc[p].cur /\ d = proc[p].dec
    OBVIOUS
  <2>1. /\ proc[p].pc = "await" /\ refused' = refused \cup {<<d, b>>} /\ UNCHANGED <<status, acked>>
    BY <1>2, Zenon DEF AnswerCannotRetry, store
  <2>2. x \in Xids /\ Decided(x) /\ b \in BranchesOf(x) /\ d \in Decisions
    BY <1>0, <2>1, WorkDecided, LocalFacts DEF CopyOK, Working, IInv
  <2>3. \A y \in Xids : Pardoned(y)' <=> Pardoned(y) \/ y = x
    BY <1>0, <2>1, <2>2 DEF Pardoned, BranchesOf
  <2>4. Pardons' = Pardons \cup {x} /\ UNCHANGED Gone
    BY <1>0, <2>1, <2>2, <2>3, SeenFrame DEF Pardons
  <2> QED  BY <1>0, <2>1, <2>2, <2>4, StepPardons DEF Decided, Decisions
<1>3. CASE ~AnswerDone(p) /\ ~AnswerCannotRetry(p)
  <2>1. UNCHANGED <<acked, Pardons>>
    BY <1>0, <1>3, ProcAnswers, SeenFrame
  <2>2. Gone \subseteq Gone'
    BY <1>0, GoneStays DEF Gone, Decided, Next
  <2>3. CASE Gone' = Gone
    BY <1>0, <2>1, <2>3, StepUnseen
  <2>4. ASSUME NEW x \in Gone', x \notin Gone PROVE Abstract!Next
    <3>1. \A y \in Gone' : y \notin Gone => y = proc[p].x /\ proc[p].pc = "finalSession"
      BY <1>0, SessionDeleted DEF Gone
    <3>2. x \in Closed /\ x \in Xids
      BY <2>4, <3>1 DEF PromiseInv, EndsOK, Ending, Gone
    <3>3. Gone' = Gone \cup {x}
      BY <2>2, <2>4, <3>1
    <3> QED  BY <1>0, <2>1, <3>2, <3>3, StepEnds
  <2> QED  BY <2>2, <2>3, <2>4
<1> QED  BY <1>1, <1>2, <1>3

\* The coordinator does what GlobalTransaction promises, for any topology, any number of handlers,
\* crashes, give-ups and refusals, and failures of phase one reported by BranchReport: whatever
\* handlers and workers do with their copies of the rows, a branch carries out the decision its TM
\* sent by Commit or Rollback and no other, and RemoveGlobalTransaction ends the transaction, for
\* the TM too, when every branch has carried it out, its phase one has failed, an RM has refused
\* for good or the retries have run out.  Transactions are decided in time and no query fails.
THEOREM CoordinatorImplements ==
  ASSUME InTime, StoreWorks
  PROVE  Spec => ImplementsGlobalTransaction
<1>1. Init => Abstract!Init
  <2> SUFFICES ASSUME Init PROVE Abstract!Init
    OBVIOUS
  <2>1. \A x \in Xids : ~Pardoned(x) /\ tm[x] \notin Decisions /\ "Finished" \notin told[x]
    BY DEF Init, Pardoned, Decisions
  <2>2. \A b \in Branches : Progress(b) = "none"
    BY DEF Init, Progress
  <2> QED  BY <2>1, <2>2 DEF Init, Abstract!Init
<1>2. PromiseInv /\ [Next]_vars => [Abstract!Next]_(Abstract!vars)
  <2> SUFFICES ASSUME PromiseInv, [Next]_vars PROVE Abstract!Next \/ UNCHANGED Abstract!vars
    OBVIOUS
  <2>1. CASE UNCHANGED vars
    BY <2>1, SeenFrame, StepUnseen DEF vars, store, clients, faults, history
  <2>2. ASSUME NEW w \in Workers, Scan(w) PROVE UNCHANGED Abstract!vars
    <3>1. UNCHANGED <<status, tm, reg, past, acked, refused, told>>
      BY <2>2, Zenon DEF Scan, store, clients, faults, history
    <3> QED  BY <3>1, SeenFrame, StepUnseen
  <2> QED  BY <2>1, <2>2, ClientPromise, EnvPromise, BranchPromise, ProcPromise DEF Next
<1> QED  BY <1>1, <1>2, PromiseInvariance, PTL DEF Spec, Abstract!Spec, ImplementsGlobalTransaction

\* So it is all or nothing: no transaction is committed by one branch and rolled back by another,
\* and one whose session is gone, or whose TM was told Finished, has had its decision carried out
\* by every branch whose phase one was a success, unless it was given up.
THEOREM AllOrNothing ==
  ASSUME InTime, StoreWorks
  PROVE  Spec => []Abstract!AllOrNothing
<1>1. PromiseInv /\ FinishedOK => Abstract!AllOrNothing
  <2> SUFFICES ASSUME PromiseInv, FinishedOK PROVE Abstract!AllOrNothing
    OBVIOUS
  <2>1. ASSUME NEW b \in Branches, NEW c \in Branches, TxOf[b] = TxOf[c]
        PROVE  ~(<<"commit", b>> \in acked /\ <<"rollback", c>> \in acked)
    BY <2>1 DEF PromiseInv, DoneOK, Decisions
  <2>2. Gone \cup Informed \subseteq Closed
    BY DEF PromiseInv, ClosedOK, FinishedOK, Gone, Informed, Decided
  <2>3. \A x \in Gone \cup Informed :
          x \in Pardons \/ \A b \in Branches : TxOf[b] = x => Abstract!Settled(b)
    BY <2>2, ClosedSettled
  <2> QED  BY <2>1, <2>3 DEF Abstract!AllOrNothing, Abstract!BranchesOf, Gone, Informed, Pardons
<1>2. Init => FinishedOK
  BY DEF Init, FinishedOK
<1>3. PromiseInv /\ FinishedOK /\ [Next]_vars => FinishedOK'
  BY NextFinished DEF PromiseInv, BranchInv
<1> QED  BY <1>1, <1>2, <1>3, PromiseInvariance, PTL DEF Spec
=============================================================================
