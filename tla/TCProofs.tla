------------------------------ MODULE TCProofs ------------------------------
(***************************************************************************)
(* Theorems about the transaction coordinator, for every topology of       *)
(* transactions, branches, rows and applications, any number of handlers   *)
(* and every choice of the bounds.                                         *)
(***************************************************************************)
EXTENDS TCProperties, TLAPS

-----------------------------------------------------------------------------
(* Types: what the helpers of the specification do to them. *)

LEMMA IdleType == Idle \in LocalState
  BY DEF Idle, LocalState, Labels, Decisions, Status

\* The parts of the state that an action leaves alone keep their type.
LEMMA KeepType ==
  /\ StoreType /\ UNCHANGED store => StoreType'
  /\ ClientType /\ UNCHANGED clients => ClientType'
  /\ FaultType /\ UNCHANGED faults => FaultType'
  /\ HistoryType /\ UNCHANGED history => HistoryType'
  BY DEF StoreType, store, ClientType, clients, FaultType, faults, HistoryType, history

LEMMA SetStatusType ==
  ASSUME status \in [Xids -> Status], NEW x, NEW s \in Status, SetStatus(x, s)
  PROVE  status' \in [Xids -> Status]
  BY DEF SetStatus

LEMMA UnlockType ==
  ASSUME lock \in [Rows -> Xids \cup {NoXid}], NEW x, NEW B, Unlock(x, B)
  PROVE  lock' \in [Rows -> Xids \cup {NoXid}]
  BY DEF Unlock

LEMMA StatusOfType == \A d \in Decisions : StatusOf(d) \subseteq Status
  BY DEF Decisions, StatusOf, Status

ToldType == told \in [Xids -> SUBSET (Status \cup {"Finished"})]

LEMMA ReplyType ==
  ASSUME ToldType, NEW p \in Procs, NEW s \in Status, Reply(p, s)
  PROVE  ToldType'
  BY DEF ToldType, Reply

\* What is known of the local state of a process.
LEMMA LocalFacts ==
  ASSUME ProcInv, NEW p \in Procs
  PROVE  /\ proc[p] \in LocalState /\ LocalOK(p, proc[p]) /\ MandateOf(p, proc[p])
         /\ proc[p].pc \in Labels /\ proc[p].dec \in Decisions /\ proc[p].goal \in Status
         /\ proc[p].st \in [Xids -> Status] /\ proc[p].list \subseteq Xids
         /\ proc[p].view \subseteq Branches /\ proc[p].todo \subseteq Branches
         /\ View(p) \subseteq Branches
<1>1. proc[p] \in LocalState /\ LocalOK(p, proc[p]) /\ MandateOf(p, proc[p])
  BY DEF ProcInv, ProcType
<1> QED  BY <1>1 DEF LocalState, View

\* A process with work to do works on a transaction of its list, which it may end.
LEMMA WorkFacts ==
  ASSUME ProcInv, NEW p \in Procs, proc[p].pc \in Working
  PROVE  /\ proc[p].x \in proc[p].list /\ proc[p].x \in Xids
         /\ Mandate(proc[p].dec, proc[p].x)
<1>1. proc[p].x \in proc[p].list /\ proc[p].x \in Xids
  BY LocalFacts DEF LocalOK, Walking
<1>2. Mandate(proc[p].dec, proc[p].x)
  BY <1>1, LocalFacts DEF LocalOK, Walking, MandateOf, Working, Concluding
<1> QED  BY <1>1, <1>2

-----------------------------------------------------------------------------
(* Steps of one process: the invariant of all processes is kept when the   *)
(* new local state of p is as it should be.                                *)

LEMMA BecomesInv ==
  ASSUME ProcInv, NEW p \in Procs, NEW l, Becomes(p, l), UNCHANGED <<tm, past>>,
         LocalOK(p, l), MandateOf(p, l)
  PROVE  ProcInv'
<1>1. l \in LocalState
  BY DEF LocalOK, Walking
<1>2. ProcType'
  BY <1>1 DEF ProcInv, ProcType, Becomes
<1>3. \A q \in Procs : proc'[q] = IF q = p THEN l ELSE proc[q]
  BY DEF ProcInv, ProcType, Becomes
<1>4. \A q \in Procs : LocalOK(q, proc'[q])
  BY <1>3 DEF ProcInv
<1>5. \A q \in Procs : MandateOf(q, proc'[q])
  BY <1>3 DEF ProcInv
<1>6. \A q \in Procs : MandateOf(q, proc[q])'
  BY <1>5 DEF MandateOf, Mandate
<1> QED  BY <1>2, <1>4, <1>6 DEF ProcInv

LEMMA IdleOK ==
  ASSUME NEW p \in Procs
  PROVE  LocalOK(p, Idle) /\ MandateOf(p, Idle)
<1>1. Idle.pc = "idle"
  BY DEF Idle
<1> QED  BY <1>1, IdleType DEF LocalOK, Walking, MandateOf, Working, Concluding

\* From one label to another, with the same work in hand.
LEMMA GotoInv ==
  ASSUME ProcInv, NEW p \in Procs, NEW label \in Working, Goto(p, label), UNCHANGED <<tm, past>>,
         proc[p].pc \in Working,
         p = "timeoutCheck" => label = "decide",
         label = "removeBranch" => proc[p].pc = "unlockBranch",
         label = "unlockBranch" => proc[p].pc = "await",
         label \notin {"drive", "await", "async", "close", "retryStatus", "errorStatus",
                       "recheckBranches"},
         label = "finalStatus" => proc[p].pc = "recheckBranches"
  PROVE  ProcInv'
<1> DEFINE l == [proc[p] EXCEPT !.pc = label]
<1>1. l \in LocalState /\ l.pc = label /\ l.x = proc[p].x /\ l.list = proc[p].list
      /\ l.cur = proc[p].cur /\ l.goal = proc[p].goal /\ l.dec = proc[p].dec
  BY LocalFacts DEF LocalState, Working, Concluding, Labels
<1>2. LocalOK(p, l)
  BY <1>1, LocalFacts, WorkFacts DEF LocalOK, Walking, Working, Concluding
<1>3. MandateOf(p, l)
  BY <1>1, LocalFacts DEF MandateOf, LocalOK, Walking, Working, Concluding
<1> QED  BY <1>2, <1>3, BecomesInv DEF Goto

\* The end of the work on one transaction.
LEMMA ReturnInv ==
  ASSUME ProcInv, NEW p \in Procs, Return(p), UNCHANGED <<tm, past>>, proc[p].pc \in Working
  PROVE  ProcInv'
<1> DEFINE x == proc[p].x
           rest == proc[p].list \ {x}
           l == [proc[p] EXCEPT !.pc = "pick", !.x = NoXid, !.list = rest, !.st[x] = "None",
                                !.open = @ \ {x}, !.view = @ \ BranchesOf(x),
                                !.failed = @ \ BranchesOf(x), !.todo = {},
                                !.cur = NoBranch, !.goal = "None"]
<1>1. proc[p] \in LocalState
  BY LocalFacts
<1>2. l \in LocalState
  BY <1>1 DEF LocalState, Labels, Status
<1>3. l.pc = "pick" /\ l.dec = proc[p].dec /\ l.list = rest
  BY <1>1 DEF LocalState
<1>4. l \in LocalState /\ l.pc = "pick" /\ l.dec = proc[p].dec /\ l.list = rest
  BY <1>2, <1>3
<1>5. LocalOK(p, l)
  BY <1>4, LocalFacts DEF LocalOK, Walking, Working, Concluding
<1>6. MandateOf(p, l)
  BY <1>4, LocalFacts DEF MandateOf, Working, Concluding
<1>7. Becomes(p, IF rest = {} THEN Idle ELSE l)
  BY DEF Return
<1>8. CASE rest = {}
  BY <1>7, <1>8, IdleOK, BecomesInv
<1>9. CASE rest # {}
  BY <1>5, <1>6, <1>7, <1>9, BecomesInv
<1> QED  BY <1>8, <1>9

-----------------------------------------------------------------------------
(* The steps of the processes, one by one: ProcInv is kept. *)

LEMMA FrameOfProcStep ==
  ASSUME IInv, NEW p \in Procs, ProcStep(p)
  PROVE  UNCHANGED <<reg, tm, calls, past, online, crashes>> /\ storeErrors' \in Nat
<1>1. storeErrors \in Nat
  BY DEF IInv, TypeOK, FaultType
<1>2. CASE Proceed(p)
  BY <1>1, <1>2 DEF Proceed, FindBranches, ReadBranches, CloseSession, ReleaseOnCommit,
     RecordDecision, AlreadyDecided, DeferCommit, RecordTimeout, PickTimeout, PickRetry,
     RecordRetry, ReleaseBranch, RemoveBranchSession, Recheck, FinalStatus, FinalUnlock,
     RemoveGlobalSession, RemoveLeftBranch, clients, faults
<1>3. CASE Walk(p) \/ Await(p) \/ \E b \in Branches : SendCallback(p, b)
  BY <1>1, <1>3 DEF Walk, RefuseSaga, EndOfWalk, DropFailedBranch, QueueNotReady, Await,
     AnswerDone, AnswerRetryable, AnswerCannotRetry, AnswerError, SendCallback, clients, faults
<1>4. CASE Faulty(p)
  BY <1>1, <1>4 DEF Faulty, FindBranchesError, ReadBranches, RecheckError, UnlockError,
     WriteError, StoreError, clients
<1> QED  BY <1>2, <1>3, <1>4 DEF ProcStep

LEMMA ReadBranchesInv ==
  ASSUME ProcInv, NEW p \in Procs, NEW rows \in SUBSET Branches, ReadBranches(p, rows),
         UNCHANGED <<tm, past>>
  PROVE  ProcInv'
<1> DEFINE l == [proc[p] EXCEPT !.view = rows,
                                !.failed = {b \in rows : bs[b] = "PhaseOneFailed"},
                                !.pc = IF p \in Handlers THEN "close" ELSE "pick"]
<1>1. proc[p] \in LocalState /\ proc[p].pc = "branches"
  BY LocalFacts DEF ReadBranches
<1>2. l \in LocalState
  BY <1>1 DEF LocalState, Labels
<1>3. l.pc = (IF p \in Handlers THEN "close" ELSE "pick") /\ l.x = proc[p].x
      /\ l.dec = proc[p].dec /\ l.list = proc[p].list
  BY <1>1 DEF LocalState
<1>4. LocalOK(p, l)
  BY <1>1, <1>2, <1>3, LocalFacts DEF LocalOK, Walking, Working, Concluding
<1>5. MandateOf(p, l)
  BY <1>1, <1>3, LocalFacts DEF MandateOf, LocalOK
<1> QED  BY <1>4, <1>5, BecomesInv DEF ReadBranches

LEMMA DrivingInv ==
  ASSUME ProcInv, NEW p \in Procs, p # "timeoutCheck", NEW l \in LocalState, NEW x \in l.list,
         \A y \in l.list : Mandate(l.dec, y), UNCHANGED <<tm, past>>,
         Becomes(p, Driving(l, x))
  PROVE  ProcInv'
<1> DEFINE m == Driving(l, x)
<1>1. /\ m \in LocalState /\ m.pc = "drive" /\ m.x = x /\ m.dec = l.dec /\ m.list = l.list
      /\ m.todo \subseteq BranchesOf(x)
  BY DEF Driving, LocalState, Labels
<1>2. LocalOK(p, m)
  BY <1>1 DEF LocalOK, Walking, Working, Concluding
<1>3. MandateOf(p, m)
  BY <1>1 DEF MandateOf
<1> QED  BY <1>2, <1>3, BecomesInv

\* A change of the local state that keeps p at work on the same transaction.
LEMMA SameWorkInv ==
  ASSUME ProcInv, NEW p \in Procs, proc[p].pc \in Working, NEW l \in LocalState,
         l.x = proc[p].x, l.list = proc[p].list, l.dec = proc[p].dec, l.pc \in Working,
         p = "timeoutCheck" => l.pc = "decide",
         l.pc \in {"await", "unlockBranch", "removeBranch"} => l.cur \in Branches,
         l.pc \in Concluding => l.goal \in StatusOf(l.dec),
         l.pc = "async" => l.dec = "commit",
         l.pc \in Walking => proc[p].pc \in Walking /\ l.todo \subseteq proc[p].todo,
         Becomes(p, l), UNCHANGED <<tm, past>>
  PROVE  ProcInv'
<1>1. proc[p].pc # "idle" /\ l.pc # "idle"
  BY DEF Working, Concluding
<1>2. LocalOK(p, l)
  BY <1>1, LocalFacts, WorkFacts DEF LocalOK, Walking
<1>3. MandateOf(p, l)
  BY <1>1, LocalFacts, WorkFacts DEF MandateOf, LocalOK
<1> QED  BY <1>2, <1>3, BecomesInv

\* p is not timeoutCheck where that goroutine never comes.
LEMMA NotTimeoutCheck ==
  ASSUME ProcInv, NEW p \in Procs, proc[p].pc \notin {"idle", "pick", "close", "decide"}
  PROVE  p # "timeoutCheck"
  BY LocalFacts DEF LocalOK, Walking

LEMMA GoalTypes ==
  ASSUME ProcInv, NEW p \in Procs
  PROVE  /\ RetryGoal(p) \in StatusOf(proc[p].dec) /\ FailedGoal(p) \in StatusOf(proc[p].dec)
         /\ RetryGoal(p) \in Status /\ FailedGoal(p) \in Status
  BY LocalFacts DEF RetryGoal, FailedGoal, StatusOf, CommitStatus, RollbackStatus, TimeoutStatus,
     Status

LEMMA ContinueInv ==
  ASSUME ProcInv, NEW p \in Procs, NEW b, Continue(p, b), UNCHANGED <<tm, past>>,
         proc[p].pc \in {"drive", "await"}
  PROVE  ProcInv'
<1> DEFINE l == [proc[p] EXCEPT !.pc = "drive", !.todo = @ \ {b}, !.cur = NoBranch]
<1>1. proc[p] \in LocalState /\ p # "timeoutCheck"
  BY LocalFacts, NotTimeoutCheck
<1>2. l \in LocalState
  BY <1>1 DEF LocalState, Labels
<1>3. /\ l.pc = "drive" /\ l.x = proc[p].x /\ l.list = proc[p].list /\ l.dec = proc[p].dec
      /\ l.todo \subseteq proc[p].todo
  BY <1>1 DEF LocalState
<1> QED  BY <1>1, <1>2, <1>3, SameWorkInv DEF Continue, Working, Walking, Concluding

\* The end of a walk that has to be recorded with the status goal.
LEMMA ConcludeInv ==
  ASSUME ProcInv, NEW p \in Procs, NEW label \in Concluding, NEW s,
         s \in StatusOf(proc[p].dec), proc[p].pc \in {"drive", "await"},
         Becomes(p, [proc[p] EXCEPT !.pc = label, !.goal = s]), UNCHANGED <<tm, past>>
  PROVE  ProcInv'
<1> DEFINE l == [proc[p] EXCEPT !.pc = label, !.goal = s]
<1>1. proc[p] \in LocalState /\ p # "timeoutCheck" /\ s \in Status
  BY LocalFacts, NotTimeoutCheck, StatusOfType
<1>2. l \in LocalState
  BY <1>1 DEF LocalState, Labels, Concluding
<1>3. l.pc = label /\ l.goal = s /\ l.x = proc[p].x /\ l.list = proc[p].list
      /\ l.dec = proc[p].dec
  BY <1>1 DEF LocalState
<1>4. label \in Working /\ label # "async" /\ label \notin Walking /\ proc[p].pc \in Working
  BY DEF Working, Walking, Concluding
<1>5. label \notin {"await", "unlockBranch", "removeBranch"}
  BY <1>4 DEF Walking
<1> QED  BY <1>1, <1>2, <1>3, <1>4, <1>5, SameWorkInv

LEMMA NotDoneInv ==
  ASSUME ProcInv, NEW p \in Procs, NEW b, NotDone(p, b), UNCHANGED <<tm, past>>,
         proc[p].pc \in {"drive", "await"}
  PROVE  ProcInv'
<1>1. CASE Becomes(p, [proc[p] EXCEPT !.pc = "retryStatus", !.goal = RetryGoal(p)])
  BY <1>1, ConcludeInv, GoalTypes DEF Concluding
<1>2. CASE Continue(p, b)
  BY <1>2, ContinueInv
<1>3. CASE Return(p)
  BY <1>3, ReturnInv DEF Working
<1> QED  BY <1>1, <1>2, <1>3 DEF NotDone, Finished

LEMMA CloseSessionInv ==
  ASSUME ProcInv, NEW p \in Procs, CloseSession(p), UNCHANGED <<tm, past>>
  PROVE  ProcInv'
<1> DEFINE next == IF p \in Handlers /\ proc[p].dec = "commit" THEN "unlockAll" ELSE "decide"
           l == [proc[p] EXCEPT !.open = @ \ {proc[p].x}, !.pc = next]
<1>1. proc[p] \in LocalState /\ proc[p].pc = "close"
  BY LocalFacts DEF CloseSession
<1>2. l \in LocalState
  BY <1>1 DEF LocalState, Labels
<1>3. l.pc = next /\ l.x = proc[p].x /\ l.list = proc[p].list /\ l.dec = proc[p].dec
  BY <1>1 DEF LocalState
<1>4. p = "timeoutCheck" => next = "decide"
  BY HandlersAssumption DEF Workers
<1>5. Becomes(p, l)
  BY DEF CloseSession
<1>6. proc[p].pc \in Working /\ l.pc \in Working
      /\ l.pc \notin {"async", "await", "unlockBranch", "removeBranch"}
      /\ l.pc \notin Concluding /\ l.pc \notin Walking
  BY <1>1, <1>3 DEF Working, Walking, Concluding
<1> QED  BY <1>2, <1>3, <1>4, <1>5, <1>6, SameWorkInv

LEMMA RecordDecisionInv ==
  ASSUME ProcInv, NEW h \in Procs, RecordDecision(h), UNCHANGED <<tm, past>>
  PROVE  ProcInv'
<1> DEFINE x == proc[h].x
           s == IF proc[h].dec = "commit" THEN "Committing" ELSE "RollingBack"
           l == [proc[h] EXCEPT !.st[x] = s]
           m == [l EXCEPT !.pc = "async"]
<1>1. proc[h] \in LocalState /\ proc[h].pc = "decide" /\ h # "timeoutCheck"
  BY LocalFacts, HandlersAssumption DEF RecordDecision, Workers
<1>2. l \in LocalState /\ m \in LocalState
  BY <1>1 DEF LocalState, Labels, Status, CommitStatus, RollbackStatus
<1>3. /\ l.list = proc[h].list /\ l.dec = proc[h].dec
      /\ m.pc = "async" /\ m.x = x /\ m.list = proc[h].list /\ m.dec = proc[h].dec
  BY <1>1 DEF LocalState
<1>4. x \in l.list /\ \A y \in l.list : Mandate(l.dec, y)
  BY <1>1, <1>3, LocalFacts, WorkFacts DEF MandateOf, Working
<1>5. CASE proc[h].dec = "commit" /\ Becomes(h, m)
  <2>1. /\ proc[h].pc \in Working /\ m.pc \in Working /\ m.pc \notin Concluding
        /\ m.pc \notin {"await", "unlockBranch", "removeBranch"} /\ m.pc \notin Walking
    BY <1>1, <1>3 DEF Working, Walking, Concluding
  <2> QED  BY <1>1, <1>2, <1>3, <1>5, <2>1, SameWorkInv
<1>6. CASE Becomes(h, Driving(l, x))
  BY <1>1, <1>2, <1>4, <1>6, DrivingInv
<1> QED  BY <1>5, <1>6 DEF RecordDecision

\* The lists of the workers: dropping a transaction from the list.
LEMMA DropInv ==
  ASSUME ProcInv, NEW p \in Procs, proc[p].pc = "pick", NEW l \in LocalState, Becomes(p, l),
         l.pc = "pick", l.dec = proc[p].dec, l.list \subseteq proc[p].list, UNCHANGED <<tm, past>>
  PROVE  ProcInv'
<1>1. LocalOK(p, l)
  BY LocalFacts DEF LocalOK, Walking, Working, Concluding
<1>2. MandateOf(p, l)
  BY LocalFacts DEF MandateOf
<1> QED  BY <1>1, <1>2, BecomesInv

LEMMA PickTimeoutInv ==
  ASSUME ProcInv, NEW x \in Xids, PickTimeout(x), UNCHANGED <<tm, past>>
  PROVE  ProcInv'
<1> DEFINE p == "timeoutCheck"
           l == [proc[p] EXCEPT !.pc = "close", !.x = x]
           m == [proc[p] EXCEPT !.list = @ \ {x}, !.st[x] = "None", !.open = @ \ {x}]
<1>1. p \in Procs
  BY DEF Procs, Workers
<1>2. proc[p] \in LocalState /\ proc[p].pc = "pick" /\ x \in proc[p].list
  BY <1>1, LocalFacts DEF PickTimeout
<1>3. l \in LocalState /\ m \in LocalState
  BY <1>2 DEF LocalState, Labels, Status
<1>4. /\ l.pc = "close" /\ l.x = x /\ l.list = proc[p].list /\ l.dec = proc[p].dec
      /\ m.pc = "pick" /\ m.list = proc[p].list \ {x} /\ m.dec = proc[p].dec
  BY <1>2 DEF LocalState
<1>5. CASE "timeout" \in past[x]
  <2>1. LocalOK(p, l)
    BY <1>1, <1>2, <1>3, <1>4, LocalFacts DEF LocalOK, Walking, Concluding
  <2>2. MandateOf(p, l)
    BY <1>4, <1>5 DEF MandateOf, Mandate
  <2> QED  BY <1>1, <1>5, <2>1, <2>2, BecomesInv DEF PickTimeout
<1>6. CASE Becomes(p, Idle)
  BY <1>1, <1>6, IdleOK, BecomesInv
<1>7. CASE Becomes(p, m)
  BY <1>1, <1>2, <1>3, <1>4, <1>7, DropInv
<1> QED  BY <1>5, <1>6, <1>7 DEF PickTimeout

LEMMA PickRetryInv ==
  ASSUME ProcInv, NEW w \in Procs, NEW x \in Xids, PickRetry(w, x), UNCHANGED <<tm, past>>
  PROVE  ProcInv'
<1> DEFINE skip == [proc[w] EXCEPT !.list = @ \ {x}, !.st[x] = "None", !.open = @ \ {x},
                                   !.view = @ \ BranchesOf(x), !.failed = @ \ BranchesOf(x)]
           label == IF w = "retryRollingBack" /\ UnlockOnRetryTimeout
                    THEN "finalUnlock" ELSE "finalSession"
           drop == [proc[w] EXCEPT !.x = x, !.pc = label]
<1>1. /\ proc[w] \in LocalState /\ proc[w].pc = "pick" /\ x \in proc[w].list
      /\ w # "timeoutCheck"
  BY LocalFacts DEF PickRetry
<1>2. skip \in LocalState /\ drop \in LocalState
  BY <1>1 DEF LocalState, Labels, Status
<1>3. /\ skip.pc = "pick" /\ skip.list = proc[w].list \ {x} /\ skip.dec = proc[w].dec
      /\ drop.pc = label /\ drop.x = x /\ drop.list = proc[w].list /\ drop.dec = proc[w].dec
  BY <1>1 DEF LocalState
<1>4. \A y \in proc[w].list : Mandate(proc[w].dec, y)
  BY <1>1, LocalFacts DEF MandateOf
<1>5. CASE Becomes(w, Idle)
  BY <1>5, IdleOK, BecomesInv
<1>6. CASE Becomes(w, skip)
  BY <1>1, <1>2, <1>3, <1>6, DropInv
<1>7. CASE Becomes(w, drop)
  <2>1. LocalOK(w, drop)
    BY <1>1, <1>2, <1>3 DEF LocalOK, Walking, Concluding
  <2>2. MandateOf(w, drop)
    BY <1>1, <1>3, <1>4 DEF MandateOf
  <2> QED  BY <1>7, <2>1, <2>2, BecomesInv
<1>8. CASE Becomes(w, Driving(proc[w], x))
  BY <1>1, <1>4, <1>8, DrivingInv
<1> QED  BY <1>5, <1>6, <1>7, <1>8 DEF PickRetry

LEMMA ChooseBranchInv ==
  ASSUME ProcInv, NEW p \in Procs, NEW b \in Branches, NEW label \in {"await", "unlockBranch"},
         proc[p].pc = "drive", Becomes(p, [proc[p] EXCEPT !.pc = label, !.cur = b]),
         UNCHANGED <<tm, past>>
  PROVE  ProcInv'
<1> DEFINE l == [proc[p] EXCEPT !.pc = label, !.cur = b]
<1>1. proc[p] \in LocalState /\ p # "timeoutCheck"
  BY LocalFacts, NotTimeoutCheck
<1>2. l \in LocalState
  BY <1>1 DEF LocalState, Labels
<1>3. /\ l.pc = label /\ l.cur = b /\ l.x = proc[p].x /\ l.list = proc[p].list
      /\ l.dec = proc[p].dec /\ l.todo = proc[p].todo
  BY <1>1 DEF LocalState
<1>4. /\ l.pc \in Working /\ l.pc \notin Concluding /\ l.pc # "async"
      /\ proc[p].pc \in Working /\ proc[p].pc \in Walking
  BY <1>3 DEF Working, Walking, Concluding
<1> QED  BY <1>1, <1>2, <1>3, <1>4, SameWorkInv

LEMMA RemoveBranchInv ==
  ASSUME ProcInv, NEW p \in Procs, RemoveBranchSession(p), UNCHANGED <<tm, past>>
  PROVE  ProcInv'
<1> DEFINE b == proc[p].cur
           l == [proc[p] EXCEPT !.pc = "drive", !.view = @ \ {b}, !.todo = @ \ {b},
                                !.cur = NoBranch]
<1>1. proc[p] \in LocalState /\ proc[p].pc = "removeBranch" /\ p # "timeoutCheck"
  BY LocalFacts, NotTimeoutCheck DEF RemoveBranchSession
<1>2. l \in LocalState
  BY <1>1 DEF LocalState, Labels
<1>3. /\ l.pc = "drive" /\ l.x = proc[p].x /\ l.list = proc[p].list /\ l.dec = proc[p].dec
      /\ l.todo \subseteq proc[p].todo
  BY <1>1 DEF LocalState
<1> QED  BY <1>1, <1>2, <1>3, SameWorkInv DEF RemoveBranchSession, Working, Walking, Concluding

LEMMA EndOfWalkInv ==
  ASSUME ProcInv, NEW p \in Procs, EndOfWalk(p), UNCHANGED <<tm, past>>
  PROVE  ProcInv'
<1> DEFINE s == IF proc[p].dec = "commit" THEN "Committed"
                ELSE IF IsTimeoutGlobalStatus(p) THEN "TimeoutRolledBack" ELSE "RolledBack"
           label == IF status[proc[p].x] = "None" THEN "finalStatus" ELSE "recheckBranches"
<1>1. label \in Concluding /\ proc[p].pc \in {"drive", "await"}
  BY DEF Concluding, EndOfWalk
<1>2. s \in StatusOf(proc[p].dec)
  BY DEF StatusOf, CommitStatus, RollbackStatus, TimeoutStatus
<1>3. [proc[p] EXCEPT !.goal = s, !.pc = label] = [proc[p] EXCEPT !.pc = label, !.goal = s]
  BY LocalFacts DEF LocalState
<1>4. Becomes(p, [proc[p] EXCEPT !.pc = label, !.goal = s])
  BY <1>3 DEF EndOfWalk
<1> QED  BY <1>1, <1>2, <1>4, ConcludeInv

LEMMA FinalStatusInv ==
  ASSUME ProcInv, NEW p \in Procs, FinalStatus(p), UNCHANGED <<tm, past>>
  PROVE  ProcInv'
<1> DEFINE l == [proc[p] EXCEPT !.st[proc[p].x] = proc[p].goal, !.pc = "finalUnlock"]
<1>1. proc[p] \in LocalState /\ proc[p].pc = "finalStatus" /\ p # "timeoutCheck"
  BY LocalFacts, NotTimeoutCheck DEF FinalStatus
<1>2. l \in LocalState
  BY <1>1 DEF LocalState, Labels
<1>3. l.pc = "finalUnlock" /\ l.x = proc[p].x /\ l.list = proc[p].list /\ l.dec = proc[p].dec
  BY <1>1 DEF LocalState
<1> QED  BY <1>1, <1>2, <1>3, SameWorkInv DEF FinalStatus, Working, Walking, Concluding

LEMMA RemoveLeftBranchInv ==
  ASSUME ProcInv, NEW p \in Procs, NEW b \in Branches, RemoveLeftBranch(p, b),
         UNCHANGED <<tm, past>>
  PROVE  ProcInv'
<1> DEFINE l == [proc[p] EXCEPT !.view = @ \ {b}]
<1>1. proc[p] \in LocalState /\ proc[p].pc = "finalBranches" /\ p # "timeoutCheck"
  BY LocalFacts, NotTimeoutCheck DEF RemoveLeftBranch
<1>2. l \in LocalState
  BY <1>1 DEF LocalState
<1>3. /\ l.pc = proc[p].pc /\ l.x = proc[p].x /\ l.list = proc[p].list /\ l.dec = proc[p].dec
  BY <1>1 DEF LocalState
<1>4. CASE Becomes(p, l)
  BY <1>1, <1>2, <1>3, <1>4, SameWorkInv DEF Working, Walking, Concluding
<1>5. CASE Return(p)
  BY <1>1, <1>5, ReturnInv DEF Working
<1> QED  BY <1>4, <1>5 DEF RemoveLeftBranch, Finished

LEMMA ProceedInv ==
  ASSUME ProcInv, NEW p \in Procs, Proceed(p), UNCHANGED <<tm, past>>
  PROVE  ProcInv'
<1>1. CASE FindBranches(p)
  BY <1>1, ReadBranchesInv DEF FindBranches
<1>2. CASE CloseSession(p)
  BY <1>2, CloseSessionInv
<1>3. CASE ReleaseOnCommit(p)
  <2>1. p # "timeoutCheck"
    BY <1>3, NotTimeoutCheck DEF ReleaseOnCommit
  <2> QED  BY <1>3, <2>1, GotoInv DEF ReleaseOnCommit, Working, Concluding
<1>4. CASE RecordDecision(p)
  BY <1>4, RecordDecisionInv
<1>5. CASE AlreadyDecided(p) \/ DeferCommit(p) \/ RecordRetry(p)
           \/ (p = "timeoutCheck" /\ RecordTimeout)
  BY <1>5, ReturnInv DEF AlreadyDecided, DeferCommit, RecordRetry, RecordTimeout, Working,
     Concluding
<1>6. CASE p = "timeoutCheck" /\ \E x \in Xids : PickTimeout(x)
  BY <1>6, PickTimeoutInv
<1>7. CASE \E x \in Xids : PickRetry(p, x)
  BY <1>7, PickRetryInv
<1>8. CASE ReleaseBranch(p)
  <2>1. p # "timeoutCheck"
    BY <1>8, NotTimeoutCheck DEF ReleaseBranch
  <2> QED  BY <1>8, <2>1, GotoInv DEF ReleaseBranch, Working, Concluding
<1>9. CASE RemoveBranchSession(p)
  BY <1>9, RemoveBranchInv
<1>10. CASE Recheck(p)
  <2>1. p # "timeoutCheck"
    BY <1>10, NotTimeoutCheck DEF Recheck
  <2>2. CASE Return(p)
    BY <1>10, <2>2, ReturnInv DEF Recheck, Working, Concluding
  <2>3. CASE Goto(p, "finalStatus")
    BY <1>10, <2>1, <2>3, GotoInv DEF Recheck, Working, Concluding
  <2> QED  BY <1>10, <2>2, <2>3 DEF Recheck, Finished
<1>11. CASE FinalStatus(p)
  BY <1>11, FinalStatusInv
<1>12. CASE FinalUnlock(p)
  <2>1. p # "timeoutCheck"
    BY <1>12, NotTimeoutCheck DEF FinalUnlock
  <2> QED  BY <1>12, <2>1, GotoInv DEF FinalUnlock, Working, Concluding
<1>13. CASE RemoveGlobalSession(p)
  <2>1. p # "timeoutCheck"
    BY <1>13, NotTimeoutCheck DEF RemoveGlobalSession
  <2>2. CASE Return(p)
    BY <1>13, <2>2, ReturnInv DEF RemoveGlobalSession, Working
  <2>3. CASE Goto(p, "finalBranches")
    BY <1>13, <2>1, <2>3, GotoInv DEF RemoveGlobalSession, Working, Concluding
  <2> QED  BY <1>13, <2>2, <2>3 DEF RemoveGlobalSession, Finished
<1>14. CASE \E b \in Branches : RemoveLeftBranch(p, b)
  BY <1>14, RemoveLeftBranchInv
<1> QED  BY <1>1, <1>2, <1>3, <1>4, <1>5, <1>6, <1>7, <1>8, <1>9, <1>10, <1>11, <1>12, <1>13,
            <1>14 DEF Proceed

LEMMA WalkInv ==
  ASSUME ProcInv, NEW p \in Procs, UNCHANGED <<tm, past>>,
         Walk(p) \/ Await(p) \/ \E b \in Branches : SendCallback(p, b)
  PROVE  ProcInv'
<1>1. CASE RefuseSaga(p)
  BY <1>1, ReturnInv DEF RefuseSaga, Working
<1>2. CASE EndOfWalk(p)
  BY <1>2, EndOfWalkInv
<1>3. ASSUME NEW b \in Branches, DropFailedBranch(p, b) PROVE ProcInv'
  BY <1>3, ChooseBranchInv DEF DropFailedBranch
<1>4. ASSUME NEW b \in Branches, QueueNotReady(p, b) PROVE ProcInv'
  BY <1>4, NotDoneInv DEF QueueNotReady, Next2
<1>5. ASSUME NEW b \in Branches, SendCallback(p, b) PROVE ProcInv'
  BY <1>5, ChooseBranchInv DEF SendCallback, Next2
<1>6. CASE AnswerDone(p)
  <2> DEFINE l == [proc[p] EXCEPT !.pc = "unlockBranch"]
  <2>1. proc[p] \in LocalState /\ proc[p].pc = "await" /\ p # "timeoutCheck"
    BY <1>6, LocalFacts, NotTimeoutCheck DEF AnswerDone
  <2> QED  BY <1>6, <2>1, GotoInv DEF AnswerDone, Working, Concluding
<1>7. CASE AnswerRetryable(p)
  BY <1>7, NotDoneInv DEF AnswerRetryable
<1>8. CASE AnswerCannotRetry(p)
  <2>1. CASE Continue(p, proc[p].cur)
    BY <1>8, <2>1, ContinueInv DEF AnswerCannotRetry
  <2>2. CASE Becomes(p, [proc[p] EXCEPT !.pc = "finalStatus", !.goal = FailedGoal(p)])
    BY <1>8, <2>2, ConcludeInv, GoalTypes DEF AnswerCannotRetry, Concluding
  <2> QED  BY <1>8, <2>1, <2>2 DEF AnswerCannotRetry
<1>9. CASE AnswerError(p)
  <2>1. CASE Return(p)
    BY <1>9, <2>1, ReturnInv DEF AnswerError, Working
  <2>2. CASE Becomes(p, [proc[p] EXCEPT !.pc = "errorStatus", !.goal = RetryGoal(p)])
    BY <1>9, <2>2, ConcludeInv, GoalTypes DEF AnswerError, Concluding
  <2> QED  BY <1>9, <2>1, <2>2 DEF AnswerError
<1> QED  BY <1>1, <1>2, <1>3, <1>4, <1>5, <1>6, <1>7, <1>8, <1>9 DEF Walk, Await

LEMMA FaultyInv ==
  ASSUME ProcInv, NEW p \in Procs, Faulty(p), UNCHANGED <<tm, past>>
  PROVE  ProcInv'
<1>1. CASE FindBranchesError(p)
  BY <1>1, ReadBranchesInv DEF FindBranchesError
<1>2. CASE RecheckError(p)
  <2>1. p # "timeoutCheck"
    BY <1>2, NotTimeoutCheck DEF RecheckError
  <2> QED  BY <1>2, <2>1, GotoInv DEF RecheckError, Working, Concluding
<1>3. CASE UnlockError(p)
  <2>1. p # "timeoutCheck"
    BY <1>3, NotTimeoutCheck DEF UnlockError
  <2>2. CASE proc[p].pc = "unlockAll"
    BY <1>3, <2>1, <2>2, GotoInv DEF UnlockError, Working, Concluding
  <2>3. CASE proc[p].pc = "unlockBranch"
    BY <1>3, <2>1, <2>3, GotoInv DEF UnlockError, Working, Concluding
  <2>4. CASE proc[p].pc = "finalUnlock"
    BY <1>3, <2>1, <2>4, GotoInv DEF UnlockError, Working, Concluding
  <2> QED  BY <1>3, <2>2, <2>3, <2>4 DEF UnlockError
<1>4. CASE WriteError(p)
  <2>1. CASE Becomes(p, Idle)
    BY <2>1, IdleOK, BecomesInv
  <2>2. CASE Return(p)
    BY <1>4, <2>2, ReturnInv DEF WriteError, Writing, Working, Concluding
  <2> QED  BY <1>4, <2>1, <2>2 DEF WriteError
<1> QED  BY <1>1, <1>2, <1>3, <1>4 DEF Faulty

\* A worker's list holds only transactions that it may end: their status says so.
LEMMA ScanInv ==
  ASSUME IInv, NEW w \in Workers, Scan(w)
  PROVE  ProcInv'
<1> DEFINE d == IF w \in {"timeoutCheck", "retryRollingBack"} THEN "rollback" ELSE "commit"
           label == IF w = "timeoutCheck" THEN "pick" ELSE "branches"
           l == [Idle EXCEPT
                   !.pc = label, !.dec = d, !.list = Listed(w),
                   !.st = [x \in Xids |-> IF x \in Listed(w) THEN status[x] ELSE "None"],
                   !.open = {x \in Listed(w) : active[x]}]
<1>1. ProcInv /\ w \in Procs /\ w \notin Handlers /\ UNCHANGED <<tm, past>> /\ Becomes(w, l)
  BY HandlersAssumption DEF IInv, Procs, Scan, clients, faults
<1>2. Listed(w) \subseteq Xids
  BY DEF Workers, Listed
<1>3. [x \in Xids |-> IF x \in Listed(w) THEN status[x] ELSE "None"] \in [Xids -> Status]
  BY DEF IInv, TypeOK, StoreType, Status
<1>4. label \in Labels /\ d \in Decisions
  BY DEF Labels, Decisions
<1>5. l \in LocalState
  BY <1>2, <1>3, <1>4, IdleType DEF LocalState
<1>6. l.pc = label /\ l.dec = d /\ l.list = Listed(w)
  BY IdleType DEF LocalState
<1>7. LocalOK(w, l)
  BY <1>1, <1>5, <1>6 DEF LocalOK, Walking, Working, Concluding
<1>8. MandateOf(w, l)
  <2>1. CASE w = "timeoutCheck"
    BY <1>6, <2>1 DEF MandateOf
  <2>2. CASE w # "timeoutCheck"
    <3>1. \A x \in Listed(w) : x \in Xids /\ status[x] \in StatusOf(d)
      BY <2>2 DEF Workers, Listed, RetryRollbackStatus, StatusOf, CommitStatus, RollbackStatus,
         TimeoutStatus
    <3>2. \A x \in Listed(w) : Mandate(d, x)
      BY <3>1, <1>4 DEF IInv, StatusMandate
    <3> QED  BY <1>6, <2>2, <3>2 DEF MandateOf
  <2> QED  BY <2>1, <2>2
<1> QED  BY <1>1, <1>7, <1>8, BecomesInv

-----------------------------------------------------------------------------
(* The steps of the TMs and of the environment. *)

\* A handler takes over the decision of the TM that sent the request.
LEMMA FindSessionInv ==
  ASSUME IInv, NEW h \in Handlers, NEW x \in Xids, NEW found \in BOOLEAN,
         FindSession(h, x, found)
  PROVE  ProcInv'
<1> DEFINE l == [Idle EXCEPT !.pc = "branches", !.dec = tm[x], !.x = x, !.list = {x},
                             !.st[x] = status[x], !.open = IF active[x] THEN {x} ELSE {}]
<1>1. /\ ProcInv /\ h \in Procs /\ h # "timeoutCheck" /\ UNCHANGED <<tm, past>>
      /\ tm[x] \in Decisions
  BY HandlersAssumption DEF IInv, Procs, Workers, FindSession
<1>2. CASE UNCHANGED proc
  BY <1>1, <1>2 DEF ProcInv, ProcType, MandateOf, Mandate
<1>3. CASE Becomes(h, l)
  <2>1. status[x] \in Status
    BY DEF IInv, TypeOK, StoreType
  <2>2. l \in LocalState
    BY <1>1, <2>1, IdleType DEF LocalState, Labels
  <2>3. l.pc = "branches" /\ l.dec = tm[x] /\ l.x = x /\ l.list = {x}
    BY IdleType DEF LocalState
  <2>4. LocalOK(h, l)
    BY <1>1, <2>2, <2>3 DEF LocalOK, Walking, Working, Concluding
  <2>5. MandateOf(h, l)
    BY <1>1, <2>3 DEF MandateOf, Mandate, Decisions
  <2> QED  BY <1>1, <1>3, <2>4, <2>5, BecomesInv
<1> QED  BY <1>2, <1>3 DEF FindSession

\* Mandates are never withdrawn, neither by the TM nor by time.
MandatesGrow == \A x \in Xids, d \in Decisions : Mandate(d, x) => Mandate(d, x)'

LEMMA MandatesGrowInv ==
  ASSUME ProcInv, MandatesGrow, UNCHANGED proc
  PROVE  ProcInv'
<1>1. ProcType' /\ \A p \in Procs : LocalOK(p, proc[p])'
  BY DEF ProcInv, ProcType, LocalOK
<1>2. ASSUME NEW p \in Procs PROVE MandateOf(p, proc[p])'
  <2>1. /\ proc[p].list \subseteq Xids /\ proc[p].dec \in Decisions /\ proc'[p] = proc[p]
        /\ proc[p].pc \in {"close", "decide"} => proc[p].x \in Xids
        /\ "rollback" \in Decisions
    BY LocalFacts, WorkFacts DEF Working, Decisions
  <2>2. MandateOf(p, proc[p])
    BY LocalFacts
  <2> QED  BY <2>1, <2>2 DEF MandateOf, MandatesGrow
<1> QED  BY <1>1, <1>2 DEF ProcInv

LEMMA DecideGrows ==
  ASSUME NEW x \in Xids, tm[x] \in {"none", "active"}, NEW v, tm' = [tm EXCEPT ![x] = v],
         ClientType, UNCHANGED past
  PROVE  MandatesGrow
  BY DEF MandatesGrow, Mandate, ClientType, Decisions

LEMMA ElapseGrows ==
  ASSUME NEW x \in Xids, NEW limit, past' = [past EXCEPT ![x] = @ \cup {limit}],
         FaultType, UNCHANGED tm
  PROVE  MandatesGrow
  BY DEF MandatesGrow, Mandate, FaultType, Decisions

\* After a crash every process starts anew.
LEMMA CrashInv ==
  ASSUME Crash
  PROVE  ProcInv'
<1>1. proc' = [p \in Procs |-> Idle]
  BY DEF Crash
<1>2. Idle.pc = "idle"
  BY DEF Idle
<1>3. \A p \in Procs : LocalOK(p, Idle)
  BY IdleOK
<1>4. \A p \in Procs : MandateOf(p, proc[p])'
  BY <1>1, <1>2 DEF MandateOf
<1> QED  BY <1>1, <1>3, <1>4, IdleType DEF ProcInv, ProcType

-----------------------------------------------------------------------------
(* What the steps of a process do to the store and to the history. *)

LEMMA StatusesApart == CommitStatus \cap RollbackStatus = {}
  BY DEF CommitStatus, RollbackStatus, TimeoutStatus

\* A status written with a mandate keeps every status mandated.
LEMMA SetStatusMandate ==
  ASSUME IInv, NEW x \in Xids, NEW d \in Decisions, NEW s \in StatusOf(d), Mandate(d, x),
         SetStatus(x, s), UNCHANGED <<tm, past>>
  PROVE  StatusMandate'
<1>1. ASSUME NEW y \in Xids, NEW e \in Decisions, status'[y] \in StatusOf(e)
      PROVE  Mandate(e, y)
  <2>1. CASE status'[y] = status[y]
    BY <1>1, <2>1 DEF IInv, StatusMandate
  <2>2. CASE status'[y] # status[y]
    <3>1. y = x /\ status'[y] = s
      BY <2>2 DEF IInv, TypeOK, StoreType, SetStatus
    <3>2. e = d
      BY <1>1, <3>1, StatusesApart DEF StatusOf, Decisions
    <3> QED  BY <3>1, <3>2
  <2> QED  BY <2>1, <2>2
<1> QED  BY <1>1 DEF StatusMandate, Mandate

LEMMA KeepStatusMandate ==
  ASSUME StatusMandate, MandatesGrow, UNCHANGED status
  PROVE  StatusMandate'
  BY DEF StatusMandate, MandatesGrow

LEMMA SameMandates ==
  ASSUME UNCHANGED <<tm, past>>
  PROVE  MandatesGrow
  BY DEF MandatesGrow, Mandate

\* Writing status s for the transaction that p works on.
LEMMA WriteStatus ==
  ASSUME IInv, NEW p \in Procs, proc[p].pc \in Working, NEW s \in StatusOf(proc[p].dec),
         SetStatus(proc[p].x, s), UNCHANGED <<active, bs, lock, tm, past>>
  PROVE  StoreType' /\ StatusMandate'
<1>1. ProcInv
  BY DEF IInv
<1>2. /\ proc[p].x \in Xids /\ Mandate(proc[p].dec, proc[p].x) /\ proc[p].dec \in Decisions
      /\ s \in Status
  BY <1>1, LocalFacts, WorkFacts, StatusOfType
<1>3. status' \in [Xids -> Status]
  BY <1>2, SetStatusType DEF IInv, TypeOK, StoreType
<1>4. StatusMandate'
  BY <1>2, SetStatusMandate
<1> QED  BY <1>3, <1>4 DEF IInv, TypeOK, StoreType

\* Freeing row locks.
LEMMA WriteLock ==
  ASSUME IInv, NEW x, NEW B, Unlock(x, B), UNCHANGED <<status, active, bs, tm, past>>
  PROVE  StoreType' /\ StatusMandate'
<1>1. lock' \in [Rows -> Xids \cup {NoXid}]
  BY UnlockType DEF IInv, TypeOK, StoreType
<1>2. StatusMandate'
  BY KeepStatusMandate, SameMandates DEF IInv
<1> QED  BY <1>1, <1>2 DEF IInv, TypeOK, StoreType

LEMMA KeepStore ==
  ASSUME IInv, UNCHANGED store, UNCHANGED <<tm, past>>
  PROVE  StoreType' /\ StatusMandate'
<1>1. UNCHANGED status
  BY DEF store
<1> QED  BY <1>1, KeepType, KeepStatusMandate, SameMandates DEF IInv, TypeOK

LEMMA ProceedStore ==
  ASSUME IInv, NEW p \in Procs, Proceed(p), UNCHANGED <<tm, past>>
  PROVE  StoreType' /\ StatusMandate'
<1>0. ProcInv /\ StatusMandate /\ StoreType
  BY DEF IInv, TypeOK
<1>1. CASE \/ FindBranches(p) \/ AlreadyDecided(p) \/ Recheck(p)
           \/ p = "timeoutCheck" /\ \E x \in Xids : PickTimeout(x)
           \/ \E x \in Xids : PickRetry(p, x)
  BY <1>1, KeepStore DEF FindBranches, ReadBranches, AlreadyDecided, Recheck, PickTimeout,
     PickRetry
<1>2. CASE CloseSession(p)
  <2>1. UNCHANGED <<status, bs, lock>> /\ active' \in [Xids -> BOOLEAN]
    BY <1>0, <1>2 DEF CloseSession, StoreType
  <2> QED  BY <1>0, <2>1, KeepStatusMandate, SameMandates DEF StoreType
<1>3. CASE ReleaseOnCommit(p) \/ ReleaseBranch(p) \/ FinalUnlock(p)
  BY <1>3, WriteLock DEF ReleaseOnCommit, ReleaseBranch, FinalUnlock
<1>4. CASE RecordDecision(p)
  <2>1. (IF proc[p].dec = "commit" THEN "Committing" ELSE "RollingBack") \in StatusOf(proc[p].dec)
    BY DEF StatusOf, CommitStatus, RollbackStatus
  <2> QED  BY <1>4, <2>1, WriteStatus DEF RecordDecision, Working
<1>5. CASE DeferCommit(p)
  <2>1. proc[p].pc \in Working /\ proc[p].dec = "commit"
    BY <1>0, <1>5, LocalFacts DEF DeferCommit, Working, LocalOK
  <2> QED  BY <1>5, <2>1, WriteStatus DEF DeferCommit, StatusOf, CommitStatus
<1>6. CASE p = "timeoutCheck" /\ RecordTimeout
  <2>1. proc[p].pc \in Working /\ proc[p].dec = "rollback"
    BY <1>0, <1>6, LocalFacts DEF RecordTimeout, Working, LocalOK
  <2>2. "TimeoutRollingBack" \in StatusOf("rollback")
    BY DEF StatusOf, RollbackStatus, TimeoutStatus
  <2> QED  BY <1>6, <2>1, <2>2, WriteStatus DEF RecordTimeout
<1>7. CASE RecordRetry(p) \/ FinalStatus(p)
  <2>1. proc[p].pc \in Concluding
    BY <1>7 DEF RecordRetry, FinalStatus, Concluding
  <2>2. proc[p].pc \in Working /\ proc[p].goal \in StatusOf(proc[p].dec)
    BY <1>0, <2>1, LocalFacts DEF Working, LocalOK
  <2> QED  BY <1>7, <2>2, WriteStatus DEF RecordRetry, FinalStatus
<1>8. CASE RemoveBranchSession(p) \/ \E b \in Branches : RemoveLeftBranch(p, b)
  <2>1. UNCHANGED <<status, active, lock>>
        /\ bs' \in [Branches -> {"None", "Registered", "PhaseOneFailed"}]
    BY <1>0, <1>8 DEF RemoveBranchSession, RemoveLeftBranch, StoreType
  <2> QED  BY <1>0, <2>1, KeepStatusMandate, SameMandates DEF StoreType
<1>9. CASE RemoveGlobalSession(p)
  <2>1. /\ UNCHANGED <<bs, lock>>
        /\ status' = [status EXCEPT ![proc[p].x] = "None"]
        /\ active' = [active EXCEPT ![proc[p].x] = FALSE]
    BY <1>9 DEF RemoveGlobalSession
  <2>2. StoreType'
    BY <1>0, <2>1 DEF StoreType, Status
  <2>3. "None" \notin CommitStatus \cup RollbackStatus
    BY DEF CommitStatus, RollbackStatus, TimeoutStatus
  <2>4. \A y \in Xids, d \in Decisions : status'[y] \in StatusOf(d) => status'[y] = status[y]
    BY <1>0, <2>1, <2>3 DEF StoreType, StatusOf
  <2>5. StatusMandate'
    BY <1>0, <2>4 DEF StatusMandate, Mandate
  <2> QED  BY <2>2, <2>5
<1> QED  BY <1>1, <1>2, <1>3, <1>4, <1>5, <1>6, <1>7, <1>8, <1>9 DEF Proceed

LEMMA KeepValidity ==
  ASSUME Validity, MandatesGrow, UNCHANGED asked
  PROVE  Validity'
<1>1. \A b \in Branches : TxOf[b] \in Xids
  BY TopologyAssumption
<1> QED  BY <1>1 DEF Validity, MandatesGrow

\* A reply of p: the history keeps its type and no branch is asked anything.
LEMMA ReplyHistory ==
  ASSUME IInv, NEW p \in Procs, NEW s \in Status, Reply(p, s) \/ UNCHANGED told,
         UNCHANGED <<asked, acked, refused>>
  PROVE  HistoryType'
<1>1. ToldType'
  BY ReplyType DEF IInv, TypeOK, HistoryType, ToldType
<1> QED  BY <1>1 DEF IInv, TypeOK, HistoryType, ToldType

LEMMA FinishedHistory ==
  ASSUME IInv, NEW p \in Procs, Finished(p) \/ UNCHANGED told, proc[p].pc \in Working,
         UNCHANGED <<asked, acked, refused>>
  PROVE  HistoryType'
<1> DEFINE s == IF proc[p].dec = "commit" THEN "Committed" ELSE proc[p].st[proc[p].x]
<1>1. ProcInv
  BY DEF IInv
<1>2. s \in Status
  BY <1>1, LocalFacts, WorkFacts DEF Status, CommitStatus
<1> QED  BY <1>2, ReplyHistory DEF Finished

LEMMA ProceedHistory ==
  ASSUME IInv, NEW p \in Procs, Proceed(p)
  PROVE  HistoryType' /\ UNCHANGED asked
<1>0. ProcInv
  BY DEF IInv
<1>1. UNCHANGED <<asked, acked, refused>>
  BY DEF Proceed, FindBranches, ReadBranches, CloseSession, ReleaseOnCommit, RecordDecision,
     AlreadyDecided, DeferCommit, RecordTimeout, PickTimeout, PickRetry, RecordRetry,
     ReleaseBranch, RemoveBranchSession, Recheck, FinalStatus, FinalUnlock,
     RemoveGlobalSession, RemoveLeftBranch, history
<1>2. CASE UNCHANGED told
  BY <1>1, <1>2 DEF IInv, TypeOK, HistoryType
<1>3. CASE AlreadyDecided(p)
  <2>1. proc[p].pc \in Working
    BY <1>3 DEF AlreadyDecided, Working
  <2>2. proc[p].st[proc[p].x] \in Status /\ "Committed" \in Status
    BY <1>0, <2>1, LocalFacts, WorkFacts DEF Status, CommitStatus
  <2> QED  BY <1>1, <1>3, <2>2, ReplyHistory DEF AlreadyDecided
<1>4. CASE DeferCommit(p) \/ RecordRetry(p)
  <2>1. proc[p].goal \in Status /\ "Committed" \in Status
    BY <1>0, LocalFacts DEF Status, CommitStatus
  <2> QED  BY <1>1, <1>4, <2>1, ReplyHistory DEF DeferCommit, RecordRetry
<1>5. CASE Recheck(p) \/ RemoveGlobalSession(p) \/ \E b \in Branches : RemoveLeftBranch(p, b)
  <2>1. (Finished(p) \/ UNCHANGED told) /\ proc[p].pc \in Working
    BY <1>5 DEF Recheck, RemoveGlobalSession, RemoveLeftBranch, Working, Concluding
  <2> QED  BY <1>1, <2>1, FinishedHistory
<1>6. UNCHANGED told \/ AlreadyDecided(p) \/ DeferCommit(p) \/ RecordRetry(p) \/ Recheck(p)
      \/ RemoveGlobalSession(p) \/ \E b \in Branches : RemoveLeftBranch(p, b)
  BY DEF Proceed, FindBranches, ReadBranches, CloseSession, ReleaseOnCommit, RecordDecision,
     RecordTimeout, PickTimeout, PickRetry, ReleaseBranch, RemoveBranchSession, FinalStatus,
     FinalUnlock, history
<1> QED  BY <1>1, <1>2, <1>3, <1>4, <1>5, <1>6

LEMMA NotDoneHistory ==
  ASSUME IInv, NEW p \in Procs, NEW b, NotDone(p, b), proc[p].pc \in Working,
         UNCHANGED <<asked, acked, refused>>
  PROVE  HistoryType'
  BY FinishedHistory DEF NotDone

LEMMA WalkHistory ==
  ASSUME IInv, NEW p \in Procs, Walk(p) \/ Await(p)
  PROVE  HistoryType' /\ UNCHANGED asked
<1>0. ProcInv
  BY DEF IInv
<1>1. CASE RefuseSaga(p) \/ EndOfWalk(p) \/ (\E b \in Branches : DropFailedBranch(p, b))
           \/ AnswerError(p)
  BY <1>1, KeepType DEF RefuseSaga, EndOfWalk, DropFailedBranch, AnswerError, history, IInv, TypeOK
<1>2. CASE \E b \in Branches : QueueNotReady(p, b)
  <2>1. PICK b \in Branches : QueueNotReady(p, b)
    BY <1>2
  <2> QED  BY <2>1, NotDoneHistory DEF QueueNotReady, Next2, Working
<1>3. CASE AnswerRetryable(p)
  BY <1>3, NotDoneHistory DEF AnswerRetryable, Working
<1>4. ASSUME proc[p].pc = "await" PROVE <<proc[p].dec, proc[p].cur>> \in Decisions \X Branches
  BY <1>0, <1>4, LocalFacts DEF LocalOK, Walking
<1>5. CASE AnswerDone(p)
  BY <1>4, <1>5 DEF AnswerDone, IInv, TypeOK, HistoryType
<1>6. CASE AnswerCannotRetry(p)
  BY <1>4, <1>6 DEF AnswerCannotRetry, IInv, TypeOK, HistoryType
<1> QED  BY <1>1, <1>2, <1>3, <1>5, <1>6 DEF Walk, Await

\* The one step that asks a branch something: p is entitled to it.
LEMMA SendHistory ==
  ASSUME IInv, NEW p \in Procs, NEW b \in Branches, SendCallback(p, b), UNCHANGED <<tm, past>>
  PROVE  HistoryType' /\ Validity'
<1>0. ProcInv /\ proc[p].pc \in Working
  BY DEF IInv, SendCallback, Next2, Working
<1>1. Mandate(proc[p].dec, proc[p].x) /\ proc[p].dec \in Decisions
  BY <1>0, LocalFacts, WorkFacts
<1>2. TxOf[b] = proc[p].x
  BY <1>0, LocalFacts DEF SendCallback, Next2, LocalOK, Walking, BranchesOf
<1>3. asked' = asked \cup {<<proc[p].dec, b>>}
  BY DEF SendCallback
<1>4. HistoryType'
  BY <1>1, <1>3 DEF IInv, TypeOK, HistoryType, SendCallback
<1>5. ASSUME NEW c \in Branches, NEW d \in Decisions, <<d, c>> \in asked'
      PROVE  Mandate(d, TxOf[c])
  BY <1>1, <1>2, <1>3, <1>5 DEF IInv, Validity
<1> QED  BY <1>4, <1>5 DEF Validity, Mandate

-----------------------------------------------------------------------------
(* The invariant is inductive: one lemma for each kind of step. *)

LEMMA InitInv ==
  ASSUME Init
  PROVE  IInv
<1>1. StoreType /\ ClientType /\ FaultType /\ HistoryType
  BY BoundsAssumption DEF Init, StoreType, ClientType, FaultType, HistoryType, Status
<1>2. ProcType
  BY IdleType DEF Init, ProcType
<1>3. \A p \in Procs : LocalOK(p, proc[p]) /\ MandateOf(p, proc[p])
  BY IdleOK DEF Init
<1>4. StatusMandate
  BY DEF Init, StatusMandate, StatusOf, CommitStatus, RollbackStatus, TimeoutStatus
<1>5. Validity
  BY DEF Init, Validity
<1> QED  BY <1>1, <1>2, <1>3, <1>4, <1>5 DEF IInv, TypeOK, ProcInv

LEMMA ProcStepInv ==
  ASSUME IInv, NEW p \in Procs, ProcStep(p)
  PROVE  IInv'
<1>0. ProcInv /\ StoreType /\ Validity
  BY DEF IInv, TypeOK
<1>1. UNCHANGED <<reg, tm, calls, past, online, crashes>> /\ storeErrors' \in Nat
  BY FrameOfProcStep
<1>2. ClientType' /\ FaultType' /\ MandatesGrow
  BY <1>1, SameMandates DEF IInv, TypeOK, ClientType, FaultType
<1>3. ProcInv'
  BY <1>0, <1>1, ProceedInv, WalkInv, FaultyInv DEF ProcStep
<1>4. StoreType' /\ StatusMandate'
  <2>1. CASE Proceed(p)
    BY <1>1, <2>1, ProceedStore
  <2>2. CASE Walk(p) \/ Await(p) \/ Faulty(p) \/ \E b \in Branches : SendCallback(p, b)
    <3>1. UNCHANGED store
      BY <2>2 DEF Walk, RefuseSaga, EndOfWalk, DropFailedBranch, QueueNotReady, Await,
         AnswerDone, AnswerRetryable, AnswerCannotRetry, AnswerError, SendCallback, Faulty,
         FindBranchesError, ReadBranches, RecheckError, UnlockError, WriteError
    <3> QED  BY <1>1, <3>1, KeepStore
  <2> QED  BY <2>1, <2>2 DEF ProcStep
<1>5. HistoryType' /\ Validity'
  <2>1. CASE Proceed(p)
    BY <1>0, <1>2, <2>1, ProceedHistory, KeepValidity
  <2>2. CASE Walk(p) \/ Await(p)
    BY <1>0, <1>2, <2>2, WalkHistory, KeepValidity
  <2>3. CASE \E b \in Branches : SendCallback(p, b)
    BY <1>1, <2>3, SendHistory
  <2>4. CASE Faulty(p)
    <3>1. UNCHANGED history
      BY <2>4 DEF Faulty, FindBranchesError, ReadBranches, RecheckError, UnlockError, WriteError
    <3>2. UNCHANGED asked
      BY <3>1 DEF history
    <3> QED  BY <1>0, <1>2, <3>1, <3>2, KeepType, KeepValidity DEF IInv, TypeOK
  <2> QED  BY <2>1, <2>2, <2>3, <2>4 DEF ProcStep
<1> QED  BY <1>2, <1>3, <1>4, <1>5 DEF IInv, TypeOK, ProcInv

LEMMA ScanStepInv ==
  ASSUME IInv, NEW w \in Workers, Scan(w)
  PROVE  IInv'
<1>1. UNCHANGED <<store, clients, faults, history>>
  BY DEF Scan
<1>2. UNCHANGED <<tm, past, asked, status>>
  BY <1>1 DEF store, clients, faults, history
<1>3. ProcInv'
  BY ScanInv
<1>4. StoreType' /\ ClientType' /\ FaultType' /\ HistoryType'
  BY <1>1, KeepType DEF IInv, TypeOK
<1>5. StatusMandate' /\ Validity'
  BY <1>2, SameMandates, KeepStatusMandate, KeepValidity DEF IInv
<1> QED  BY <1>3, <1>4, <1>5 DEF IInv, TypeOK, ProcInv

LEMMA BranchStepInv ==
  ASSUME IInv, NEW b \in Branches, BranchStep(b)
  PROVE  IInv'
<1>1. UNCHANGED <<proc, tm, calls, past, status, active, history>>
  BY DEF BranchStep, RegisterFind, AcquireLock, AddBranchSession, ReportFind, ReportWrite,
     RegisterError, store, faults
<1>2. MandatesGrow /\ UNCHANGED asked
  BY <1>1, SameMandates DEF history
<1>3. ProcInv' /\ StatusMandate' /\ Validity' /\ HistoryType'
  BY <1>1, <1>2, MandatesGrowInv, KeepStatusMandate, KeepValidity, KeepType DEF IInv, TypeOK
<1>4. TxOf[b] \in Xids
  BY TopologyAssumption
<1>5. StoreType /\ ClientType /\ FaultType
  BY DEF IInv, TypeOK
<1>6. StoreType' /\ ClientType' /\ FaultType'
  <2>1. CASE RegisterFind(b) \/ ReportFind(b)
    BY <1>5, <2>1, KeepType DEF RegisterFind, ReportFind, ClientType
  <2>2. CASE AcquireLock(b)
    BY <1>4, <1>5, <2>2, KeepType DEF AcquireLock, StoreType, ClientType
  <2>3. CASE AddBranchSession(b) \/ ReportWrite(b)
    BY <1>5, <2>3, KeepType DEF AddBranchSession, ReportWrite, StoreType, ClientType
  <2>4. CASE RegisterError(b)
    BY <1>5, <2>4, KeepType DEF RegisterError, StoreError, Failed, ClientType,
       FaultType
  <2> QED  BY <2>1, <2>2, <2>3, <2>4 DEF BranchStep
<1> QED  BY <1>3, <1>6 DEF IInv, TypeOK, ProcInv

\* A request: a handler starts with the decision of the TM, or the TM is told Finished.
LEMMA FindSessionStep ==
  ASSUME IInv, NEW h \in Handlers, NEW x \in Xids, NEW found \in BOOLEAN,
         FindSession(h, x, found), storeErrors' \in Nat
  PROVE  IInv'
<1>1. /\ UNCHANGED <<store, status, reg, tm, past, online, crashes, asked, acked, refused>>
      /\ calls' = [calls EXCEPT ![x] = @ + 1]
      /\ told' = told \/ told' = [told EXCEPT ![x] = @ \cup {"Finished"}]
  BY DEF FindSession, store
<1>2. ProcInv'
  BY FindSessionInv
<1>3. StoreType' /\ ClientType' /\ FaultType' /\ HistoryType'
  BY <1>1, KeepType DEF IInv, TypeOK, ClientType, FaultType, HistoryType
<1>4. StatusMandate' /\ Validity'
  BY <1>1, SameMandates, KeepStatusMandate, KeepValidity DEF IInv
<1> QED  BY <1>2, <1>3, <1>4 DEF IInv, TypeOK, ProcInv

LEMMA ClientStepInv ==
  ASSUME IInv, ClientStep
  PROVE  IInv'
<1>0. StoreType /\ ClientType /\ FaultType /\ HistoryType /\ ProcInv /\ StatusMandate /\ Validity
  BY DEF IInv, TypeOK
<1>1. ASSUME NEW x \in Xids, Begin(x) PROVE IInv'
  <2>1. UNCHANGED <<proc, past, asked, faults, history>>
    BY <1>1 DEF Begin, faults, history
  <2>2. MandatesGrow
    BY <1>0, <1>1, <2>1, DecideGrows DEF Begin
  <2>3. StoreType' /\ ClientType'
    BY <1>0, <1>1 DEF Begin, StoreType, ClientType, Status
  <2>4. \A y \in Xids, d \in Decisions : status'[y] \in StatusOf(d) => status'[y] = status[y]
    BY <1>0, <1>1 DEF Begin, StoreType, StatusOf, CommitStatus, RollbackStatus, TimeoutStatus
  <2>5. StatusMandate'
    BY <1>0, <2>2, <2>4 DEF StatusMandate, MandatesGrow
  <2>6. ProcInv' /\ FaultType' /\ HistoryType' /\ Validity'
    BY <1>0, <2>1, <2>2, MandatesGrowInv, KeepType, KeepValidity
  <2> QED  BY <2>3, <2>5, <2>6 DEF IInv, TypeOK, ProcInv
<1>2. ASSUME NEW x \in Xids, NEW d \in Decisions, Decide(x, d) PROVE IInv'
  <2>1. UNCHANGED <<proc, past, asked, status, store, faults, history>>
    BY <1>2 DEF Decide, store, faults, history
  <2>2. MandatesGrow
    BY <1>0, <1>2, <2>1, DecideGrows DEF Decide
  <2>3. ClientType'
    BY <1>0, <1>2 DEF Decide, ClientType
  <2>4. ProcInv' /\ StatusMandate' /\ Validity' /\ StoreType' /\ FaultType' /\ HistoryType'
    BY <1>0, <2>1, <2>2, MandatesGrowInv, KeepStatusMandate, KeepValidity, KeepType
  <2> QED  BY <2>3, <2>4 DEF IInv, TypeOK, ProcInv
<1>3. ASSUME NEW h \in Handlers, NEW x \in Xids, Request(h, x) PROVE IInv'
  BY <1>0, <1>3, FindSessionStep DEF Request, FaultType
<1>4. ASSUME NEW h \in Handlers, NEW x \in Xids, RequestError(h, x) PROVE IInv'
  <2>1. FindSession(h, x, FALSE) /\ storeErrors' = storeErrors + 1
    BY <1>4 DEF RequestError, StoreError
  <2>2. storeErrors' \in Nat
    BY <1>0, <2>1 DEF FaultType
  <2> QED  BY <2>1, <2>2, FindSessionStep
<1> QED  BY <1>1, <1>2, <1>3, <1>4 DEF ClientStep

LEMMA EnvStepInv ==
  ASSUME IInv, EnvStep
  PROVE  IInv'
<1>0. StoreType /\ ClientType /\ FaultType /\ HistoryType /\ ProcInv /\ StatusMandate /\ Validity
  BY DEF IInv, TypeOK
<1>1. UNCHANGED <<store, tm, calls, history>> /\ UNCHANGED <<status, asked>>
  BY DEF EnvStep, Elapse, Connect, Disconnect, Crash, store, clients, history
<1>2. ClientType'
  BY <1>0 DEF EnvStep, Elapse, Connect, Disconnect, Crash, Failed, clients, ClientType
<1>3. FaultType'
  BY <1>0 DEF EnvStep, Elapse, Connect, Disconnect, Crash, FaultType
<1>4. MandatesGrow
  BY <1>0, <1>1, SameMandates, ElapseGrows DEF EnvStep, Elapse, Connect, Disconnect, Crash
<1>5. ProcInv'
  BY <1>0, <1>4, CrashInv, MandatesGrowInv DEF EnvStep, Elapse, Connect, Disconnect
<1>6. StoreType' /\ HistoryType' /\ StatusMandate' /\ Validity'
  BY <1>0, <1>1, <1>4, KeepType, KeepStatusMandate, KeepValidity
<1> QED  BY <1>2, <1>3, <1>5, <1>6 DEF IInv, TypeOK, ProcInv

LEMMA StutterInv ==
  ASSUME IInv, UNCHANGED vars
  PROVE  IInv'
<1>1. UNCHANGED <<store, proc, clients, faults, history>>
  BY DEF vars
<1>2. UNCHANGED <<tm, past, asked, status>>
  BY <1>1 DEF store, clients, faults, history
<1>3. MandatesGrow
  BY <1>2, SameMandates
<1>4. ProcInv' /\ StatusMandate' /\ Validity'
  BY <1>1, <1>2, <1>3, MandatesGrowInv, KeepStatusMandate, KeepValidity DEF IInv
<1>5. StoreType' /\ ClientType' /\ FaultType' /\ HistoryType'
  BY <1>1, KeepType DEF IInv, TypeOK
<1> QED  BY <1>4, <1>5 DEF IInv, TypeOK, ProcInv

-----------------------------------------------------------------------------
(* What DecisionIsStable needs besides the invariant. *)

\* What a handler or worker does to the session rows, and to which.
LEMMA StatusWrites ==
  ASSUME IInv, NEW p \in Procs, Proceed(p)
  PROVE  \/ UNCHANGED status
         \/ /\ proc[p].pc \in Working
            /\ \/ status' = [status EXCEPT ![proc[p].x] = "None"]
               \/ \E s \in CommitStatus \cup RollbackStatus : SetStatus(proc[p].x, s)
<1>0. ProcInv
  BY DEF IInv
<1>1. CASE \/ FindBranches(p) \/ AlreadyDecided(p) \/ Recheck(p) \/ CloseSession(p)
           \/ ReleaseOnCommit(p) \/ ReleaseBranch(p) \/ FinalUnlock(p)
           \/ RemoveBranchSession(p) \/ \E b \in Branches : RemoveLeftBranch(p, b)
           \/ \E x \in Xids : PickTimeout(x) \/ PickRetry(p, x)
  BY <1>1 DEF FindBranches, ReadBranches, AlreadyDecided, Recheck, CloseSession,
     ReleaseOnCommit, ReleaseBranch, FinalUnlock, RemoveBranchSession, RemoveLeftBranch,
     PickTimeout, PickRetry, store
<1>2. CASE RecordDecision(p) \/ DeferCommit(p) \/ (p = "timeoutCheck" /\ RecordTimeout)
  BY <1>2 DEF RecordDecision, DeferCommit, RecordTimeout, CommitStatus, RollbackStatus,
     TimeoutStatus, Working
<1>3. CASE RecordRetry(p) \/ FinalStatus(p)
  <2>1. proc[p].pc \in Concluding
    BY <1>3 DEF RecordRetry, FinalStatus, Concluding
  <2>2. proc[p].goal \in CommitStatus \cup RollbackStatus /\ proc[p].pc \in Working
    BY <1>0, <2>1, LocalFacts DEF LocalOK, StatusOf, Working
  <2> QED  BY <1>3, <2>2 DEF RecordRetry, FinalStatus
<1>4. CASE RemoveGlobalSession(p)
  BY <1>4 DEF RemoveGlobalSession, Working
<1> QED  BY <1>1, <1>2, <1>3, <1>4 DEF Proceed

\* The other steps of a process leave them alone.
LEMMA StatusKept ==
  ASSUME NEW p \in Procs,
         Walk(p) \/ Await(p) \/ Faulty(p) \/ \E b \in Branches : SendCallback(p, b)
  PROVE  UNCHANGED <<status, lock, bs>>
  BY DEF Walk, RefuseSaga, EndOfWalk, DropFailedBranch, QueueNotReady, Await,
     AnswerDone, AnswerRetryable, AnswerCannotRetry, AnswerError, SendCallback, Faulty,
     FindBranchesError, ReadBranches, RecheckError, UnlockError, WriteError, store

\* No handler and no worker puts a session back to Begin.
LEMMA NoNewBegin ==
  ASSUME IInv, NEW p \in Procs, Proceed(p), NEW y \in Xids, status'[y] = "Begin"
  PROVE  status[y] = "Begin"
<1>1. "Begin" \notin CommitStatus \cup RollbackStatus
  BY DEF CommitStatus, RollbackStatus, TimeoutStatus
<1> QED  BY <1>1, StatusWrites DEF SetStatus, IInv, TypeOK, StoreType

\* A session is begun once, before its TM has decided; a TM decides once.
LEMMA TMSteps ==
  ASSUME IInv, [Next]_vars, NEW x \in Xids
  PROVE  /\ tm[x] \in Decisions => tm'[x] = tm[x]
         /\ status'[x] = "Begin" => status[x] = "Begin" \/ tm[x] = "none"
<1>0. StoreType /\ ClientType
  BY DEF IInv, TypeOK
<1>1. CASE ClientStep
  <2>1. ASSUME NEW y \in Xids, Begin(y)
        PROVE  /\ tm[x] \in Decisions => tm'[x] = tm[x]
               /\ status'[x] = "Begin" => status[x] = "Begin" \/ tm[x] = "none"
    BY <1>0, <2>1 DEF Begin, Decisions, StoreType, ClientType
  <2>2. ASSUME NEW y \in Xids, NEW d \in Decisions, Decide(y, d)
        PROVE  UNCHANGED status /\ (tm[x] \in Decisions => tm'[x] = tm[x])
    BY <1>0, <2>2 DEF Decide, Decisions, ClientType, store
  <2>3. ASSUME NEW h \in Handlers, NEW y \in Xids, Request(h, y) \/ RequestError(h, y)
        PROVE  UNCHANGED <<tm, status>>
    BY <2>3 DEF Request, RequestError, FindSession, store
  <2> QED  BY <1>1, <2>1, <2>2, <2>3 DEF ClientStep
<1>2. CASE EnvStep
  BY <1>2 DEF EnvStep, Elapse, Connect, Disconnect, Crash, store, clients
<1>3. CASE \E b \in Branches : BranchStep(b)
  BY <1>3 DEF BranchStep, RegisterFind, AcquireLock, AddBranchSession, ReportFind,
     ReportWrite, RegisterError, store
<1>4. CASE \E w \in Workers : Scan(w)
  BY <1>4 DEF Scan, store, clients
<1>5. CASE \E p \in Procs : ProcStep(p)
  <2> PICK p \in Procs : ProcStep(p)
    BY <1>5
  <2>1. UNCHANGED tm
    BY FrameOfProcStep
  <2>2. CASE Proceed(p)
    BY <2>1, <2>2, NoNewBegin
  <2>3. CASE Walk(p) \/ Await(p) \/ Faulty(p) \/ \E b \in Branches : SendCallback(p, b)
    <3>1. UNCHANGED status
      BY <2>3, StatusKept
    <3> QED  BY <2>1, <3>1
  <2> QED  BY <2>2, <2>3 DEF ProcStep
<1>6. CASE UNCHANGED vars
  BY <1>6 DEF vars, store, clients
<1> QED  BY <1>1, <1>2, <1>3, <1>4, <1>5, <1>6 DEF Next

-----------------------------------------------------------------------------
(* The theorems. *)

\* The invariant behind the others: every status row, every worker's list and every order to
\* a branch goes back to a decision of the TM or to a timeout, whatever the goroutines of
\* transaction_coordinator.go interleave, crash or fail to store.
THEOREM Invariance == Spec => []IInv
<1>1. Init => IInv
  BY InitInv
<1>2. IInv /\ [Next]_vars => IInv'
  <2> SUFFICES ASSUME IInv, [Next]_vars PROVE IInv'
    OBVIOUS
  <2> QED  BY ProcStepInv, ScanStepInv, BranchStepInv, ClientStepInv, EnvStepInv, StutterInv
           DEF Next
<1> QED  BY <1>1, <1>2, PTL DEF Spec

\* Type correctness of the tables, the locals of handlers and workers, and the replies.
THEOREM TypeCorrect == Spec => []TypeOK
<1>1. IInv => TypeOK
  BY DEF IInv
<1> QED  BY <1>1, Invariance, PTL

\* doGlobalCommit and doGlobalRollback never call a branch on nobody's authority: commits
\* were requested by the TM, rollbacks too, or the transaction outlived its timeout.
THEOREM ValidityHolds == Spec => []Validity
<1>1. IInv => Validity
  BY DEF IInv
<1> QED  BY <1>1, Invariance, PTL

\* As long as no transaction outlives its timeout, no transaction is committed in one branch
\* and rolled back in another, whatever handlers and workers drive it at the same time.
THEOREM AgreementHolds ==
  ASSUME "timeout" \notin Deadlines
  PROVE  Spec => []Agreement
<1>1. IInv => Agreement
  <2> SUFFICES ASSUME IInv, NEW b \in Branches, NEW c \in Branches, TxOf[b] = TxOf[c],
                      <<"commit", b>> \in asked, <<"rollback", c>> \in asked
               PROVE  FALSE
    BY DEF Agreement
  <2>1. Mandate("commit", TxOf[b]) /\ Mandate("rollback", TxOf[b])
    BY DEF IInv, Validity, Decisions
  <2>2. TxOf[b] \in Xids
    BY TopologyAssumption
  <2>3. "timeout" \notin past[TxOf[b]]
    BY <2>2 DEF IInv, TypeOK, FaultType
  <2> QED  BY <2>1, <2>3 DEF Mandate
<1> QED  BY <1>1, Invariance, PTL

\* As long as no transaction outlives its timeout, a recorded decision is never revised:
\* Commit, Rollback and the workers move a session within its own kind of status until it
\* is removed, although every update of the status is unconditional.
THEOREM DecisionStays ==
  ASSUME "timeout" \notin Deadlines
  PROVE  Spec => DecisionIsStable
<1> DEFINE Stays(x) == \/ status'[x] = "None"
                       \/ status[x] \in CommitStatus /\ status'[x] \in CommitStatus
                       \/ status[x] \in RollbackStatus /\ status'[x] \in RollbackStatus
<1>1. ASSUME IInv, IInv', [Next]_vars, NEW x \in Xids, status[x] \in CommitStatus \cup RollbackStatus
      PROVE  Stays(x)
  <2>1. PICK d \in Decisions : status[x] \in StatusOf(d)
    BY <1>1 DEF StatusOf, Decisions
  <2>2. "timeout" \notin past[x] /\ "timeout" \notin past'[x]
    BY <1>1 DEF IInv, TypeOK, FaultType
  <2>3. tm[x] = d
    BY <1>1, <2>1, <2>2 DEF IInv, StatusMandate, Mandate, Decisions
  <2>4. tm'[x] = d /\ d # "none"
    BY <1>1, <2>3, TMSteps DEF Decisions
  <2>5. status'[x] # "Begin"
    <3>1. status[x] # "Begin"
      BY <1>1 DEF CommitStatus, RollbackStatus, TimeoutStatus
    <3> QED  BY <1>1, <2>3, <2>4, <3>1, TMSteps
  <2>6. \A e \in Decisions : status'[x] \in StatusOf(e) => e = d
    BY <1>1, <2>2, <2>4 DEF IInv, StatusMandate, Mandate, Decisions
  <2>7. status'[x] \in {"None"} \cup CommitStatus \cup RollbackStatus
    BY <1>1, <2>5 DEF IInv, TypeOK, StoreType, Status
  <2> QED  BY <2>1, <2>6, <2>7 DEF StatusOf, Decisions
<1>2. IInv /\ IInv' /\ [Next]_vars =>
        [\A x \in Xids : status[x] \in CommitStatus \cup RollbackStatus => Stays(x)]_vars
  BY <1>1
<1> QED  BY <1>2, Invariance, PTL DEF Spec, DecisionIsStable

=============================================================================
