------------------------- MODULE TCIsolationProofs -------------------------
(***************************************************************************)
(* Global write isolation, for every topology in which the branches of one *)
(* transaction lock different rows, whatever crashes, times out, comes     *)
(* late or fails in the store.                                             *)
(***************************************************************************)
EXTENDS TCProofs

\* ReleaseLock matches row and xid, so two branches of a transaction must not share a row.
OwnRows ==
  \A b, c \in Branches : b # c /\ TxOf[b] = TxOf[c] => RowsOf[b] \cap RowsOf[c] = {}

\* rollbackRetryTimeoutUnlockEnable gives the rows up although the rollback was not done.
NoGiveUp == ~UnlockOnRetryTimeout \/ "retry" \notin Deadlines

\* The branches whose row has been inserted, and of those the ones with nothing to undo.
Entered == {b \in Branches : reg[b] \in {"registered", "reporting", "done"}}
Settled == {b \in Entered : bs[b] # "Registered"}

Locked(b) == \A r \in RowsOf[b] : lock[r] = TxOf[b]

\* The rows of a branch are locked from its AcquireLock to the insert of its row, and on.
RowsOK ==
  /\ \A b \in Branches : bs[b] # "None" => b \in Entered
  /\ \A b \in AT \cap Branches : reg[b] = "add" => Locked(b)
  /\ \A b \in AT \cap Branches : Undecided(b) => Locked(b)

\* A process frees the rows of a branch only if its phase one failed, its phase two is done,
\* the transaction commits, or some branch has refused to roll back.  The sets only grow.
FreesOK(l, entered, settled, acks, refusals) ==
  /\ l.view \subseteq entered /\ l.failed \subseteq settled
  /\ l.pc \in Walking => l.todo \subseteq entered
  /\ l.pc \in {"await", "unlockBranch", "removeBranch"} => TxOf[l.cur] = l.x /\ l.cur \in entered
  /\ l.pc \in {"unlockBranch", "removeBranch"} => l.cur \in settled \/ <<l.dec, l.cur>> \in acks
  /\ l.pc = "unlockAll" => l.dec = "commit"
  /\ l.dec = "rollback" /\ l.pc \in Walking => l.view \cap BranchesOf(l.x) \subseteq l.todo
  /\ l.dec = "rollback" /\ l.pc = "recheckBranches" => l.view \cap BranchesOf(l.x) = {}
  /\ l.dec = "rollback" /\ l.pc \in {"finalStatus", "finalUnlock"} =>
       \/ l.view \cap BranchesOf(l.x) = {}
       \/ \E c \in BranchesOf(l.x) : <<"rollback", c>> \in refusals

FreeingOK == \A p \in Procs : FreesOK(proc[p], Entered, Settled, acked, refused)

IsolationInv == IInv /\ RowsOK /\ FreeingOK

-----------------------------------------------------------------------------
(* The local states. *)

\* What was true of a process stays true when the others go on.
Grows == /\ Entered \subseteq Entered' /\ Settled \subseteq Settled'
         /\ acked \subseteq acked' /\ refused \subseteq refused'

\* A step of p that leaves it as it should be.
LEMMA FreesBecomes ==
  ASSUME IsolationInv, Grows, NEW p \in Procs, NEW l, Becomes(p, l),
         FreesOK(l, Entered', Settled', acked', refused')
  PROVE  FreeingOK'
<1>1. ASSUME NEW q \in Procs PROVE FreesOK(proc'[q], Entered', Settled', acked', refused')
  <2>1. proc'[q] = IF q = p THEN l ELSE proc[q]
    BY DEF IsolationInv, IInv, ProcInv, ProcType, Becomes
  <2>2. FreesOK(proc[q], Entered, Settled, acked, refused)
    BY DEF IsolationInv, FreeingOK
  <2>3. FreesOK(proc[q], Entered', Settled', acked', refused')
    BY <2>2 DEF FreesOK, Grows
  <2> QED  BY <2>1, <2>3
<1> QED  BY <1>1 DEF FreeingOK

\* No process has moved.
LEMMA FreesKeep ==
  ASSUME IsolationInv, Grows, UNCHANGED proc
  PROVE  FreeingOK'
<1>1. ASSUME NEW q \in Procs PROVE FreesOK(proc'[q], Entered', Settled', acked', refused')
  <2>1. FreesOK(proc[q], Entered, Settled, acked, refused)
    BY DEF IsolationInv, FreeingOK
  <2> QED  BY <2>1 DEF FreesOK, Grows
<1> QED  BY <1>1 DEF FreeingOK

\* The labels at which nothing is about to be freed.
Quiet == Labels \ ({"unlockAll", "recheckBranches", "finalStatus", "finalUnlock"} \cup Walking)

\* A step of p to a label at which it frees nothing.
LEMMA QuietFrees ==
  ASSUME IsolationInv, Grows, NEW p \in Procs, NEW l, Becomes(p, l), l.pc \in Quiet,
         l.view \subseteq proc[p].view, l.failed \subseteq proc[p].failed
  PROVE  FreeingOK'
<1>1. FreesOK(proc[p], Entered, Settled, acked, refused)
  BY DEF IsolationInv, FreeingOK
<1>2. FreesOK(l, Entered', Settled', acked', refused')
  BY <1>1 DEF FreesOK, Grows, Quiet, Walking
<1> QED  BY <1>2, FreesBecomes

\* A process that ends.
LEMMA IdleFrees ==
  ASSUME IsolationInv, Grows, NEW p \in Procs, Becomes(p, Idle)
  PROVE  FreeingOK'
<1>1. Idle.pc = "idle" /\ Idle.view = {} /\ Idle.failed = {}
  BY DEF Idle
<1> QED  BY <1>1, QuietFrees DEF Quiet, Labels, Walking

\* A process that is through with its transaction.
LEMMA ReturnFrees ==
  ASSUME IsolationInv, Grows, NEW p \in Procs, Return(p)
  PROVE  FreeingOK'
<1> DEFINE x == proc[p].x
           rest == proc[p].list \ {x}
           l == [proc[p] EXCEPT !.pc = "pick", !.x = NoXid, !.list = rest, !.st[x] = "None",
                                !.open = @ \ {x}, !.view = @ \ BranchesOf(x),
                                !.failed = @ \ BranchesOf(x), !.todo = {},
                                !.cur = NoBranch, !.goal = "None"]
<1>1. proc[p] \in LocalState
  BY LocalFacts DEF IsolationInv, IInv
<1>2. l.pc = "pick" /\ l.view \subseteq proc[p].view /\ l.failed \subseteq proc[p].failed
  BY <1>1 DEF LocalState
<1>3. Becomes(p, IF rest = {} THEN Idle ELSE l)
  BY DEF Return
<1> HIDE DEF l
<1>4. CASE rest = {}
  BY <1>3, <1>4, IdleFrees
<1>5. CASE rest # {}
  BY <1>2, <1>3, <1>5, QuietFrees DEF Quiet, Labels, Walking
<1> QED  BY <1>4, <1>5

\* The start of a walk.
LEMMA DrivingFrees ==
  ASSUME IsolationInv, Grows, NEW p \in Procs, NEW l \in LocalState, NEW x,
         l.view = proc[p].view, l.failed = proc[p].failed, Becomes(p, Driving(l, x))
  PROVE  FreeingOK'
<1> DEFINE m == Driving(l, x)
<1>1. m.pc = "drive" /\ m.view = l.view /\ m.failed = l.failed /\ m.x = x
      /\ m.todo = l.view \cap BranchesOf(x)
  BY DEF Driving, LocalState
<1>2. FreesOK(proc[p], Entered, Settled, acked, refused)
  BY DEF IsolationInv, FreeingOK
<1> HIDE DEF m
<1>3. FreesOK(m, Entered', Settled', acked', refused')
  BY <1>1, <1>2 DEF FreesOK, Grows, Walking
<1> QED  BY <1>3, FreesBecomes DEF m

\* The next branch of the walk.
LEMMA ChooseFrees ==
  ASSUME IsolationInv, Grows, NEW p \in Procs, NEW b \in Branches, b \in proc[p].todo,
         proc[p].pc = "drive", NEW label \in {"await", "unlockBranch"},
         label = "unlockBranch" => b \in proc[p].failed,
         Becomes(p, [proc[p] EXCEPT !.pc = label, !.cur = b])
  PROVE  FreeingOK'
<1> DEFINE m == [proc[p] EXCEPT !.pc = label, !.cur = b]
<1>1. proc[p] \in LocalState /\ proc[p].todo \subseteq BranchesOf(proc[p].x)
  BY LocalFacts DEF IsolationInv, IInv, LocalOK, Walking
<1>2. /\ m.pc = label /\ m.view = proc[p].view /\ m.failed = proc[p].failed /\ m.x = proc[p].x
      /\ m.todo = proc[p].todo /\ m.cur = b /\ m.dec = proc[p].dec
  BY <1>1 DEF LocalState
<1>3. FreesOK(proc[p], Entered, Settled, acked, refused)
  BY DEF IsolationInv, FreeingOK
<1>4. TxOf[b] = proc[p].x
  BY <1>1 DEF BranchesOf
<1> HIDE DEF m
<1>5. FreesOK(m, Entered', Settled', acked', refused')
  BY <1>2, <1>3, <1>4 DEF FreesOK, Grows, Walking
<1> QED  BY <1>5, FreesBecomes DEF m

\* The walk of a commit goes on without a branch.
LEMMA ContinueFrees ==
  ASSUME IsolationInv, Grows, NEW p \in Procs, NEW b, Continue(p, b), proc[p].dec = "commit",
         proc[p].pc \in Walking
  PROVE  FreeingOK'
<1> DEFINE m == [proc[p] EXCEPT !.pc = "drive", !.todo = @ \ {b}, !.cur = NoBranch]
<1>1. proc[p] \in LocalState
  BY LocalFacts DEF IsolationInv, IInv
<1>2. /\ m.pc = "drive" /\ m.view = proc[p].view /\ m.failed = proc[p].failed
      /\ m.dec = "commit" /\ m.todo \subseteq proc[p].todo
  BY <1>1 DEF LocalState
<1>3. FreesOK(proc[p], Entered, Settled, acked, refused)
  BY DEF IsolationInv, FreeingOK
<1> HIDE DEF m
<1>4. FreesOK(m, Entered', Settled', acked', refused')
  BY <1>2, <1>3 DEF FreesOK, Grows, Walking
<1> QED  BY <1>4, FreesBecomes DEF Continue, m

\* A walk that ends with a status to be recorded for the workers.
LEMMA RecordFrees ==
  ASSUME IsolationInv, Grows, NEW p \in Procs, NEW label \in {"retryStatus", "errorStatus"}, NEW s,
         Becomes(p, [proc[p] EXCEPT !.pc = label, !.goal = s])
  PROVE  FreeingOK'
<1> DEFINE m == [proc[p] EXCEPT !.pc = label, !.goal = s]
<1>1. proc[p] \in LocalState
  BY LocalFacts DEF IsolationInv, IInv
<1>2. m.pc = label /\ m.view = proc[p].view /\ m.failed = proc[p].failed
  BY <1>1 DEF LocalState
<1> HIDE DEF m
<1>3. m.pc \in Quiet /\ m.view \subseteq proc[p].view /\ m.failed \subseteq proc[p].failed
  BY <1>2 DEF Quiet, Labels, Walking
<1>4. Becomes(p, m)
  BY DEF m
<1> QED  BY <1>3, <1>4, QuietFrees

\* A branch whose phase two is not done yet leaves the rollback walk for good.
LEMMA NotDoneFrees ==
  ASSUME IsolationInv, Grows, NEW p \in Procs, NEW b, NotDone(p, b),
         proc[p].pc \in Walking
  PROVE  FreeingOK'
<1>1. CASE Becomes(p, [proc[p] EXCEPT !.pc = "retryStatus", !.goal = RetryGoal(p)])
  BY <1>1, RecordFrees
<1>2. CASE Continue(p, b) /\ proc[p].dec = "commit"
  BY <1>2, ContinueFrees
<1>3. CASE Return(p)
  BY <1>3, ReturnFrees
<1> QED  BY <1>1, <1>2, <1>3 DEF NotDone, Finished

-----------------------------------------------------------------------------
(* The steps of a process, one by one: FreeingOK is kept. *)

\* The rows that are read belong to branches that have been entered.
LEMMA ReadBranchesFrees ==
  ASSUME IsolationInv, Grows, NEW p \in Procs, NEW rows, ReadBranches(p, rows),
         \A b \in rows : b \in Branches /\ bs[b] # "None"
  PROVE  FreeingOK'
<1> DEFINE m == [proc[p] EXCEPT !.view = rows,
                                !.failed = {b \in rows : bs[b] = "PhaseOneFailed"},
                                !.pc = IF p \in Handlers THEN "close" ELSE "pick"]
<1>1. proc[p] \in LocalState
  BY LocalFacts DEF IsolationInv, IInv
<1>2. m.view = rows /\ m.failed = {b \in rows : bs[b] = "PhaseOneFailed"} /\ m.pc \in {"close", "pick"}
  BY <1>1 DEF LocalState
<1>3. rows \subseteq Entered /\ {b \in rows : bs[b] = "PhaseOneFailed"} \subseteq Settled
  BY DEF IsolationInv, RowsOK, Settled
<1> HIDE DEF m
<1>4. FreesOK(m, Entered', Settled', acked', refused')
  BY <1>2, <1>3 DEF FreesOK, Grows, Walking
<1> QED  BY <1>4, FreesBecomes DEF ReadBranches, m

\* Only a commit goes on to free rows before the status is recorded.
LEMMA CloseSessionFrees ==
  ASSUME IsolationInv, Grows, NEW p \in Procs, CloseSession(p)
  PROVE  FreeingOK'
<1> DEFINE next == IF p \in Handlers /\ proc[p].dec = "commit" THEN "unlockAll" ELSE "decide"
           m == [proc[p] EXCEPT !.open = @ \ {proc[p].x}, !.pc = next]
<1>1. proc[p] \in LocalState
  BY LocalFacts DEF IsolationInv, IInv
<1>2. m.pc = next /\ m.view = proc[p].view /\ m.failed = proc[p].failed /\ m.dec = proc[p].dec
  BY <1>1 DEF LocalState
<1>3. FreesOK(proc[p], Entered, Settled, acked, refused)
  BY DEF IsolationInv, FreeingOK
<1> HIDE DEF m
<1>4. FreesOK(m, Entered', Settled', acked', refused')
  BY <1>2, <1>3 DEF FreesOK, Grows, Walking
<1> QED  BY <1>4, FreesBecomes DEF CloseSession, m

\* The handler records its decision and starts its walk, or leaves it to the worker.
LEMMA RecordDecisionFrees ==
  ASSUME IsolationInv, Grows, NEW h \in Procs, RecordDecision(h)
  PROVE  FreeingOK'
<1> DEFINE x == proc[h].x
           s == IF proc[h].dec = "commit" THEN "Committing" ELSE "RollingBack"
           l == [proc[h] EXCEPT !.st[x] = s]
           m == [l EXCEPT !.pc = "async"]
<1>1. proc[h] \in LocalState
  BY LocalFacts DEF IsolationInv, IInv
<1>2. l \in LocalState /\ l.view = proc[h].view /\ l.failed = proc[h].failed
  BY <1>1 DEF LocalState, Status, CommitStatus, RollbackStatus
<1>3. m.pc = "async" /\ m.view = proc[h].view /\ m.failed = proc[h].failed
  BY <1>2 DEF LocalState
<1>4. Becomes(h, m) \/ Becomes(h, Driving(l, x))
  BY DEF RecordDecision
<1> HIDE DEF l
<1>5. CASE Becomes(h, Driving(l, x))
  BY <1>2, <1>5, DrivingFrees
<1> HIDE DEF m
<1>6. CASE Becomes(h, m)
  <2>1. m.pc \in Quiet /\ m.view \subseteq proc[h].view /\ m.failed \subseteq proc[h].failed
    BY <1>3 DEF Quiet, Labels, Walking
  <2> QED  BY <1>6, <2>1, QuietFrees
<1> QED  BY <1>4, <1>5, <1>6

\* The picks of the workers; a worker that gives up frees nothing.
LEMMA PickFrees ==
  ASSUME IsolationInv, NoGiveUp, Grows, NEW p \in Procs, NEW x \in Xids,
         PickRetry(p, x) \/ (p = "timeoutCheck" /\ PickTimeout(x))
  PROVE  FreeingOK'
<1> DEFINE skip == [proc[p] EXCEPT !.list = @ \ {x}, !.st[x] = "None", !.open = @ \ {x},
                                   !.view = @ \ BranchesOf(x), !.failed = @ \ BranchesOf(x)]
           drop == [proc[p] EXCEPT !.x = x, !.pc = "finalSession"]
           close == [proc[p] EXCEPT !.pc = "close", !.x = x]
           next == [proc[p] EXCEPT !.list = @ \ {x}, !.st[x] = "None", !.open = @ \ {x}]
<1>1. proc[p] \in LocalState /\ proc[p].pc = "pick"
  BY LocalFacts DEF IsolationInv, IInv, PickRetry, PickTimeout
<1>2. \A l \in {skip, drop, close, next} :
        /\ l.pc \in {"pick", "finalSession", "close"}
        /\ l.view \subseteq proc[p].view /\ l.failed \subseteq proc[p].failed
  <2>1. skip.pc = "pick" /\ skip.view \subseteq proc[p].view /\ skip.failed \subseteq proc[p].failed
    BY <1>1 DEF LocalState
  <2>2. drop.pc = "finalSession" /\ drop.view = proc[p].view /\ drop.failed = proc[p].failed
    BY <1>1 DEF LocalState
  <2>3. close.pc = "close" /\ close.view = proc[p].view /\ close.failed = proc[p].failed
    BY <1>1 DEF LocalState
  <2>4. next.pc = "pick" /\ next.view = proc[p].view /\ next.failed = proc[p].failed
    BY <1>1 DEF LocalState
  <2> HIDE DEF skip, drop, close, next
  <2> QED  BY <2>1, <2>2, <2>3, <2>4
<1>3. Becomes(p, Idle) \/ Becomes(p, Driving(proc[p], x))
      \/ Becomes(p, skip) \/ Becomes(p, drop) \/ Becomes(p, close) \/ Becomes(p, next)
  <2>1. "retry" \in past[x] => "retry" \in Deadlines
    BY DEF IsolationInv, IInv, TypeOK, FaultType
  <2>2. CASE PickRetry(p, x)
    BY <2>1, <2>2 DEF PickRetry, GivesUp, NoGiveUp
  <2>3. CASE p = "timeoutCheck" /\ PickTimeout(x)
    BY <2>3 DEF PickTimeout
  <2> QED  BY <2>2, <2>3
<1> HIDE DEF skip, drop, close, next
<1>4. ASSUME NEW l \in {skip, drop, close, next}, Becomes(p, l) PROVE FreeingOK'
  <2>1. l.pc \in Quiet
    BY <1>2 DEF Quiet, Labels, Walking
  <2> QED  BY <1>2, <1>4, <2>1, QuietFrees
<1> QED  BY <1>1, <1>3, <1>4, IdleFrees, DrivingFrees

\* Steps from one label to the next.
LEMMA GotoFrees ==
  ASSUME IsolationInv, Grows, NEW p \in Procs, NEW label \in Labels, Goto(p, label),
         \/ label \in Quiet
         \/ proc[p].pc = "unlockBranch" /\ label = "removeBranch"
         \/ proc[p].pc = "recheckBranches" /\ label = "finalStatus"
         \/ /\ proc[p].pc = "await" /\ label = "unlockBranch"
            /\ <<proc[p].dec, proc[p].cur>> \in acked'
  PROVE  FreeingOK'
<1> DEFINE m == [proc[p] EXCEPT !.pc = label]
<1>1. /\ m.pc = label /\ m.x = proc[p].x /\ m.dec = proc[p].dec /\ m.cur = proc[p].cur
      /\ m.view = proc[p].view /\ m.failed = proc[p].failed /\ m.todo = proc[p].todo
  <2>1. proc[p] \in LocalState
    BY LocalFacts DEF IsolationInv, IInv
  <2> QED  BY <2>1 DEF LocalState
<1>2. FreesOK(proc[p], Entered, Settled, acked, refused)
  BY DEF IsolationInv, FreeingOK
<1> HIDE DEF m
<1>3. FreesOK(m, Entered', Settled', acked', refused')
  BY <1>1, <1>2 DEF FreesOK, Grows, Quiet, Walking
<1> QED  BY <1>3, FreesBecomes DEF Goto, m

\* A branch that is done leaves the copy and the walk at once.
LEMMA RemoveBranchFrees ==
  ASSUME IsolationInv, Grows, NEW p \in Procs, RemoveBranchSession(p)
  PROVE  FreeingOK'
<1> DEFINE b == proc[p].cur
           m == [proc[p] EXCEPT !.pc = "drive", !.view = @ \ {b}, !.todo = @ \ {b},
                                !.cur = NoBranch]
<1>1. proc[p] \in LocalState /\ proc[p].pc = "removeBranch"
  BY LocalFacts DEF IsolationInv, IInv, RemoveBranchSession
<1>2. /\ m.pc = "drive" /\ m.view = proc[p].view \ {b} /\ m.todo = proc[p].todo \ {b}
      /\ m.failed = proc[p].failed /\ m.x = proc[p].x /\ m.dec = proc[p].dec
  BY <1>1 DEF LocalState
<1>3. FreesOK(proc[p], Entered, Settled, acked, refused)
  BY DEF IsolationInv, FreeingOK
<1> HIDE DEF m
<1>4. FreesOK(m, Entered', Settled', acked', refused')
  BY <1>1, <1>2, <1>3 DEF FreesOK, Grows, Walking
<1> QED  BY <1>4, FreesBecomes DEF RemoveBranchSession, m

\* After a walk that rolled back, no branch is left in the copy.
LEMMA EndOfWalkFrees ==
  ASSUME IsolationInv, Grows, NEW p \in Procs, EndOfWalk(p)
  PROVE  FreeingOK'
<1> DEFINE s == IF proc[p].dec = "commit" THEN "Committed"
                ELSE IF IsTimeoutGlobalStatus(p) THEN "TimeoutRolledBack" ELSE "RolledBack"
           label == IF status[proc[p].x] = "None" THEN "finalStatus" ELSE "recheckBranches"
           m == [proc[p] EXCEPT !.goal = s, !.pc = label]
<1>1. proc[p] \in LocalState /\ proc[p].pc = "drive" /\ proc[p].todo = {}
  BY LocalFacts DEF IsolationInv, IInv, EndOfWalk
<1>2. /\ m.pc = label /\ m.view = proc[p].view /\ m.failed = proc[p].failed
      /\ m.x = proc[p].x /\ m.dec = proc[p].dec
  BY <1>1 DEF LocalState
<1>3. FreesOK(proc[p], Entered, Settled, acked, refused)
  BY DEF IsolationInv, FreeingOK
<1>4. Becomes(p, m)
  BY DEF EndOfWalk
<1> HIDE DEF m
<1>5. FreesOK(m, Entered', Settled', acked', refused')
  BY <1>1, <1>2, <1>3 DEF FreesOK, Grows, Walking
<1> QED  BY <1>4, <1>5, FreesBecomes

\* The status changes, what may be freed does not.
LEMMA FinalStatusFrees ==
  ASSUME IsolationInv, Grows, NEW p \in Procs, FinalStatus(p)
  PROVE  FreeingOK'
<1> DEFINE m == [proc[p] EXCEPT !.st[proc[p].x] = proc[p].goal, !.pc = "finalUnlock"]
<1>1. proc[p] \in LocalState /\ proc[p].pc = "finalStatus"
  BY LocalFacts DEF IsolationInv, IInv, FinalStatus
<1>2. /\ m.pc = "finalUnlock" /\ m.view = proc[p].view /\ m.failed = proc[p].failed
      /\ m.x = proc[p].x /\ m.dec = proc[p].dec
  BY <1>1 DEF LocalState
<1>3. FreesOK(proc[p], Entered, Settled, acked, refused)
  BY DEF IsolationInv, FreeingOK
<1> HIDE DEF m
<1>4. FreesOK(m, Entered', Settled', acked', refused')
  BY <1>1, <1>2, <1>3 DEF FreesOK, Grows, Walking
<1> QED  BY <1>4, FreesBecomes DEF FinalStatus, m

\* RemoveGlobalTransaction forgets branches and frees nothing.
LEMMA RemoveLeftFrees ==
  ASSUME IsolationInv, Grows, NEW p \in Procs, NEW b, RemoveLeftBranch(p, b)
  PROVE  FreeingOK'
<1> DEFINE m == [proc[p] EXCEPT !.view = @ \ {b}]
<1>1. proc[p] \in LocalState /\ proc[p].pc = "finalBranches"
  BY LocalFacts DEF IsolationInv, IInv, RemoveLeftBranch
<1>2. m.pc = "finalBranches" /\ m.view \subseteq proc[p].view /\ m.failed = proc[p].failed
  BY <1>1 DEF LocalState
<1>3. Becomes(p, m) \/ Return(p)
  BY DEF RemoveLeftBranch, Finished
<1> HIDE DEF m
<1>4. m.pc \in Quiet
  BY <1>2 DEF Quiet, Labels, Walking
<1> QED  BY <1>2, <1>3, <1>4, QuietFrees, ReturnFrees

\* The RM refuses for good: its refusal is on record.
LEMMA CannotRetryFrees ==
  ASSUME IsolationInv, Grows, NEW p \in Procs, AnswerCannotRetry(p)
  PROVE  FreeingOK'
<1> DEFINE m == [proc[p] EXCEPT !.pc = "finalStatus", !.goal = FailedGoal(p)]
<1>1. proc[p] \in LocalState /\ proc[p].pc = "await" /\ proc[p].cur \in Branches
  BY LocalFacts DEF IsolationInv, IInv, AnswerCannotRetry, LocalOK
<1>2. /\ m.pc = "finalStatus" /\ m.view = proc[p].view /\ m.failed = proc[p].failed
      /\ m.x = proc[p].x /\ m.dec = proc[p].dec
  BY <1>1 DEF LocalState
<1>3. FreesOK(proc[p], Entered, Settled, acked, refused)
  BY DEF IsolationInv, FreeingOK
<1>4. proc[p].cur \in BranchesOf(proc[p].x) /\ <<proc[p].dec, proc[p].cur>> \in refused'
  BY <1>1, <1>3 DEF FreesOK, BranchesOf, AnswerCannotRetry
<1>5. Becomes(p, m) \/ (Continue(p, proc[p].cur) /\ proc[p].dec = "commit")
  BY DEF AnswerCannotRetry
<1> HIDE DEF m
<1>6. FreesOK(m, Entered', Settled', acked', refused')
  BY <1>2, <1>3, <1>4 DEF FreesOK, Grows, Walking
<1> QED  BY <1>1, <1>5, <1>6, FreesBecomes, ContinueFrees DEF Walking

\* The steps that follow from the code of one goroutine.
LEMMA ProceedFrees ==
  ASSUME IsolationInv, NoGiveUp, Grows, NEW p \in Procs, Proceed(p)
  PROVE  FreeingOK'
<1>1. CASE FindBranches(p)
  <2> DEFINE rows == {b \in Branches : TxOf[b] \in proc[p].list /\ bs[b] # "None"}
  <2>1. ReadBranches(p, rows)
    BY <1>1 DEF FindBranches
  <2> QED  BY <2>1, ReadBranchesFrees
<1>2. CASE CloseSession(p)
  BY <1>2, CloseSessionFrees
<1>3. CASE ReleaseOnCommit(p)
  <2>1. "decide" \in Quiet /\ "decide" \in Labels
    BY DEF Quiet, Labels, Walking
  <2> QED  BY <1>3, <2>1, GotoFrees DEF ReleaseOnCommit
<1>4. CASE RecordDecision(p)
  BY <1>4, RecordDecisionFrees
<1>5. CASE AlreadyDecided(p) \/ DeferCommit(p) \/ RecordRetry(p) \/ (p = "timeoutCheck" /\ RecordTimeout)
  BY <1>5, ReturnFrees DEF AlreadyDecided, DeferCommit, RecordRetry, RecordTimeout
<1>6. CASE \E x \in Xids : PickRetry(p, x) \/ (p = "timeoutCheck" /\ PickTimeout(x))
  BY <1>6, PickFrees
<1>7. CASE ReleaseBranch(p)
  <2>1. "removeBranch" \in Labels
    BY DEF Labels
  <2> QED  BY <1>7, <2>1, GotoFrees DEF ReleaseBranch
<1>8. CASE RemoveBranchSession(p)
  BY <1>8, RemoveBranchFrees
<1>9. CASE Recheck(p)
  <2>1. "finalStatus" \in Labels
    BY DEF Labels
  <2>2. Return(p) \/ Goto(p, "finalStatus")
    BY <1>9 DEF Recheck, Finished
  <2> QED  BY <1>9, <2>1, <2>2, ReturnFrees, GotoFrees DEF Recheck
<1>10. CASE FinalStatus(p)
  BY <1>10, FinalStatusFrees
<1>11. CASE FinalUnlock(p) \/ RemoveGlobalSession(p)
  <2>1. {"finalSession", "finalBranches"} \subseteq Quiet \cap Labels
    BY DEF Quiet, Labels, Walking
  <2>2. Return(p) \/ Goto(p, "finalSession") \/ Goto(p, "finalBranches")
    BY <1>11 DEF FinalUnlock, RemoveGlobalSession, Finished
  <2> QED  BY <2>1, <2>2, ReturnFrees, GotoFrees
<1>12. CASE \E b \in Branches : RemoveLeftBranch(p, b)
  BY <1>12, RemoveLeftFrees
<1> QED  BY <1>1, <1>2, <1>3, <1>4, <1>5, <1>6, <1>7, <1>8, <1>9, <1>10, <1>11, <1>12 DEF Proceed

\* The walk over the branches and the answers of the RMs.
LEMMA WalkFrees ==
  ASSUME IsolationInv, Grows, NEW p \in Procs,
         Walk(p) \/ Await(p) \/ \E b \in Branches : SendCallback(p, b)
  PROVE  FreeingOK'
<1>1. CASE RefuseSaga(p)
  BY <1>1, ReturnFrees DEF RefuseSaga
<1>2. CASE EndOfWalk(p)
  BY <1>2, EndOfWalkFrees
<1>3. ASSUME NEW b \in Branches, DropFailedBranch(p, b) PROVE FreeingOK'
  BY <1>3, ChooseFrees DEF DropFailedBranch
<1>4. ASSUME NEW b \in Branches, QueueNotReady(p, b) PROVE FreeingOK'
  BY <1>4, NotDoneFrees DEF QueueNotReady, Next2, Walking
<1>5. ASSUME NEW b \in Branches, SendCallback(p, b) PROVE FreeingOK'
  BY <1>5, ChooseFrees DEF SendCallback, Next2
<1>6. CASE AnswerDone(p)
  <2>1. "unlockBranch" \in Labels
    BY DEF Labels
  <2> QED  BY <1>6, <2>1, GotoFrees DEF AnswerDone
<1>7. CASE AnswerRetryable(p)
  BY <1>7, NotDoneFrees DEF AnswerRetryable, Walking
<1>8. CASE AnswerCannotRetry(p)
  BY <1>8, CannotRetryFrees
<1>9. CASE AnswerError(p)
  BY <1>9, ReturnFrees, RecordFrees DEF AnswerError
<1> QED  BY <1>1, <1>2, <1>3, <1>4, <1>5, <1>6, <1>7, <1>8, <1>9 DEF Walk, Await

\* Failed reads and writes of the store: they free nothing.
LEMMA FaultyFrees ==
  ASSUME IsolationInv, Grows, NEW p \in Procs, Faulty(p)
  PROVE  FreeingOK'
<1>0. /\ {"decide", "finalSession"} \subseteq Quiet \cap Labels
      /\ {"removeBranch", "finalStatus"} \subseteq Labels
  BY DEF Quiet, Labels, Walking
<1>1. CASE FindBranchesError(p)
  BY <1>1, ReadBranchesFrees DEF FindBranchesError
<1>2. CASE RecheckError(p)
  BY <1>0, <1>2, GotoFrees DEF RecheckError
<1>3. CASE UnlockError(p)
  <2>1. \/ Goto(p, "decide") \/ Goto(p, "finalSession")
        \/ Goto(p, "removeBranch") /\ proc[p].pc = "unlockBranch"
    BY <1>3 DEF UnlockError
  <2> QED  BY <1>0, <2>1, GotoFrees
<1>4. CASE WriteError(p)
  BY <1>4, IdleFrees, ReturnFrees DEF WriteError
<1> QED  BY <1>1, <1>2, <1>3, <1>4 DEF Faulty

-----------------------------------------------------------------------------
(* RowsOK: who frees rows, and whose rows have to stay locked.             *)

\* No branch newly needs its rows, apart from the one that locks or enters them.
Narrows ==
  /\ UNCHANGED reg \/ \A b \in AT \cap Branches : reg'[b] = "add" => reg[b] = "add"
  /\ \A b \in Branches : /\ bs'[b] = "Registered" => bs[b] = "Registered"
                         /\ bs'[b] # "None" => bs[b] # "None"
                         /\ tm[TxOf[b]] = "commit" => tm'[TxOf[b]] = "commit"

\* Branches that need their rows keep them.
LEMMA RowsKeep ==
  ASSUME IsolationInv, Grows, Narrows,
         \A b \in AT \cap Branches :
           Locked(b) /\ (reg[b] = "add" \/ Undecided(b)') => Locked(b)'
  PROVE  RowsOK'
<1>1. \A b \in Branches : Undecided(b)' => Undecided(b)
  BY DEF Narrows, Grows, Undecided
<1>2. \A b \in Branches : bs'[b] # "None" => b \in Entered'
  BY DEF IsolationInv, RowsOK, Narrows, Grows
<1>3. \A b \in AT \cap Branches : reg'[b] = "add" => Locked(b)'
  BY DEF IsolationInv, RowsOK, Narrows
<1>4. \A b \in AT \cap Branches : Undecided(b)' => Locked(b)'
  BY <1>1 DEF IsolationInv, RowsOK
<1> QED  BY <1>2, <1>3, <1>4 DEF RowsOK

\* A step that leaves the lock table alone.
LEMMA LocksKeep ==
  ASSUME IsolationInv, Grows, Narrows, UNCHANGED lock
  PROVE  RowsOK'
<1>1. \A b \in Branches : Locked(b) => Locked(b)'
  BY DEF Locked
<1> QED  BY <1>1, RowsKeep

\* A process forgets branches, it never adds any.
LEMMA ProcGrows ==
  ASSUME IsolationInv, NEW p \in Procs, ProcStep(p)
  PROVE  Grows /\ Narrows
<1>0. IInv /\ bs \in [Branches -> {"None", "Registered", "PhaseOneFailed"}]
  BY DEF IsolationInv, IInv, TypeOK, StoreType
<1>1. UNCHANGED <<reg, tm>>
  BY <1>0, FrameOfProcStep
<1>2. \A b \in Branches : bs'[b] \in {bs[b], "None"}
  <2>1. CASE Proceed(p)
    BY <1>0, <2>1 DEF Proceed, FindBranches, ReadBranches, CloseSession, ReleaseOnCommit,
       RecordDecision, AlreadyDecided, DeferCommit, RecordTimeout, PickTimeout, PickRetry,
       RecordRetry, ReleaseBranch, RemoveBranchSession, Recheck, FinalStatus, FinalUnlock,
       RemoveGlobalSession, RemoveLeftBranch, store
  <2>2. CASE Walk(p) \/ Await(p) \/ \E b \in Branches : SendCallback(p, b)
    BY <2>2 DEF Walk, RefuseSaga, EndOfWalk, DropFailedBranch, QueueNotReady, Await,
       AnswerDone, AnswerRetryable, AnswerCannotRetry, AnswerError, SendCallback, store
  <2>3. CASE Faulty(p)
    BY <2>3 DEF Faulty, FindBranchesError, ReadBranches, RecheckError, UnlockError,
       WriteError, store
  <2> QED  BY <2>1, <2>2, <2>3 DEF ProcStep
<1>3. acked \subseteq acked' /\ refused \subseteq refused'
  <2>1. CASE Proceed(p)
    BY <2>1 DEF Proceed, FindBranches, ReadBranches, CloseSession, ReleaseOnCommit,
       RecordDecision, AlreadyDecided, DeferCommit, RecordTimeout, PickTimeout, PickRetry,
       RecordRetry, ReleaseBranch, RemoveBranchSession, Recheck, FinalStatus, FinalUnlock,
       RemoveGlobalSession, RemoveLeftBranch, history
  <2>2. CASE Walk(p) \/ Await(p) \/ \E b \in Branches : SendCallback(p, b)
    BY <2>2 DEF Walk, RefuseSaga, EndOfWalk, DropFailedBranch, QueueNotReady, Await,
       AnswerDone, AnswerRetryable, AnswerCannotRetry, AnswerError, SendCallback, history
  <2>3. CASE Faulty(p)
    BY <2>3 DEF Faulty, FindBranchesError, ReadBranches, RecheckError, UnlockError,
       WriteError, history
  <2> QED  BY <2>1, <2>2, <2>3 DEF ProcStep
<1>4. Entered' = Entered /\ Settled \subseteq Settled'
  BY <1>1, <1>2 DEF Entered, Settled
<1> QED  BY <1>1, <1>2, <1>3, <1>4 DEF Grows, Narrows

\* ReleaseLock of branches B by a process that works on x: nobody is deprived who is not
\* either among them or of another transaction.
LEMMA FreeRows ==
  ASSUME IsolationInv, OwnRows, Grows, Narrows, NEW x, NEW B, B \subseteq Entered,
         \A c \in B : TxOf[c] = x, Unlock(x, B),
         \A b \in AT \cap B : ~Undecided(b)'
  PROVE  RowsOK'
<1>1. ASSUME NEW b \in AT \cap Branches, Locked(b), reg[b] = "add" \/ Undecided(b)'
      PROVE  Locked(b)'
  <2>1. b \notin B
    BY <1>1 DEF Entered
  <2>2. B \subseteq Branches
    BY DEF Entered
  <2>3. TxOf[b] = x => RowsOf[b] \cap RowsHeldBy(B) = {}
    BY <2>1, <2>2 DEF OwnRows, RowsHeldBy
  <2>4. RowsOf[b] \subseteq Rows
    BY TopologyAssumption
  <2> QED  BY <1>1, <2>3, <2>4 DEF Unlock, Locked
<1> QED  BY <1>1, RowsKeep

\* A transaction that its process commits has been committed by its TM.
LEMMA CommitFrees ==
  ASSUME IsolationInv, Narrows, NEW p \in Procs, proc[p].pc \in Working,
         proc[p].dec = "commit", NEW b \in Branches, TxOf[b] = proc[p].x
  PROVE  ~Undecided(b)'
<1>1. Mandate(proc[p].dec, proc[p].x)
  BY WorkFacts DEF IsolationInv, IInv
<1>2. tm[TxOf[b]] = "commit"
  BY <1>1 DEF Mandate
<1> QED  BY <1>2 DEF Narrows, Undecided

\* The three places where doGlobalCommit, doGlobalRollback and Commit free rows.
LEMMA ReleaseRows ==
  ASSUME IsolationInv, OwnRows, Grows, Narrows, NEW p \in Procs,
         ReleaseOnCommit(p) \/ ReleaseBranch(p) \/ FinalUnlock(p)
  PROVE  RowsOK'
<1>0. proc[p].dec \in Decisions /\ FreesOK(proc[p], Entered, Settled, acked, refused)
  BY LocalFacts DEF IsolationInv, IInv, FreeingOK
<1>1. View(p) \subseteq Entered /\ \A c \in View(p) : TxOf[c] = proc[p].x
  BY <1>0 DEF View, BranchesOf, FreesOK
<1>2. proc[p].pc \in Working
  BY DEF ReleaseOnCommit, ReleaseBranch, FinalUnlock, Working
<1>3. \A b \in Branches : proc[p].dec = "commit" /\ TxOf[b] = proc[p].x => ~Undecided(b)'
  BY <1>2, CommitFrees
<1>4. CASE ReleaseOnCommit(p)
  <2>1. proc[p].dec = "commit" /\ Unlock(proc[p].x, View(p))
    BY <1>0, <1>4 DEF ReleaseOnCommit, FreesOK
  <2>2. \A b \in View(p) : ~Undecided(b)'
    BY <1>1, <1>3, <2>1 DEF Entered
  <2> QED  BY <1>1, <2>1, <2>2, FreeRows
<1>5. CASE ReleaseBranch(p)
  <2>1. PICK b \in Branches : b = proc[p].cur
    BY <1>0, <1>5 DEF ReleaseBranch, FreesOK, Entered
  <2>2. /\ TxOf[b] = proc[p].x /\ b \in Entered /\ Unlock(proc[p].x, {b})
        /\ b \in Settled \/ <<proc[p].dec, b>> \in acked
    BY <1>0, <1>5, <2>1 DEF ReleaseBranch, FreesOK
  <2>3. ~Undecided(b)'
    <3>1. CASE proc[p].dec = "commit"
      BY <1>3, <2>2, <3>1
    <3>2. CASE <<"rollback", b>> \in acked
      BY <3>2 DEF Grows, Undecided
    <3>3. CASE b \in Settled
      BY <3>3 DEF Grows, Settled, Undecided
    <3> QED  BY <1>0, <2>2, <3>1, <3>2, <3>3 DEF Decisions
  <2> QED  BY <2>2, <2>3, FreeRows
<1>6. CASE FinalUnlock(p)
  <2>1. Unlock(proc[p].x, View(p)) /\ proc[p].pc = "finalUnlock"
    BY <1>6 DEF FinalUnlock
  <2>2. ASSUME NEW b \in View(p) PROVE ~Undecided(b)'
    <3>1. CASE proc[p].dec = "commit"
      BY <1>1, <1>3, <3>1 DEF Entered
    <3>2. CASE proc[p].dec = "rollback"
      <4>1. PICK c \in BranchesOf(proc[p].x) : <<"rollback", c>> \in refused
        BY <1>0, <2>1, <3>2 DEF FreesOK, View
      <4>2. c \in BranchesOf(TxOf[b])
        BY <1>1
      <4> QED  BY <4>1, <4>2 DEF Grows, Undecided
    <3> QED  BY <1>0, <3>1, <3>2 DEF Decisions
  <2> QED  BY <1>1, <2>1, <2>2, FreeRows
<1> QED  BY <1>4, <1>5, <1>6

-----------------------------------------------------------------------------
(* The invariant is kept by every step.                                    *)

\* A step of a handler or worker.
LEMMA ProcStepIsolation ==
  ASSUME IsolationInv, OwnRows, NoGiveUp, NEW p \in Procs, ProcStep(p)
  PROVE  RowsOK' /\ FreeingOK'
<1>1. Grows /\ Narrows
  BY ProcGrows
<1>2. FreeingOK'
  BY <1>1, ProceedFrees, WalkFrees, FaultyFrees DEF ProcStep
<1>3. UNCHANGED lock \/ ReleaseOnCommit(p) \/ ReleaseBranch(p) \/ FinalUnlock(p)
  <2>1. CASE Proceed(p)
    BY <2>1 DEF Proceed, FindBranches, ReadBranches, CloseSession, RecordDecision,
       AlreadyDecided, DeferCommit, RecordTimeout, PickTimeout, PickRetry, RecordRetry,
       RemoveBranchSession, Recheck, FinalStatus, RemoveGlobalSession, RemoveLeftBranch, store
  <2>2. CASE Walk(p) \/ Await(p) \/ \E b \in Branches : SendCallback(p, b)
    BY <2>2 DEF Walk, RefuseSaga, EndOfWalk, DropFailedBranch, QueueNotReady, Await,
       AnswerDone, AnswerRetryable, AnswerCannotRetry, AnswerError, SendCallback, store
  <2>3. CASE Faulty(p)
    BY <2>3 DEF Faulty, FindBranchesError, ReadBranches, RecheckError, UnlockError,
       WriteError, store
  <2> QED  BY <2>1, <2>2, <2>3 DEF ProcStep
<1> QED  BY <1>1, <1>2, <1>3, LocksKeep, ReleaseRows

\* BranchRegister and BranchReport: AcquireLock takes no row that another transaction holds,
\* and the row of the branch is inserted after its rows have been locked.
LEMMA BranchStepIsolation ==
  ASSUME IsolationInv, NEW b \in Branches, BranchStep(b)
  PROVE  RowsOK' /\ FreeingOK'
<1>0. IInv /\ RowsOK /\ bs \in [Branches -> {"None", "Registered", "PhaseOneFailed"}]
      /\ reg \in [Branches -> {"none", "lock", "add", "registered", "refused", "reporting", "done"}]
  BY DEF IsolationInv, IInv, TypeOK, StoreType, ClientType
<1>1. UNCHANGED <<proc, tm, acked, refused>>
  BY DEF BranchStep, RegisterFind, AcquireLock, AddBranchSession, ReportFind, ReportWrite,
     RegisterError, history
<1>2. CASE RegisterFind(b)
  <2>1. UNCHANGED <<bs, lock>> /\ Entered' = Entered /\ Settled' = Settled
    BY <1>0, <1>2 DEF RegisterFind, store, Entered, Settled
  <2>2. \A c \in AT \cap Branches : reg'[c] = "add" => reg[c] = "add"
    BY <1>0, <1>2 DEF RegisterFind
  <2>3. Grows /\ Narrows
    BY <1>1, <2>1, <2>2 DEF Grows, Narrows
  <2> QED  BY <1>1, <2>1, <2>3, LocksKeep, FreesKeep
<1>3. CASE AcquireLock(b)
  <2>1. UNCHANGED bs /\ Entered' = Entered /\ Settled' = Settled
    BY <1>0, <1>3 DEF AcquireLock, Entered, Settled
  <2>2. Grows
    BY <1>1, <2>1 DEF Grows
  <2>3. \A c \in Branches : Locked(c) => Locked(c)'
    <3>1. ASSUME NEW c \in Branches, Locked(c), NEW r \in RowsOf[c] PROVE lock'[r] = TxOf[c]
      <4>1. TxOf[c] \in Xids /\ r \in Rows /\ TxOf[c] # NoXid
        BY <3>1, TopologyAssumption
      <4>2. lock[r] = TxOf[c]
        BY <3>1 DEF Locked
      <4> QED  BY <1>3, <4>1, <4>2 DEF AcquireLock
    <3> QED  BY <3>1 DEF Locked
  <2>4. reg'[b] = "add" => Locked(b)'
    <3>1. RowsOf[b] \subseteq Rows
      BY TopologyAssumption
    <3> QED  BY <1>0, <1>3, <3>1 DEF AcquireLock, Locked
  <2>5. \A c \in Branches : c # b => reg'[c] = reg[c]
    BY <1>0, <1>3 DEF AcquireLock
  <2>6. \A c \in Branches : Undecided(c)' = Undecided(c)
    BY <1>1, <2>1 DEF Undecided
  <2>7. RowsOK'
    BY <1>0, <2>1, <2>3, <2>4, <2>5, <2>6 DEF RowsOK
  <2> QED  BY <1>1, <2>2, <2>7, FreesKeep
<1>4. CASE AddBranchSession(b)
  <2>1. /\ UNCHANGED lock /\ reg[b] = "add"
        /\ bs' = [bs EXCEPT ![b] = "Registered"] /\ reg' = [reg EXCEPT ![b] = "registered"]
    BY <1>4 DEF AddBranchSession
  <2>2. Entered' = Entered \cup {b} /\ Settled \subseteq Settled' /\ b \notin Entered
    BY <1>0, <2>1 DEF Entered, Settled
  <2>3. Grows
    BY <1>1, <2>2 DEF Grows
  <2>4. \A c \in Branches : Locked(c)' = Locked(c)
    BY <2>1 DEF Locked
  <2>5. \A c \in Branches : c # b => bs'[c] = bs[c] /\ reg'[c] = reg[c]
    BY <1>0, <2>1
  <2>6. \A c \in Branches : c # b => Undecided(c)' = Undecided(c)
    BY <1>1, <2>5 DEF Undecided
  <2>7. RowsOK'
    <3>1. \A c \in Branches : bs'[c] # "None" => c \in Entered'
      BY <1>0, <2>2, <2>5 DEF RowsOK
    <3>2. \A c \in AT \cap Branches : reg'[c] = "add" => Locked(c)'
      BY <1>0, <2>1, <2>4, <2>5 DEF RowsOK
    <3>3. \A c \in AT \cap Branches : Undecided(c)' => Locked(c)'
      BY <1>0, <2>1, <2>4, <2>6 DEF RowsOK
    <3> QED  BY <3>1, <3>2, <3>3 DEF RowsOK
  <2> QED  BY <1>1, <2>3, <2>7, FreesKeep
<1>5. CASE ReportFind(b) \/ ReportWrite(b) \/ RegisterError(b)
  <2>1. UNCHANGED lock /\ \A c \in Branches : bs'[c] \in {bs[c], "PhaseOneFailed"}
                        /\ (bs'[c] # "None" => bs[c] # "None")
    BY <1>0, <1>5 DEF ReportFind, ReportWrite, RegisterError, store
  <2>2. Entered' = Entered
    BY <1>0, <1>5 DEF ReportFind, ReportWrite, RegisterError, InFlight, Failed, Entered
  <2>3. Settled \subseteq Settled'
    BY <2>1, <2>2 DEF Settled, Entered
  <2>4. \A c \in AT \cap Branches : reg'[c] = "add" => reg[c] = "add"
    BY <1>0, <1>5 DEF ReportFind, ReportWrite, RegisterError, InFlight, Failed
  <2>5. Grows /\ Narrows
    BY <1>1, <2>1, <2>2, <2>3, <2>4 DEF Grows, Narrows
  <2> QED  BY <1>1, <2>1, <2>5, LocksKeep, FreesKeep
<1> QED  BY <1>2, <1>3, <1>4, <1>5 DEF BranchStep

\* A new piece of work starts with nothing read of its branches.
LEMMA StartIsolation ==
  ASSUME IsolationInv, UNCHANGED <<bs, lock, reg, tm, acked, refused>>, NEW p \in Procs,
         NEW l, Becomes(p, l), l.pc \in {"pick", "branches"}, l.view = {}, l.failed = {}
  PROVE  RowsOK' /\ FreeingOK'
<1>1. Entered' = Entered /\ Settled' = Settled
  BY DEF Entered, Settled
<1>2. Grows /\ Narrows
  BY <1>1 DEF Grows, Narrows
<1>3. l.pc \in Quiet
  BY DEF Quiet, Labels, Walking
<1> QED  BY <1>2, <1>3, QuietFrees, LocksKeep

\* Steps that change no table and no goroutine.
LEMMA QuietIsolation ==
  ASSUME IsolationInv, [Next]_vars, UNCHANGED <<bs, lock, reg, proc, acked, refused>>
  PROVE  RowsOK' /\ FreeingOK'
<1>1. Entered' = Entered /\ Settled' = Settled
  BY DEF Entered, Settled
<1>2. \A b \in Branches : tm[TxOf[b]] = "commit" => tm'[TxOf[b]] = "commit"
  <2>1. \A b \in Branches : TxOf[b] \in Xids
    BY TopologyAssumption
  <2> QED  BY <2>1, TMSteps DEF IsolationInv, Decisions
<1>3. Grows /\ Narrows
  BY <1>1, <1>2 DEF Grows, Narrows
<1> QED  BY <1>3, FreesKeep, LocksKeep

\* A crash ends all goroutines; a registration that was under way is refused.
LEMMA CrashIsolation ==
  ASSUME IsolationInv, Crash
  PROVE  RowsOK' /\ FreeingOK'
<1>0. reg \in [Branches -> {"none", "lock", "add", "registered", "refused", "reporting", "done"}]
  BY DEF IsolationInv, IInv, TypeOK, ClientType
<1>1. UNCHANGED <<bs, lock, tm, acked, refused>>
  BY DEF Crash, store, history
<1>2. Entered' = Entered /\ Settled' = Settled
  BY <1>0, <1>1 DEF Crash, InFlight, Failed, Entered, Settled
<1>3. \A b \in AT \cap Branches : reg'[b] = "add" => reg[b] = "add"
  BY <1>0 DEF Crash, InFlight, Failed
<1>4. Grows /\ Narrows
  BY <1>1, <1>2, <1>3 DEF Grows, Narrows
<1>5. \A q \in Procs : FreesOK(Idle, Entered', Settled', acked', refused')
  BY DEF FreesOK, Idle, Walking
<1>6. FreeingOK'
  BY <1>5 DEF FreeingOK, Crash
<1> QED  BY <1>1, <1>4, <1>6, LocksKeep

\* Nothing is registered, nothing is locked.
LEMMA InitIsolation ==
  ASSUME Init
  PROVE  IsolationInv
<1>1. RowsOK
  BY DEF Init, RowsOK, Undecided
<1>2. FreeingOK
  BY DEF Init, FreeingOK, FreesOK, Idle, Walking
<1> QED  BY <1>1, <1>2, InitInv DEF IsolationInv

\* The invariant behind WriteIsolation is kept by every step of the program.
LEMMA NextIsolation ==
  ASSUME IsolationInv, OwnRows, NoGiveUp, [Next]_vars
  PROVE  RowsOK' /\ FreeingOK'
<1>1. CASE ClientStep
  <2>1. CASE \E x \in Xids : Begin(x) \/ \E d \in Decisions : Decide(x, d)
    <3>1. UNCHANGED <<bs, lock, reg, proc, acked, refused>>
      BY <2>1 DEF Begin, Decide, store, history
    <3> QED  BY <3>1, QuietIsolation
  <2>2. ASSUME NEW h \in Handlers, NEW x \in Xids, NEW found, FindSession(h, x, found)
        PROVE  RowsOK' /\ FreeingOK'
    <3> DEFINE l == [Idle EXCEPT !.pc = "branches", !.dec = tm[x], !.x = x, !.list = {x},
                                 !.st[x] = status[x], !.open = IF active[x] THEN {x} ELSE {}]
    <3>1. UNCHANGED <<bs, lock, reg, tm, acked, refused>> /\ (UNCHANGED proc \/ Becomes(h, l))
      BY <2>2 DEF FindSession, store
    <3>2. l.pc = "branches" /\ l.view = {} /\ l.failed = {}
      BY DEF Idle
    <3>3. h \in Procs
      BY DEF Procs
    <3> HIDE DEF l
    <3>4. CASE Becomes(h, l)
      BY <3>1, <3>2, <3>3, <3>4, StartIsolation
    <3>5. CASE UNCHANGED proc
      BY <3>1, <3>5, QuietIsolation
    <3> QED  BY <3>1, <3>4, <3>5
  <2>3. CASE \E h \in Handlers, x \in Xids : Request(h, x) \/ RequestError(h, x)
    BY <2>2, <2>3 DEF Request, RequestError
  <2> QED  BY <1>1, <2>1, <2>3 DEF ClientStep
<1>2. CASE EnvStep
  <2>1. CASE Crash
    BY <2>1, CrashIsolation
  <2>2. CASE ~Crash
    <3>1. UNCHANGED <<bs, lock, reg, proc, acked, refused>>
      BY <1>2, <2>2 DEF EnvStep, Elapse, Connect, Disconnect, store, clients, history
    <3> QED  BY <3>1, QuietIsolation
  <2> QED  BY <2>1, <2>2
<1>3. CASE \E b \in Branches : BranchStep(b)
  BY <1>3, BranchStepIsolation
<1>4. ASSUME NEW w \in Workers, Scan(w) PROVE RowsOK' /\ FreeingOK'
  <2> DEFINE l == [Idle EXCEPT
                     !.pc = IF w = "timeoutCheck" THEN "pick" ELSE "branches",
                     !.dec = IF w \in {"timeoutCheck", "retryRollingBack"} THEN "rollback"
                             ELSE "commit",
                     !.list = Listed(w),
                     !.st = [x \in Xids |-> IF x \in Listed(w) THEN status[x] ELSE "None"],
                     !.open = {x \in Listed(w) : active[x]}]
  <2>1. l.pc \in {"pick", "branches"} /\ l.view = {} /\ l.failed = {}
    BY DEF Idle
  <2>2. UNCHANGED <<bs, lock, reg, tm, acked, refused>> /\ Becomes(w, l)
    BY <1>4 DEF Scan, store, clients, history
  <2>3. w \in Procs
    BY DEF Procs
  <2> HIDE DEF l
  <2> QED  BY <2>1, <2>2, <2>3, StartIsolation
<1>5. CASE \E p \in Procs : ProcStep(p)
  BY <1>5, ProcStepIsolation
<1>6. CASE UNCHANGED vars
  <2>1. UNCHANGED <<bs, lock, reg, proc, acked, refused>>
    BY <1>6 DEF vars, store, clients, history
  <2> QED  BY <2>1, QuietIsolation
<1> QED  BY <1>1, <1>2, <1>3, <1>4, <1>5, <1>6 DEF Next

-----------------------------------------------------------------------------

\* Global write isolation for any number of transactions, branches, rows and goroutines,
\* with crashes, timeouts, late registrations and store errors: the rows an AT branch has
\* changed are not given to another transaction before its rollback has been done or the
\* TM commits (BranchRegister, ReleaseLock, ReleaseGlobalSessionLock).  Two branches of one
\* transaction must not lock the same row, since ReleaseLock matches row and xid only, and
\* rollbackRetryTimeoutUnlockEnable must not give the rows of a pending rollback up.
THEOREM IsolationHolds ==
  ASSUME AT \subseteq Branches, OwnRows, NoGiveUp
  PROVE  Spec => []WriteIsolation
<1>1. Init => IsolationInv
  BY InitIsolation
<1>2. IsolationInv /\ IInv' /\ [Next]_vars => IsolationInv'
  BY NextIsolation DEF IsolationInv
<1>3. IsolationInv => WriteIsolation
  BY DEF IsolationInv, RowsOK, WriteIsolation, Locked
<1> QED  BY <1>1, <1>2, <1>3, Invariance, PTL DEF Spec

=============================================================================
