------------------------------ MODULE RetryScan ------------------------------
(***************************************************************************)
(* Whom the periodic workers of the TC come round to.  A worker's query    *)
(* returns at most queryLimit sessions, those whose gmt_modified is the    *)
(* oldest, and a failed retry writes nothing, so a session that cannot be  *)
(* finished keeps its place at the front.  timeoutCheck also waits, inside *)
(* its round, until the subscriber of the event bus takes its event.       *)
(*                                                                         *)
(* Of the statuses only what the queries tell apart is left: "Retrying" is *)
(* RollbackRetrying and the two retried timeout statuses.  A slot of Xids  *)
(* is used for one transaction after the other.                            *)
(***************************************************************************)
EXTENDS Naturals, Sequences, SequencesExt

CONSTANTS
  Xids, Homes, HomeOf,   \* sessions, addresses of TMs, xid -> its addressing
  Stuck,                 \* sessions from an earlier run, with an RM that never rolls back
  Droppable,             \* addresses whose streams may all break
  Configs                \* the configurations of the TC that are looked at

ASSUME ScanAssumption ==
  /\ HomeOf \in [Xids -> Homes] /\ Stuck \subseteq Xids
  /\ Configs \subseteq [queryLimit : Nat \ {0}, retryLimit : BOOLEAN]

Workers == {"timeoutCheck", "retryRollingBack"}
Rollbacks == {"RollingBack", "Retrying"}
Copies == [x : Xids, status : {"Begin"} \cup Rollbacks]
Limits == {"timeout", "dead", "retry"}

VARIABLES
  config,      \* the TC's: querylimit, and whether maxRollbackRetryTimeout is set (not negative)
  status,      \* global_table: the status of each session, "None" without a row
  order,       \* its rows by gmt_modified, the oldest first
  past,        \* the time limits each session has outlived
  online,      \* the addresses of activeApplications with a count above 0
  round,       \* of each worker: the sessions of its list that are left, as they were read
  sending,     \* timeoutCheck is blocked on GlobalTransactionEventChannel
  subscriber   \* the loop of ProcessGlobalTransactionEvent runs

vars == <<config, status, order, past, online, round, sending, subscriber>>

TypeOK ==
  /\ config \in Configs
  /\ status \in [Xids -> {"None", "Begin"} \cup Rollbacks]
  /\ IsInjective(order) /\ ToSet(order) = {x \in Xids : status[x] # "None"}
  /\ past \in [Xids -> SUBSET Limits] /\ online \subseteq Homes
  /\ \A w \in Workers : round[w] \in Seq(Copies) /\ Len(round[w]) <= config.queryLimit
  /\ {sending, subscriber} \subseteq BOOLEAN

\* the TC has restarted; the sessions nobody can finish are there from its last run
Init ==
  /\ config \in Configs
  /\ status = [x \in Xids |-> IF x \in Stuck THEN "Retrying" ELSE "None"]
  /\ order = SetToSeq(Stuck) /\ online = Homes
  /\ past = [x \in Xids |-> IF x \in Stuck THEN Limits \ {"retry"} ELSE {}]
  /\ round = [w \in Workers |-> <<>>] /\ sending = FALSE /\ subscriber = TRUE

-----------------------------------------------------------------------------
(* The store.  gmt_modified counts seconds; rows of one second are taken   *)
(* here in the order of their writes.                                      *)

\* UPDATE ... SET status = s, gmt_modified = now() WHERE xid: nothing when the row is gone
Write(x, s) ==
  IF status[x] = "None" THEN UNCHANGED <<status, order>>
  ELSE /\ status' = [status EXCEPT ![x] = s]
       /\ order' = Append(Remove(order, x), x)

\* DELETE ... WHERE xid
Delete(x) ==
  /\ status' = [status EXCEPT ![x] = "None"]
  /\ order' = Remove(order, x)
  /\ past' = [past EXCEPT ![x] = {}]

\* WHERE status IN (...), and for retryRollingBack AND addressing IN getAddressingIdentities()
Selects(w, x) ==
  IF w = "timeoutCheck" THEN status[x] = "Begin"
  ELSE status[x] \in Rollbacks /\ HomeOf[x] \in online

FirstOf(s) == SubSeq(s, 1, IF Len(s) < config.queryLimit THEN Len(s) ELSE config.queryLimit)

\* variant: the limit applies to the sessions of all addresses
ListedOfAll(w) ==
  LET Matches(x) == IF w = "timeoutCheck" THEN status[x] = "Begin" ELSE status[x] \in Rollbacks
      IsOnline(x) == Selects(w, x)
  IN SelectSeq(FirstOf(SelectSeq(order, Matches)), IsOnline)

\* ... ORDER BY gmt_modified LIMIT queryLimit
Listed(w) == LET Matches(x) == Selects(w, x) IN FirstOf(SelectSeq(order, Matches))

-----------------------------------------------------------------------------
(* TMs, handlers and time. *)

Begin(x) ==
  /\ x \notin Stuck /\ status[x] = "None" /\ \A w \in Workers, c \in Copies : c.x = x => c \notin ToSet(round[w])
  /\ status' = [status EXCEPT ![x] = "Begin"] /\ order' = Append(order, x)
  /\ UNCHANGED <<config, past, online, round, sending, subscriber>>

\* Commit as a whole, or Rollback up to the record of its decision
Decide(x) ==
  /\ status[x] = "Begin"
  /\ \/ Delete(x)
     \/ Write(x, "RollingBack") /\ UNCHANGED past
  /\ UNCHANGED <<config, online, round, sending, subscriber>>

\* the handler of Rollback: done, or left to the worker; after a crash it does neither
HandlerEnds(x) ==
  /\ status[x] = "RollingBack"
  /\ \/ Delete(x)
     \/ Write(x, "Retrying") /\ UNCHANGED past
  /\ UNCHANGED <<config, online, round, sending, subscriber>>

Elapse(x, limit) ==
  /\ status[x] # "None" /\ limit \in Limits \ past[x]
  /\ limit = "retry" => config.retryLimit
  /\ past' = [past EXCEPT ![x] = @ \cup {limit}]
  /\ UNCHANGED <<config, status, order, online, round, sending, subscriber>>

\* the first stream of an address opens, or its last one breaks
Connect(a) ==
  /\ a \notin online /\ online' = online \cup {a}
  /\ UNCHANGED <<config, status, order, past, round, sending, subscriber>>

Disconnect(a) ==
  /\ a \in online \cap Droppable /\ online' = online \ {a}
  /\ UNCHANGED <<config, status, order, past, round, sending, subscriber>>

-----------------------------------------------------------------------------
(* The rounds of the workers. *)

Copy(list) == [i \in 1 .. Len(list) |-> [x |-> list[i], status |-> status[list[i]]]]

Scan(w) ==
  /\ round[w] = <<>> /\ ~(w = "timeoutCheck" /\ sending)
  /\ Listed(w) # <<>> /\ round' = [round EXCEPT ![w] = Copy(Listed(w))]
  /\ UNCHANGED <<config, status, order, past, online, sending, subscriber>>

Next1(w) == round' = [round EXCEPT ![w] = Tail(@)]

\* timeoutCheck, its two writes as one: the status is not read again before it is overwritten
Check ==
  /\ round["timeoutCheck"] # <<>> /\ ~sending
  /\ LET x == Head(round["timeoutCheck"]).x IN
       IF "timeout" \in past[x] THEN Write(x, "Retrying") /\ sending' = TRUE
       ELSE UNCHANGED <<status, order, sending>>
  /\ Next1("timeoutCheck") /\ UNCHANGED <<config, past, online, subscriber>>

\* variant: the subscriber returns at a status it does not count
ReceiveOrReturn ==
  /\ subscriber /\ sending /\ sending' = FALSE /\ subscriber' = FALSE
  /\ UNCHANGED <<config, status, order, past, online, round>>

\* the subscriber takes the event of timeoutCheck, whose status it does not count, and loops
Receive ==
  /\ subscriber /\ sending /\ sending' = FALSE
  /\ UNCHANGED <<config, status, order, past, online, round, subscriber>>

\* the session retryRollingBack is at, unless its status is left to the handler for now
Retried == Head(round["retryRollingBack"])
SkipRollingBack(c) == c.status = "RollingBack" /\ "dead" \notin past[c.x]

\* isRetryTimeout
GivesUp(c) == "retry" \in past[c.x]

\* skipped, given up, or driven by doGlobalRollback without success, which writes nothing
Pass ==
  /\ round["retryRollingBack"] # <<>>
  /\ IF ~SkipRollingBack(Retried) /\ GivesUp(Retried) THEN Delete(Retried.x)
     ELSE UNCHANGED <<status, order, past>>
  /\ Next1("retryRollingBack") /\ UNCHANGED <<config, online, sending, subscriber>>

\* doGlobalRollback comes to its end
RollBack ==
  /\ round["retryRollingBack"] # <<>> /\ Retried.x \notin Stuck
  /\ ~SkipRollingBack(Retried) /\ ~GivesUp(Retried)
  /\ Delete(Retried.x)
  /\ Next1("retryRollingBack") /\ UNCHANGED <<config, online, sending, subscriber>>

-----------------------------------------------------------------------------

RollBackOf(x) == RollBack /\ Retried.x = x

Next ==
  \/ \E x \in Xids : Begin(x) \/ Decide(x) \/ HandlerEnds(x) \/ (\E limit \in Limits : Elapse(x, limit))
  \/ \E a \in Homes : Connect(a) \/ Disconnect(a)
  \/ \E w \in Workers : Scan(w)
  \/ Check \/ Receive \/ Pass \/ RollBack

Spec == Init /\ [][Next]_vars

\* time passes, timers and goroutines go on, an RM asked again and again succeeds some time
Fairness ==
  /\ \A x \in Xids, limit \in Limits : WF_vars(Elapse(x, limit))
  /\ \A w \in Workers : WF_vars(Scan(w))
  /\ WF_vars(Check) /\ WF_vars(Receive) /\ WF_vars(Pass \/ RollBack)
  /\ \A x \in Xids \ Stuck : SF_vars(RollBackOf(x))

FairSpec == Spec /\ Fairness

\* However many sessions are begun, timeoutCheck comes round to each one that has outlived its
\* timeout: those before it are decided or time out themselves, and its events are taken.
TimeoutIsNoticed ==
  \A x \in Xids : (status[x] = "Begin" /\ "timeout" \in past[x]) ~> status[x] # "Begin"

\* nothing ends x, neither its RM nor the retry limit
Hopeless(x) == x \in Stuck /\ ~config.retryLimit

\* A rollback is driven to its end although others cannot make progress, with fewer of those
\* than queryLimit or with a retry limit (handleRetryRollingBack). Transactions of a TM without
\* a stream may wait.
RollbackGetsThrough ==
  \A x \in Xids :
    (status[x] \in Rollbacks /\ ~Hopeless(x))
      ~> (status[x] \notin Rollbacks \/ HomeOf[x] \notin online)

=============================================================================
