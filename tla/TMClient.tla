------------------------------- MODULE TMClient -------------------------------
(***************************************************************************)
(* The transaction manager at the client: the proxy that Implement puts    *)
(* around the methods of a service (client/tm/proxy.go), the global        *)
(* transaction object it drives (global_transaction.go), the context that  *)
(* carries the XID (root_context.go), and the proxy of a TCC service       *)
(* (client/tcc/proxy.go).                                                  *)
(*                                                                         *)
(* One chain of synchronous calls: a proxied method may call others.       *)
(* Every call has a RootContext of its own, which keeps the XID in a local *)
(* map; the context handed on to the next call is the embedded one, with   *)
(* the XID the caller was given.  A goroutine that a method starts may     *)
(* still use the context of its call when the call has returned.           *)
(***************************************************************************)
EXTENDS Naturals, Sequences

CONSTANTS
  Remote, None,       \* a transaction begun by another service, and no XID
  RetryCount,         \* commitRetryCount and rollbackRetryCount
  MaxCalls            \* bound: proxied calls in a behaviour

\* with a count of 0 nothing is ever sent and no error returned (global_transaction.go:113)
ASSUME RetryAssumption == RetryCount \in Nat \ {0}
ASSUME CallsAssumption == MaxCalls \in Nat

Calls == 1..MaxCalls
Xids == Calls       \* the transaction that a call begins is named by the call
AnyXid == Xids \cup {Remote, None}

ASSUME XidAssumption == Remote # None /\ Remote \notin Nat /\ None \notin Nat

Propagations == {"Required", "RequiresNew", "NotSupported", "Supports", "Never", "Mandatory"}
Hops == {"direct", "carried", "fresh"}

VARIABLES
  stack,      \* the calls under way, innermost last
  made,       \* how many calls have been made
  call,       \* of each call: its context, transaction object and progress
  joined,     \* of each call: the transaction in which its use of a TCC service is a branch
  begun,      \* transactions of this client that exist at the TC
  asked,      \* what the TC was asked for each transaction
  abandoned   \* transactions whose call panicked, or was never told the XID

vars == <<stack, made, call, joined, begun, asked, abandoned>>

\* value: TX_XID of the embedded context; local: of the local map; xid and role: of the global
\* transaction object; held: the SuspendedResourcesHolder; method: what the user's method
\* returned; result: what the proxy returned; acked: the TC has acknowledged the decision
NewCall == [value |-> None, local |-> None, xid |-> None, role |-> "Launcher",
            held |-> None, pc |-> "none", retry |-> 0,
            method |-> "none", result |-> "none", acked |-> FALSE]

Init ==
  /\ stack = <<>> /\ made = 0
  /\ call = [i \in Calls |-> NewCall]
  /\ joined = [i \in Calls |-> None]
  /\ begun = {} /\ asked = [x \in Xids \cup {Remote} |-> {}] /\ abandoned = {}

Top == IF stack = <<>> THEN 0 ELSE stack[Len(stack)]
Running(i) == i = Top /\ call[i].pc \in {"run", "plain"}
InGlobalTransaction(c) == c.local # None

-----------------------------------------------------------------------------
(* A proxied call up to the method. *)

\* GetCurrentOrCreate: an XID in the context makes the call a participant
GetCurrentOrCreate(c) ==
  IF InGlobalTransaction(c) THEN [c EXCEPT !.xid = c.local, !.role = "Participant"] ELSE c

\* NewRootContext: the XID of the given context goes into a new local map
NewRootContext(v) == [NewCall EXCEPT !.value = v, !.local = v]

\* variant: the XID stays in the context
SuspendBound(c) == [c EXCEPT !.held = c.local]

Suspend(c) == [c EXCEPT !.held = c.local, !.local = None]

\* variant: only the launcher's context
UnbindLauncher(c) == IF c.role = "Launcher" THEN [c EXCEPT !.local = None] ELSE c

\* Commit and Rollback unbind the context of their own transaction
Unbind(c) == IF c.local # None /\ c.local = c.xid THEN [c EXCEPT !.local = None] ELSE c

\* deferred by the proxy
Resume(c) == IF c.held # None THEN [c EXCEPT !.local = c.held] ELSE c

Returned(c, result) == [Resume(c) EXCEPT !.pc = "returned", !.result = result]

\* the switch on txInfo.Propagation: where the call goes next
Propagate(prop, c) ==
  CASE prop = "Required"     -> [c EXCEPT !.pc = "begin"]
    [] prop = "RequiresNew"  -> [Suspend(c) EXCEPT !.pc = "begin"]
    [] prop = "NotSupported" -> [Suspend(c) EXCEPT !.pc = "plain"]
    [] prop = "Supports"     -> [c EXCEPT !.pc = IF InGlobalTransaction(c) THEN "begin" ELSE "plain"]
    [] prop = "Never"        -> IF InGlobalTransaction(c) THEN Returned(c, "error")
                                  ELSE [c EXCEPT !.pc = "plain"]
    [] prop = "Mandatory"    -> IF InGlobalTransaction(c) THEN [c EXCEPT !.pc = "begin"]
                                  ELSE Returned(c, "error")

\* the XID a call is given: the caller's context as it is, the XID put into it on the way
\* (as a call to another service does), or an empty context
Given(hop) ==
  IF Top = 0 THEN IF hop = "carried" THEN Remote ELSE None
  ELSE CASE hop = "direct"  -> call[Top].value
         [] hop = "carried" -> call[Top].local
         [] hop = "fresh"   -> None

Call(prop, hop) ==
  LET i == made + 1
      c == Propagate(prop, GetCurrentOrCreate(NewRootContext(Given(hop))))
  IN
  /\ made < MaxCalls /\ (Top # 0 => Running(Top))
  /\ made' = i /\ call' = [call EXCEPT ![i] = c]
  /\ stack' = IF c.pc = "returned" THEN stack ELSE Append(stack, i)
  /\ UNCHANGED <<joined, begun, asked, abandoned>>

Becomes(i, c) == call' = [call EXCEPT ![i] = c]
Leave(c, result) == /\ Becomes(Top, Returned(c, result))
                    /\ stack' = SubSeq(stack, 1, Len(stack) - 1)

\* BeginWithTimeoutAndName of a participant does nothing
BeginIgnored ==
  LET i == Top IN
  /\ i # 0 /\ call[i].pc = "begin" /\ call[i].role = "Participant"
  /\ Becomes(i, [call[i] EXCEPT !.pc = "run"])
  /\ UNCHANGED <<stack, made, joined, begun, asked, abandoned>>

\* the TC begins a transaction; the answer arrives, or is lost and the call ends with the error
Begin(arrives) ==
  LET i == Top IN
  /\ i # 0 /\ call[i].pc = "begin" /\ call[i].role = "Launcher"
  /\ call[i].xid = None /\ ~InGlobalTransaction(call[i])
  /\ begun' = begun \cup {i}
  /\ IF arrives
     THEN /\ Becomes(i, [call[i] EXCEPT !.xid = i, !.local = i, !.pc = "run"])
          /\ UNCHANGED <<stack, abandoned>>
     ELSE Leave(call[i], "error") /\ abandoned' = abandoned \cup {i}
  /\ UNCHANGED <<made, joined, asked>>

BeginFails ==
  LET i == Top IN
  /\ i # 0 /\ call[i].pc = "begin" /\ call[i].role = "Launcher"
  /\ Leave(call[i], "error")
  /\ UNCHANGED <<made, joined, begun, asked, abandoned>>

-----------------------------------------------------------------------------
(* The method, and the decision. *)

\* variant: an error that was returned does not matter
DecisionAlwaysCommit(result) == "commit"

Decision(result) == IF result = "ok" THEN "commit" ELSE "rollback"

\* the method of a call without a transaction returns, and the proxy with it
FinishPlain(result) ==
  LET i == Top IN
  /\ i # 0 /\ call[i].pc = "plain"
  /\ Leave([call[i] EXCEPT !.method = result], result)
  /\ UNCHANGED <<made, joined, begun, asked, abandoned>>

\* variant: Commit and Rollback do not look at the role
FinishParticipantDeciding(result) ==
  LET i == Top IN
  /\ i # 0 /\ call[i].pc = "run" /\ call[i].role = "Participant"
  /\ Becomes(i, [call[i] EXCEPT !.pc = Decision(result), !.method = result, !.retry = RetryCount])
  /\ UNCHANGED <<stack, made, joined, begun, asked, abandoned>>

\* the method returns: a participant ignores Commit and Rollback, but unbinds its context
FinishParticipant(result) ==
  LET i == Top IN
  /\ i # 0 /\ call[i].pc = "run" /\ call[i].role = "Participant"
  /\ Leave(Unbind([call[i] EXCEPT !.method = result]), result)
  /\ UNCHANGED <<made, joined, begun, asked, abandoned>>

\* variant: on an error the proxy only returns it
FinishLauncherForgetting(result) ==
  LET i == Top IN
  /\ i # 0 /\ call[i].pc = "run" /\ call[i].role = "Launcher"
  /\ IF result = "error" THEN Leave([call[i] EXCEPT !.method = result], result)
     ELSE Becomes(i, [call[i] EXCEPT !.pc = "commit", !.method = result, !.retry = RetryCount])
          /\ UNCHANGED stack
  /\ UNCHANGED <<made, joined, begun, asked, abandoned>>

FinishLauncher(result) ==
  LET i == Top IN
  /\ i # 0 /\ call[i].pc = "run" /\ call[i].role = "Launcher"
  /\ Becomes(i, [call[i] EXCEPT !.pc = Decision(result), !.method = result, !.retry = RetryCount])
  /\ UNCHANGED <<stack, made, joined, begun, asked, abandoned>>

\* a panic of the method passes through the proxy, which only resumes; some caller recovers
Panic ==
  LET i == Top IN
  /\ i # 0 /\ call[i].pc \in {"run", "plain"}
  /\ Leave([call[i] EXCEPT !.method = "panic"], "panic")
  /\ abandoned' = IF call[i].role = "Launcher" /\ call[i].xid # None
                  THEN abandoned \cup {call[i].xid} ELSE abandoned
  /\ UNCHANGED <<made, joined, begun, asked>>

Deciding(i) == i # 0 /\ call[i].pc \in {"commit", "rollback"}

\* transactionManager.Commit or Rollback, acknowledged
Acknowledged ==
  LET i == Top
      c == call[i]
  IN
  /\ Deciding(i)
  /\ asked' = [asked EXCEPT ![c.xid] = @ \cup {c.pc}]
  /\ Leave([Unbind(c) EXCEPT !.acked = TRUE], c.method)
  /\ UNCHANGED <<made, joined, begun, abandoned>>

\* variant: the loop ends without an error
UnacknowledgedSilent(reaches) ==
  LET i == Top
      c == call[i]
  IN
  /\ Deciding(i)
  /\ asked' = IF reaches THEN [asked EXCEPT ![c.xid] = @ \cup {c.pc}] ELSE asked
  /\ IF c.retry > 1
     THEN Becomes(i, [c EXCEPT !.retry = @ - 1]) /\ UNCHANGED <<stack, abandoned>>
     ELSE Leave(Unbind(c), c.method) /\ UNCHANGED abandoned
  /\ UNCHANGED <<made, joined, begun>>

\* an error, of the request or only of its answer: again, or give up with an error
Unacknowledged(reaches) ==
  LET i == Top
      c == call[i]
  IN
  /\ Deciding(i)
  /\ asked' = IF reaches THEN [asked EXCEPT ![c.xid] = @ \cup {c.pc}] ELSE asked
  /\ IF c.retry > 1
     THEN Becomes(i, [c EXCEPT !.retry = @ - 1]) /\ UNCHANGED <<stack, abandoned>>
     ELSE Leave(Unbind(c), "error") /\ abandoned' = abandoned \cup {c.xid}
  /\ UNCHANGED <<made, joined, begun>>

-----------------------------------------------------------------------------
(* The proxy of a TCC service: Try, within the context of call i. *)

\* by the method of i itself, or by a goroutine that it has started and that outlives the call
MayTry(i) == call[i].pc \in {"run", "plain"} \/ call[i].method # "none"

\* variant: the XID is taken from the embedded context
TryWithValue(i) ==
  LET x == call[i].value IN
  /\ MayTry(i) /\ joined[i] = None /\ x # None
  /\ asked[x] = {} /\ joined' = [joined EXCEPT ![i] = x]
  /\ UNCHANGED <<stack, made, call, begun, asked, abandoned>>

\* BranchRegister with the XID of the local map; the TC refuses it when the decision is made.
\* Without an XID the method is just invoked, and is part of no transaction.
Try(i) ==
  LET x == call[i].local IN
  /\ MayTry(i) /\ joined[i] = None /\ InGlobalTransaction(call[i])
  /\ asked[x] = {} /\ joined' = [joined EXCEPT ![i] = x]
  /\ UNCHANGED <<stack, made, call, begun, asked, abandoned>>

-----------------------------------------------------------------------------

Next ==
  \/ \E prop \in Propagations, hop \in Hops : Call(prop, hop)
  \/ BeginIgnored \/ BeginFails
  \/ \E arrives \in BOOLEAN : Begin(arrives)
  \/ \E result \in {"ok", "error"} :
       FinishPlain(result) \/ FinishParticipant(result) \/ FinishLauncher(result)
  \/ Panic \/ Acknowledged
  \/ \E reaches \in BOOLEAN : Unacknowledged(reaches)
  \/ \E i \in Calls : Try(i)

Spec == Init /\ [][Next]_vars

-----------------------------------------------------------------------------
(* Properties. *)

Decisions == {"commit", "rollback"}

CallRecords ==
  [value : AnyXid, local : AnyXid, xid : AnyXid, role : {"Launcher", "Participant"}, held : AnyXid,
   pc : {"none", "begin", "run", "plain", "returned"} \cup Decisions,
   retry : 0..RetryCount, method : {"none", "ok", "error", "panic"},
   result : {"none", "ok", "error", "panic"}, acked : BOOLEAN]

\* Every variable has its type.
TypeOK ==
  /\ stack \in Seq(Calls) /\ made \in 0..MaxCalls
  /\ call \in [Calls -> CallRecords] /\ joined \in [Calls -> AnyXid]
  /\ begun \subseteq Xids /\ abandoned \subseteq Xids
  /\ asked \in [Xids \cup {Remote} -> SUBSET Decisions]

Launches(i, x) == call[i].role = "Launcher" /\ call[i].xid = x

\* The TC is asked for a decision only by the call that began the transaction, when its method
\* and all calls made in it are over: a participant, here or in another service, never ends it.
OnlyLauncherDecides ==
  [][\A x \in Xids \cup {Remote} : asked'[x] # asked[x] =>
       Launches(Top, x) /\ \A i \in Calls : call[i].xid = x /\ i # Top => call[i].pc = "returned"]_vars

\* A transaction is asked to commit only if the method that launched it returned no error, to
\* roll back only if it did, and never both, however often the request is repeated.
DecisionFollowsResult ==
  \A x \in Xids : \A d \in asked[x] :
    \E i \in Calls : Launches(i, x) /\ call[i].method = IF d = "commit" THEN "ok" ELSE "error"

\* A caller sees no error of a launched transaction only if the TC has acknowledged Commit.
SuccessIsAcknowledged ==
  \A i \in Calls : call[i].pc = "returned" /\ call[i].result = "ok"
                   /\ call[i].role = "Launcher" /\ call[i].xid # None
    => call[i].acked /\ "commit" \in asked[call[i].xid]

\* When the chain of calls is over, every transaction begun in it has been asked to end, except
\* when a method panicked, the answer to Begin was lost or all requests failed.
NoForgottenTransaction ==
  stack = <<>> => \A x \in begun \ abandoned : asked[x] # {}

\* While a NotSupported or RequiresNew call runs, nothing is registered through its context in
\* the transaction it has suspended; a goroutine may do so once the call has returned.
SuspendedStaysOut ==
  \A i \in Calls : call[i].held # None /\ call[i].pc \in {"begin", "run", "plain"}
    => joined[i] # call[i].held

\* When the call that launched a transaction is over and the TC has been asked to end it, no
\* context in use has its XID: what a goroutine still does is outside of it.  Exceptions are the
\* context that is resumed after a suspension, and the one left behind by a panic.
UnboundAfterDecision ==
  \A x \in Xids : (\E i \in Calls : Launches(i, x) /\ call[i].pc = "returned" /\ asked[x] # {})
    => \A i \in Calls : call[i].local = x /\ call[i].method # "none"
                             => call[i].held = x \/ call[i].method = "panic"

=============================================================================
