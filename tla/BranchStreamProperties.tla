------------------------ MODULE BranchStreamProperties ------------------------
(***************************************************************************)
(* What the branch streams guarantee.                                      *)
(***************************************************************************)
EXTENDS BranchStream, FiniteSets

\* the local states of a receive loop of the TC, and of the RM's
TcLoops == [pc : {"none", "enter"} \cup Looping \cup Closing, seen : Int,
            to : Calls \cup {NoCall}, answer : Answers \cup {NoAnswer}]
RmLoops == [pc : {"connect", "recv", "answer", "dead"}, stream : Streams \cup {NoStream},
            answer : Answers \cup {NoAnswer}]

CallTypes ==
  /\ call \in [Calls -> {"idle", "store", "wait", "refused", "answered", "failed"}]
  /\ mid \in [Calls -> Nat] /\ got \in [Calls -> Answers \cup {NoAnswer}]

TcTypes ==
  /\ idGenerator \in Nat /\ futures \subseteq Nat \X Calls
  /\ handler \in [Streams -> TcLoops]
  /\ tcSender \in [Streams -> {"off", "on"}] /\ tcOut \in [Streams -> SUBSET Messages]
  /\ count \in Int /\ raced \in BOOLEAN

NetTypes ==
  /\ conn \in [Streams -> {"none", "up", "broken"}]
  /\ down \in [Streams -> Seq(Messages)] /\ up \in [Streams -> Seq(Answers)]

RmTypes ==
  /\ rm \in RmLoops /\ (rm.pc = "answer" => rm.stream \in Streams /\ rm.answer \in Answers)
  /\ rmSender \in [Streams -> {"off", "on", "late"}] /\ rmOut \in [Streams -> SUBSET Answers]
  /\ registered \in BOOLEAN /\ ran \in [Calls -> Results \cup {NoResult}]

\* Every variable has its type.
TypeOK == CallTypes /\ TcTypes /\ NetTypes /\ RmTypes /\ faults \in Nat

\* A call is answered only with what the RM did for this very call, although identifiers
\* start again at 1 with every restart of the TC and streams come and go
\* (BranchCommunicate finds the future by branchMessage.ID).
AnswerIsOwn == \A k \in Calls : call[k] = "answered" => got[k].call = k /\ got[k].result = ran[k]

\* A future stays in the map only while its call waits, or between Done and Delete of the
\* loop that answers it: a call that timed out leaves nothing an answer could block on.
NoZombieFuture ==
  \A f \in futures : \/ call[f[2]] = "wait"
                     \/ \E s \in Streams : handler[s].pc = "delete" /\ handler[s].to = f[2]

\* At most one receive loop is ever held up by one call: a late answer may block its stream
\* for good (future.Done has no reader), but not a second one.
OneLoopPerCall ==
  \A s, t \in Streams :
    handler[s].pc = "deliver" /\ handler[t].pc = "deliver" /\ handler[s].to = handler[t].to => s = t

\* activeApplications counts the handlers of the RM's streams, unless two of them have
\* updated it at the same time and one update was lost.
CountedHandlers == {s \in Streams : handler[s].pc \in Looping \cup {"exitLoad", "exitStore"}}
CountUnlessRaced == ~raced => count = Cardinality(CountedHandlers)

\* The TC never drops the answer of a call that waits for it: only one that comes before the
\* future is stored, or after the timeout.
WaitingIsHeard ==
  [][\A s \in Streams :
       handler[s].pc = "recv" /\ handler'[s] = handler[s] /\ up[s] # <<>> /\ up'[s] = Tail(up[s])
         => call[Head(up[s]).call] # "wait"]_vars

-----------------------------------------------------------------------------
\* the receive loop of s sends on a channel nobody reads
LoopStuck(s) == handler[s].pc = "deliver" /\ call[handler[s].to] # "wait"

\* the RM's loop is gone, or has an answer and no sender goroutine to take it
RmStuck == \/ rm.pc = "dead"
           \/ rm.pc = "answer" /\ rmSender[rm.stream] = "off"

\* branchCommit and branchRollback always come back, also when the loop of the stream or the
\* RM is stuck: no worker of the TC is lost to a stream.
CallsReturn == []<>(\A k \in Calls : call[k] \notin {"store", "wait"})

\* The handlers of broken streams end and give their counts back, unless they are stuck on
\* Done (BranchCommunicate).
HandlersEnd ==
  []<>(\A s \in Streams : conn[s] = "broken" /\ handler[s].pc # "none"
                            => handler[s].pc = "ended" \/ LoopStuck(s))

\* The RM leaves a broken stream for a new one, unless its receive loop is stuck
\* (branchCommunicate).
StreamIsReplaced == []<>(rm.stream # NoStream /\ conn[rm.stream] = "broken" => RmStuck)

-----------------------------------------------------------------------------
(* The streams implement the call of BranchCall. *)

PhaseOf(k) == IF call[k] \in {"store", "wait"} THEN "pending" ELSE call[k]

Abstract == INSTANCE BranchCall WITH
  phase <- [k \in Calls |-> PhaseOf(k)],
  got <- [k \in Calls |-> got[k].result]

\* A caller of branchCommit or branchRollback sees a call that is refused unsent, answered by
\* what was done for it, or failed, and that is carried out at most once.
ImplementsBranchCall == Abstract!Spec

=============================================================================
