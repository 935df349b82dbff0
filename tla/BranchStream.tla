----------------------------- MODULE BranchStream -----------------------------
(***************************************************************************)
(* The bidirectional streams between the transaction coordinator (TC) and  *)
(* one resource manager (RM): branchCommit, branchRollback and             *)
(* BranchCommunicate of the TC, branchCommunicate of the RM.               *)
(*                                                                         *)
(* A stream has two goroutines at each end, one that sends and one that    *)
(* receives.  The channels between goroutines are unbuffered: a message    *)
(* changes hands only if the receiver is there.  When a stream breaks, the *)
(* RM opens another one; the TC's goroutines of the old stream may live    *)
(* on for a while, or for ever.                                            *)
(*                                                                         *)
(* A message carries its identifier, as in the code, and the call it       *)
(* belongs to, which no goroutine looks at.                                *)
(***************************************************************************)
EXTENDS Integers, Sequences

CONSTANTS
  Calls,       \* calls of branchCommit and branchRollback, by any goroutine
  Streams,     \* streams the RM may open, one after the other
  MaxFaults,   \* bound on broken streams, crashes and panics
  NoStream, NoCall, NoResult

Results == {"done", "retryable", "unavailable", "panicked"}

ASSUME StreamAssumption == NoStream \notin Streams /\ NoCall \notin Calls /\ NoResult \notin Results
ASSUME FaultsAssumption == MaxFaults \in Nat

VARIABLES
  call, mid, got,        \* each call: where it is, its message identifier, what it was answered
  idGenerator, futures,  \* the TC's counter, and the pairs <<identifier, waiting call>>
  handler,               \* the TC's receive loop of each stream
  tcSender, tcOut,       \* the TC's sender goroutine of each stream and what it is sending
  count, raced,          \* activeApplications of the RM's address; an update of it got lost
  conn, down, up,        \* the streams and the messages on their way to the RM and to the TC
  rm,                    \* the RM's receive loop
  rmSender, rmOut,       \* the RM's sender goroutines
  registered, ran,       \* the TCC resource is registered; what the RM has done for each call
  faults

callVars == <<call, mid, got>>
tcVars   == <<idGenerator, futures, handler, tcSender, tcOut, count, raced>>
netVars  == <<conn, down, up>>
rmVars   == <<rm, rmSender, rmOut, registered, ran>>
vars     == <<callVars, tcVars, netVars, rmVars, faults>>

Messages == [id : Nat, call : Calls]
Answers  == [id : Nat, call : Calls, result : Results]
NoAnswer == [id |-> 0, call |-> NoCall, result |-> NoResult]

\* closing: done is closed and the deferred decrement is under way
Closing == {"exitLoad", "exitStore", "ended"}
Looping == {"recv", "deliver", "delete"}

Loop(pc) == [pc |-> pc, seen |-> 0, to |-> NoCall, answer |-> NoAnswer]
RmLoop(pc, s) == [pc |-> pc, stream |-> s, answer |-> NoAnswer]

Init ==
  /\ call = [k \in Calls |-> "idle"] /\ mid = [k \in Calls |-> 0]
  /\ got = [k \in Calls |-> NoAnswer]
  /\ idGenerator = 0 /\ futures = {}
  /\ handler = [s \in Streams |-> Loop("none")]
  /\ tcSender = [s \in Streams |-> "off"] /\ tcOut = [s \in Streams |-> {}]
  /\ count = 0 /\ raced = FALSE
  /\ conn = [s \in Streams |-> "none"]
  /\ down = [s \in Streams |-> <<>>] /\ up = [s \in Streams |-> <<>>]
  /\ rm = RmLoop("connect", NoStream)
  /\ rmSender = [s \in Streams |-> "off"] /\ rmOut = [s \in Streams |-> {}]
  /\ registered = FALSE /\ ran = [k \in Calls |-> NoResult]
  /\ faults = 0

-----------------------------------------------------------------------------
(* branchCommit and branchRollback. *)

\* a sender goroutine that waits in its select can take a message from the queue
Parked(s) == tcSender[s] = "on" /\ tcOut[s] = {}

\* variant: the identifiers are not drawn from the counter
HandOffSameID(k, s) ==
  /\ call[k] = "idle" /\ Parked(s)
  /\ mid' = [mid EXCEPT ![k] = 1]
  /\ tcOut' = [tcOut EXCEPT ![s] = {[id |-> 1, call |-> k]}]
  /\ call' = [call EXCEPT ![k] = "store"]
  /\ UNCHANGED <<got, idGenerator, futures, handler, tcSender, count, raced, netVars, rmVars, faults>>

\* case q <- message: the queue belongs to the address, so any of its streams may take it
HandOff(k, s) ==
  /\ call[k] = "idle" /\ Parked(s)
  /\ idGenerator' = idGenerator + 1 /\ mid' = [mid EXCEPT ![k] = idGenerator + 1]
  /\ tcOut' = [tcOut EXCEPT ![s] = {[id |-> idGenerator + 1, call |-> k]}]
  /\ call' = [call EXCEPT ![k] = "store"]
  /\ UNCHANGED <<got, futures, handler, tcSender, count, raced, netVars, rmVars, faults>>

\* default: the branch's own status is returned
QueueNotReady(k) ==
  /\ call[k] = "idle" /\ \A s \in Streams : ~Parked(s)
  /\ idGenerator' = idGenerator + 1 /\ mid' = [mid EXCEPT ![k] = idGenerator + 1]
  /\ call' = [call EXCEPT ![k] = "refused"]
  /\ UNCHANGED <<got, futures, handler, tcSender, tcOut, count, raced, netVars, rmVars, faults>>

Without(id) == {f \in futures : f[1] # id}

\* futures.Store, after the message has gone
StoreFuture(k) ==
  /\ call[k] = "store"
  /\ futures' = Without(mid[k]) \cup {<<mid[k], k>>}
  /\ call' = [call EXCEPT ![k] = "wait"]
  /\ UNCHANGED <<mid, got, idGenerator, handler, tcSender, tcOut, count, raced, netVars, rmVars, faults>>

\* variant: the future is left behind
TimeoutKeeping(k) ==
  /\ call[k] = "wait"
  /\ call' = [call EXCEPT ![k] = "failed"]
  /\ UNCHANGED <<mid, got, tcVars, netVars, rmVars, faults>>

\* variant: the timer runs only while a stream is up
TimeoutWhileUp(k) ==
  /\ call[k] = "wait" /\ \E s \in Streams : conn[s] = "up"
  /\ futures' = Without(mid[k])
  /\ call' = [call EXCEPT ![k] = "failed"]
  /\ UNCHANGED <<mid, got, idGenerator, handler, tcSender, tcOut, count, raced, netVars, rmVars, faults>>

\* streamMessageTimeout
Timeout(k) ==
  /\ call[k] = "wait"
  /\ futures' = Without(mid[k])
  /\ call' = [call EXCEPT ![k] = "failed"]
  /\ UNCHANGED <<mid, got, idGenerator, handler, tcSender, tcOut, count, raced, netVars, rmVars, faults>>

-----------------------------------------------------------------------------
(* BranchCommunicate: the handler of a stream at the TC. *)

Goto(s, pc) == handler' = [handler EXCEPT ![s].pc = pc]

\* activeApplications.Load
Enter(s) ==
  /\ handler[s].pc = "none" /\ conn[s] # "none"
  /\ handler' = [handler EXCEPT ![s].pc = "enter", ![s].seen = count]
  /\ UNCHANGED <<callVars, idGenerator, futures, tcSender, tcOut, count, raced, netVars, rmVars, faults>>

\* activeApplications.Store, and the sender goroutine is started
Open(s) ==
  /\ handler[s].pc = "enter"
  /\ count' = handler[s].seen + 1 /\ raced' = (raced \/ count # handler[s].seen)
  /\ tcSender' = [tcSender EXCEPT ![s] = "on"]
  /\ handler' = [handler EXCEPT ![s].pc = "recv", ![s].seen = 0]
  /\ UNCHANGED <<callVars, idGenerator, futures, tcOut, netVars, rmVars, faults>>

\* variant: a message may be sent twice
SendTwice(s) ==
  /\ tcOut[s] # {} /\ conn[s] = "up"
  /\ \E m \in tcOut[s] : down' = [down EXCEPT ![s] = @ \o <<m, m>>]
  /\ tcOut' = [tcOut EXCEPT ![s] = {}]
  /\ UNCHANGED <<callVars, idGenerator, futures, handler, tcSender, count, raced, conn, up, rmVars, faults>>

Send(s) ==
  /\ tcOut[s] # {} /\ conn[s] = "up"
  /\ \E m \in tcOut[s] : down' = [down EXCEPT ![s] = Append(@, m)]
  /\ tcOut' = [tcOut EXCEPT ![s] = {}]
  /\ UNCHANGED <<callVars, idGenerator, futures, handler, tcSender, count, raced, conn, up, rmVars, faults>>

\* stream.Send fails: the goroutine ends and the message is lost with it
SendFails(s) ==
  /\ tcOut[s] # {} /\ conn[s] = "broken"
  /\ tcOut' = [tcOut EXCEPT ![s] = {}] /\ tcSender' = [tcSender EXCEPT ![s] = "off"]
  /\ UNCHANGED <<callVars, idGenerator, futures, handler, count, raced, netVars, rmVars, faults>>

\* an answer whose future is not there is dropped
Recv(s) ==
  /\ handler[s].pc = "recv" /\ up[s] # <<>>
  /\ LET a == Head(up[s])
         waiting == {f \in futures : f[1] = a.id}
     IN IF waiting = {} THEN UNCHANGED handler
        ELSE \E f \in waiting :
               handler' = [handler EXCEPT ![s].pc = "deliver", ![s].to = f[2], ![s].answer = a]
  /\ up' = [up EXCEPT ![s] = Tail(@)]
  /\ UNCHANGED <<callVars, idGenerator, futures, tcSender, tcOut, count, raced, conn, down, rmVars, faults>>

\* future.Done <- true meets <-resp.Done; without a waiter the loop stays here
Deliver(s) ==
  LET k == handler[s].to IN
  /\ handler[s].pc = "deliver" /\ call[k] = "wait"
  /\ got' = [got EXCEPT ![k] = handler[s].answer]
  /\ call' = [call EXCEPT ![k] = "answered"]
  /\ Goto(s, "delete")
  /\ UNCHANGED <<mid, idGenerator, futures, tcSender, tcOut, count, raced, netVars, rmVars, faults>>

DeleteFuture(s) ==
  /\ handler[s].pc = "delete"
  /\ futures' = Without(handler[s].answer.id)
  /\ handler' = [handler EXCEPT ![s] = Loop("recv")]
  /\ UNCHANGED <<callVars, idGenerator, tcSender, tcOut, count, raced, netVars, rmVars, faults>>

\* variant: an error of Recv is only logged, like one of Unmarshal
RecvErrorLogged(s) == handler[s].pc = "recv" /\ conn[s] = "broken" /\ UNCHANGED vars

\* ctx.Done or an error of Recv: close(done) ends a sender goroutine that waits in its select
RecvError(s) ==
  /\ handler[s].pc = "recv" /\ conn[s] = "broken"
  /\ Goto(s, "exitLoad")
  /\ tcSender' = [tcSender EXCEPT ![s] = IF tcOut[s] = {} THEN "off" ELSE @]
  /\ UNCHANGED <<callVars, idGenerator, futures, tcOut, count, raced, netVars, rmVars, faults>>

\* the deferred decrement, again a Load and a Store
ExitLoad(s) ==
  /\ handler[s].pc = "exitLoad"
  /\ handler' = [handler EXCEPT ![s].pc = "exitStore", ![s].seen = count]
  /\ UNCHANGED <<callVars, idGenerator, futures, tcSender, tcOut, count, raced, netVars, rmVars, faults>>

\* variant: the decrement is forgotten
ExitUncounted(s) ==
  /\ handler[s].pc = "exitStore"
  /\ handler' = [handler EXCEPT ![s] = Loop("ended")]
  /\ UNCHANGED <<callVars, idGenerator, futures, tcSender, tcOut, count, raced, netVars, rmVars, faults>>

ExitStore(s) ==
  /\ handler[s].pc = "exitStore"
  /\ count' = handler[s].seen - 1 /\ raced' = (raced \/ count # handler[s].seen)
  /\ handler' = [handler EXCEPT ![s] = Loop("ended")]
  /\ UNCHANGED <<callVars, idGenerator, futures, tcSender, tcOut, netVars, rmVars, faults>>

-----------------------------------------------------------------------------
(* branchCommunicate: the resource manager. *)

\* variant: a new stream starts with the answers that were on their way when the old one broke
ConnectResending(s) ==
  /\ rm.pc = "connect" /\ conn[s] = "none"
  /\ conn' = [conn EXCEPT ![s] = "up"]
  /\ rm' = RmLoop("recv", s) /\ rmSender' = [rmSender EXCEPT ![s] = "on"]
  /\ LET sent == {a \in {h.answer : h \in {handler[t] : t \in Streams}} : a # NoAnswer}
     IN \/ sent = {} /\ UNCHANGED up
        \/ \E a \in sent : up' = [up EXCEPT ![s] = <<a>>]
  /\ UNCHANGED <<callVars, tcVars, down, rmOut, registered, ran, faults>>

\* a new stream with a new sender goroutine
Connect(s) ==
  /\ rm.pc = "connect" /\ conn[s] = "none"
  /\ conn' = [conn EXCEPT ![s] = "up"]
  /\ rm' = RmLoop("recv", s) /\ rmSender' = [rmSender EXCEPT ![s] = "on"]
  /\ UNCHANGED <<callVars, tcVars, down, up, rmOut, registered, ran, faults>>

\* ImplementTCC registers the resource, before or after the stream is there
RegisterResource ==
  /\ ~registered /\ registered' = TRUE
  /\ UNCHANGED <<callVars, tcVars, netVars, rm, rmSender, rmOut, ran, faults>>

\* the user's Confirm or Cancel returns true or false; without a resource nothing is done
Outcome == IF registered THEN {"done", "retryable"} ELSE {"unavailable"}

\* the dispatch to the resource manager of the branch type, and its answer
Execute(r) ==
  LET s == rm.stream
      m == Head(down[s])
  IN
  /\ rm.pc = "recv" /\ s # NoStream /\ down[s] # <<>> /\ r \in Outcome
  /\ down' = [down EXCEPT ![s] = Tail(@)]
  /\ ran' = [ran EXCEPT ![m.call] = r]
  /\ rm' = [rm EXCEPT !.pc = "answer", !.answer = [id |-> m.id, call |-> m.call, result |-> r]]
  /\ UNCHANGED <<callVars, tcVars, conn, up, rmSender, rmOut, registered, faults>>

\* a panic of the user's method is recovered by GoWithRecover, but the receive loop is over
Panic ==
  LET s == rm.stream IN
  /\ rm.pc = "recv" /\ s # NoStream /\ down[s] # <<>> /\ registered /\ faults < MaxFaults
  /\ down' = [down EXCEPT ![s] = Tail(@)]
  /\ ran' = [ran EXCEPT ![Head(down[s]).call] = "panicked"]
  /\ rm' = [rm EXCEPT !.pc = "dead"]
  /\ faults' = faults + 1
  /\ UNCHANGED <<callVars, tcVars, conn, up, rmSender, rmOut, registered>>

\* manager.branchMessages <- answer meets the sender goroutine of the stream
HandAnswer ==
  LET s == rm.stream IN
  /\ rm.pc = "answer" /\ rmSender[s] = "on" /\ rmOut[s] = {}
  /\ rmOut' = [rmOut EXCEPT ![s] = {rm.answer}]
  /\ rm' = RmLoop("recv", s)
  /\ UNCHANGED <<callVars, tcVars, netVars, rmSender, registered, ran, faults>>

\* the sender of an earlier stream gets there first: its Send fails and the answer is lost
HandAnswerLate(s) ==
  /\ rm.pc = "answer" /\ rmSender[s] = "late"
  /\ rmSender' = [rmSender EXCEPT ![s] = "off"]
  /\ rm' = RmLoop("recv", rm.stream)
  /\ UNCHANGED <<callVars, tcVars, netVars, rmOut, registered, ran, faults>>

LateExits(s) ==
  /\ rmSender[s] = "late" /\ rmSender' = [rmSender EXCEPT ![s] = "off"]
  /\ UNCHANGED <<callVars, tcVars, netVars, rm, rmOut, registered, ran, faults>>

SendAnswer(s) ==
  /\ rmOut[s] # {} /\ conn[s] = "up"
  /\ \E a \in rmOut[s] : up' = [up EXCEPT ![s] = Append(@, a)]
  /\ rmOut' = [rmOut EXCEPT ![s] = {}]
  /\ UNCHANGED <<callVars, tcVars, conn, down, rm, rmSender, registered, ran, faults>>

\* as at the TC, the goroutine ends with the first failed Send
SendAnswerFails(s) ==
  /\ rmOut[s] # {} /\ conn[s] = "broken"
  /\ rmOut' = [rmOut EXCEPT ![s] = {}] /\ rmSender' = [rmSender EXCEPT ![s] = "off"]
  /\ UNCHANGED <<callVars, tcVars, netVars, rm, registered, ran, faults>>

\* variant: the loop goes on with the stream it has
ReconnectNever ==
  rm.pc = "recv" /\ rm.stream # NoStream /\ conn[rm.stream] = "broken" /\ UNCHANGED vars

\* close(done), CloseSend, next round; a sender between Send and select has not seen it yet
Reconnect ==
  LET s == rm.stream IN
  /\ rm.pc = "recv" /\ s # NoStream /\ conn[s] = "broken"
  /\ rm' = RmLoop("connect", NoStream)
  /\ IF rmOut[s] # {} THEN UNCHANGED rmSender
     ELSE \E late \in {"off", "late"} :
            rmSender' = [rmSender EXCEPT ![s] = IF @ = "on" THEN late ELSE @]
  /\ UNCHANGED <<callVars, tcVars, netVars, rmOut, registered, ran, faults>>

-----------------------------------------------------------------------------
(* Faults. *)

Fault == faults < MaxFaults /\ faults' = faults + 1
AllBroken == conn' = [s \in Streams |-> IF conn[s] = "up" THEN "broken" ELSE conn[s]]

\* what has arrived may still be read, or not (RecvError, Reconnect)
Break(s) ==
  /\ Fault /\ conn[s] = "up" /\ conn' = [conn EXCEPT ![s] = "broken"]
  /\ UNCHANGED <<callVars, tcVars, down, up, rmVars>>

\* the TC restarts: its maps, channels, goroutines and identifiers start anew
TcCrash ==
  /\ Fault /\ AllBroken
  /\ call' = [k \in Calls |-> IF call[k] \in {"store", "wait"} THEN "failed" ELSE call[k]]
  /\ idGenerator' = 0 /\ futures' = {} /\ count' = 0 /\ raced' = FALSE
  /\ handler' = [s \in Streams |-> IF conn[s] = "none" THEN Loop("none") ELSE Loop("ended")]
  /\ tcSender' = [s \in Streams |-> "off"] /\ tcOut' = [s \in Streams |-> {}]
  /\ UNCHANGED <<mid, got, down, up, rmVars>>

RmCrash ==
  /\ Fault /\ AllBroken
  /\ rm' = RmLoop("connect", NoStream)
  /\ rmSender' = [s \in Streams |-> "off"] /\ rmOut' = [s \in Streams |-> {}]
  /\ registered' = FALSE
  /\ UNCHANGED <<callVars, tcVars, down, up, ran>>

-----------------------------------------------------------------------------

CallStep(k) == StoreFuture(k) \/ Timeout(k)

HandlerStep(s) ==
  \/ Enter(s) \/ Open(s) \/ Recv(s) \/ Deliver(s) \/ DeleteFuture(s)
  \/ RecvError(s) \/ ExitLoad(s) \/ ExitStore(s)

SenderStep(s) == Send(s) \/ SendFails(s)

RmStep ==
  \/ \E s \in Streams : Connect(s)
  \/ \E r \in Results : Execute(r)
  \/ HandAnswer \/ Reconnect

RmSenderStep(s) == SendAnswer(s) \/ SendAnswerFails(s) \/ LateExits(s)

Next ==
  \/ \E k \in Calls : CallStep(k) \/ QueueNotReady(k) \/ \E s \in Streams : HandOff(k, s)
  \/ \E s \in Streams : HandlerStep(s) \/ SenderStep(s) \/ RmSenderStep(s) \/ HandAnswerLate(s)
  \/ RmStep \/ RegisterResource \/ Panic
  \/ \E s \in Streams : Break(s)
  \/ TcCrash \/ RmCrash

Spec == Init /\ [][Next]_vars

(***************************************************************************)
(* Fairness: every goroutine that can go on does, and timers fire.  Calls, *)
(* registration and faults may happen or not.                              *)
(***************************************************************************)
Fairness ==
  /\ \A k \in Calls : WF_vars(StoreFuture(k)) /\ WF_vars(Timeout(k))
  /\ \A s \in Streams : /\ WF_vars(HandlerStep(s)) /\ WF_vars(SenderStep(s))
                        /\ WF_vars(RmSenderStep(s))
  /\ WF_vars(RmStep)

FairSpec == Spec /\ Fairness

=============================================================================
