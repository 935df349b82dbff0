------------------------- MODULE BranchStreamProofs -------------------------
(***************************************************************************)
(* What the branch streams guarantee, for any number of calls, streams,    *)
(* faults and restarts of either side, and that they implement BranchCall. *)
(***************************************************************************)
EXTENDS BranchStreamProperties, FiniteSetTheorems, SequenceTheorems, TLAPS

(* The invariant.  A call has at most one packet, a message that becomes an *)
(* answer on its way; wherever it is, what it says is true; and among the   *)
(* calls the TC may still meet since its start, identifiers are unique.     *)

Elements(q) == {q[i] : i \in 1 .. Len(q)}

\* Where a packet may be: with the TC's sender, on the stream to the RM, with the RM's loop,
\* with the RM's sender, on the stream to the TC, with the TC's receive loop.
MessageStages == {"out", "down"}
AnswerStages  == {"rm", "rmOut", "up"}
Stages == MessageStages \cup AnswerStages \cup {"loop"}

PacketsAt(s, a) ==
  CASE a = "out"   -> tcOut[s]
    [] a = "down"  -> Elements(down[s])
    [] a = "rm"    -> IF rm.pc = "answer" /\ rm.stream = s THEN {rm.answer} ELSE {}
    [] a = "rmOut" -> rmOut[s]
    [] a = "up"    -> Elements(up[s])
    [] a = "loop"  -> IF handler[s].pc \in {"deliver", "delete"} THEN {handler[s].answer} ELSE {}

\* No call has two packets, and no packet is on a stream twice.
Distinct(q) == \A i, j \in 1 .. Len(q) : q[i].call = q[j].call => i = j

OnePacket ==
  /\ \A s \in Streams : Distinct(down[s]) /\ Distinct(up[s])
  /\ \A s, t \in Streams, a, b \in Stages :
       \A p \in PacketsAt(s, a), q \in PacketsAt(t, b) :
         p.call = q.call => s = t /\ a = b /\ p = q

\* A packet of call k at stage a, and what holds of them.
PacketOK(p, a) ==
  LET k == p.call IN
  /\ p.id = mid[k]
  /\ a \in MessageStages => /\ p \in Messages /\ call[k] \in {"store", "wait", "failed"}
                            /\ ran[k] = NoResult
  /\ a \in AnswerStages \cup {"loop"} => p \in Answers /\ p.result = ran[k]
  /\ a \in AnswerStages => call[k] \in {"store", "wait", "failed"}

PacketsOK == \A s \in Streams, a \in Stages : \A p \in PacketsAt(s, a) : PacketOK(p, a)

\* The receive loop of a stream hands its answer to the call the answer is for.
LoopOK(h) ==
  /\ h.pc = "deliver" => h.to = h.answer.call /\ call[h.to] \in {"wait", "failed"}
  /\ h.pc = "delete"  => h.to = h.answer.call /\ call[h.to] = "answered"

LoopsOK == \A s \in Streams : LoopOK(handler[s])

\* What was done for a call that has not been sent yet, and what an answered one was told.
CallOK(k) ==
  /\ call[k] \in {"idle", "refused"} => ran[k] = NoResult
  /\ call[k] = "answered" => got[k].call = k /\ got[k].result = ran[k]

CallsOK == \A k \in Calls : CallOK(k)

\* A stream that was never opened carries nothing.
Unused(s) ==
  /\ handler[s] = Loop("none") /\ tcSender[s] = "off" /\ tcOut[s] = {}
  /\ down[s] = <<>> /\ up[s] = <<>> /\ rmOut[s] = {} /\ rmSender[s] = "off" /\ rm.stream # s

UnusedOK == \A s \in Streams : conn[s] = "none" => Unused(s)

\* The calls whose identifier the TC may still meet, as a waiting call or in an answer of a
\* handler that has not ended; identifiers of an earlier run of the TC are not among them.
Current == {k \in Calls : \/ call[k] \in {"store", "wait"}
                          \/ \E s \in Streams, a \in Stages :
                               handler[s].pc # "ended" /\ \E p \in PacketsAt(s, a) : p.call = k}

CurrentOK ==
  /\ \A k \in Current : mid[k] \in 1 .. idGenerator
  /\ \A k, l \in Current : mid[k] = mid[l] => k = l

\* The futures are those of the waiting calls, and of answered ones about to be deleted.
FuturesOK ==
  /\ \A f \in futures : f[1] = mid[f[2]]
  /\ NoZombieFuture
  /\ \A k \in Calls : call[k] = "wait" => <<mid[k], k>> \in futures

CountOK == IsFiniteSet(CountedHandlers) /\ CountUnlessRaced

PacketInv == OnePacket /\ PacketsOK
IInv == /\ TypeOK /\ UnusedOK /\ PacketInv /\ LoopsOK /\ CallsOK
        /\ CurrentOK /\ FuturesOK /\ CountOK

-----------------------------------------------------------------------------
(* Sequences of packets. *)

LEMMA EmptyElements == Elements(<<>>) = {} /\ Distinct(<<>>)
  BY DEF Elements, Distinct

LEMMA ElementsType ==
  ASSUME NEW S, NEW q \in Seq(S)
  PROVE  Elements(q) \subseteq S
  BY DEF Elements

\* Append adds its packet, which must be the only one of its call.
LEMMA AppendElements ==
  ASSUME NEW S, NEW q \in Seq(S), NEW e \in S
  PROVE  /\ Append(q, e) \in Seq(S)
         /\ Elements(Append(q, e)) = Elements(q) \cup {e}
         /\ Distinct(q) /\ (\A d \in Elements(q) : d.call # e.call) => Distinct(Append(q, e))
<1> DEFINE r == Append(q, e)
<1>1. /\ r \in Seq(S) /\ Len(q) \in Nat /\ Len(r) = Len(q) + 1 /\ r[Len(q) + 1] = e
      /\ \A i \in 1 .. Len(q) : r[i] = q[i]
  BY AppendProperties
<1> HIDE DEF r
<1>2. Elements(r) = Elements(q) \cup {e}
  BY <1>1 DEF Elements
<1>3. ASSUME Distinct(q), \A d \in Elements(q) : d.call # e.call,
             NEW i \in 1 .. Len(r), NEW j \in 1 .. Len(r), r[i].call = r[j].call
      PROVE  i = j
  <2>1. \A n \in 1 .. Len(q) : q[n].call # e.call
    BY <1>3 DEF Elements
  <2> QED  BY <1>1, <1>3, <2>1 DEF Distinct
<1> QED  BY <1>1, <1>2, <1>3 DEF Distinct, r

\* Tail takes the first packet away, and with it the only one of its call.
LEMMA TailElements ==
  ASSUME NEW S, NEW q \in Seq(S), q # <<>>, Distinct(q)
  PROVE  /\ Head(q) \in Elements(q) /\ Tail(q) \in Seq(S) /\ Tail(q) # q
         /\ Elements(Tail(q)) = {e \in Elements(q) : e.call # Head(q).call}
         /\ Distinct(Tail(q))
<1> DEFINE r == Tail(q)
<1>1. /\ r \in Seq(S) /\ Len(q) \in Nat \ {0} /\ Len(r) = Len(q) - 1 /\ Head(q) = q[1]
      /\ \A i \in 1 .. Len(r) : r[i] = q[i + 1]
  BY HeadTailProperties, EmptySeq
<1> HIDE DEF r
<1>2. Head(q) \in Elements(q)
  BY <1>1 DEF Elements
<1>3. ASSUME NEW e \in Elements(r) PROVE e \in Elements(q) /\ e.call # Head(q).call
  <2>1. PICK i \in 1 .. Len(r) : e = q[i + 1]
    BY <1>1 DEF Elements
  <2>2. i + 1 \in 1 .. Len(q) /\ 1 \in 1 .. Len(q) /\ i + 1 # 1
    BY <1>1
  <2> QED  BY <1>1, <2>1, <2>2 DEF Elements, Distinct
<1>4. ASSUME NEW e \in Elements(q), e.call # Head(q).call PROVE e \in Elements(r)
  <2>1. PICK i \in 1 .. Len(q) : e = q[i]
    BY DEF Elements
  <2>2. i # 1
    BY <1>1, <1>4, <2>1
  <2>3. i - 1 \in 1 .. Len(r) /\ r[i - 1] = e
    BY <1>1, <2>1, <2>2
  <2> QED  BY <2>3 DEF Elements
<1>5. Distinct(r)
  BY <1>1 DEF Distinct
<1> QED  BY <1>1, <1>2, <1>3, <1>4, <1>5 DEF r

-----------------------------------------------------------------------------
(* TypeOK.  Only the sequences and the packets need more than their         *)
(* definitions.                                                             *)

\* What a step leaves alone keeps its type.
LEMMA KeepTypes ==
  ASSUME TypeOK
  PROVE  /\ UNCHANGED callVars => CallTypes'
         /\ UNCHANGED tcVars => TcTypes'
         /\ UNCHANGED netVars => NetTypes'
         /\ UNCHANGED rmVars => RmTypes'
<1>1. UNCHANGED callVars => CallTypes'
  BY DEF TypeOK, CallTypes, callVars
<1>2. UNCHANGED tcVars => TcTypes'
  BY DEF TypeOK, TcTypes, tcVars
<1>3. UNCHANGED netVars => NetTypes'
  BY DEF TypeOK, NetTypes, netVars
<1>4. UNCHANGED rmVars => RmTypes'
  BY DEF TypeOK, RmTypes, rmVars
<1> QED  BY <1>1, <1>2, <1>3, <1>4

\* The local states of the loops stay in their sets.
LEMMA LoopType ==
  /\ \A pc \in {"none", "recv", "ended"} : Loop(pc) \in TcLoops
  /\ \A pc \in {"connect", "recv"}, s \in Streams \cup {NoStream} : RmLoop(pc, s) \in RmLoops
<1>1. NoAnswer \in Answers \cup {NoAnswer}
  OBVIOUS
<1> QED  BY <1>1 DEF Loop, RmLoop, TcLoops, RmLoops, Looping, Closing

Labels == {"none", "enter"} \cup Looping \cup Closing

LEMMA TcLoopType ==
  ASSUME NEW h \in TcLoops, NEW pc \in Labels
  PROVE  /\ [h EXCEPT !.pc = pc] \in TcLoops
         /\ \A n \in Int : [h EXCEPT !.pc = pc, !.seen = n] \in TcLoops
         /\ \A k \in Calls, a \in Answers : [h EXCEPT !.pc = pc, !.to = k, !.answer = a] \in TcLoops
  BY DEF TcLoops, Labels

LEMMA InitType == Init => TypeOK
<1> SUFFICES ASSUME Init PROVE TypeOK
  OBVIOUS
<1>1. handler \in [Streams -> TcLoops] /\ rm \in RmLoops
  BY LoopType DEF Init
<1>2. down \in [Streams -> Seq(Messages)] /\ up \in [Streams -> Seq(Answers)]
  BY EmptySeq DEF Init
<1>3. CallTypes
  BY DEF Init, CallTypes
<1>4. TcTypes
  <2>1. idGenerator = 0 /\ futures = {} /\ count = 0 /\ raced = FALSE
    BY DEF Init
  <2>2. tcSender \in [Streams -> {"off", "on"}] /\ tcOut \in [Streams -> SUBSET Messages]
    BY DEF Init
  <2>3. idGenerator \in Nat /\ count \in Int /\ futures \subseteq Nat \X Calls
    BY <2>1
  <2>4. raced \in BOOLEAN
    BY <2>1
  <2> QED  BY <1>1, <2>2, <2>3, <2>4 DEF TcTypes
<1>5. NetTypes
  BY <1>2 DEF Init, NetTypes
<1>6. RmTypes /\ faults \in Nat
  BY <1>1 DEF Init, RmTypes, RmLoop
<1> QED  BY <1>3, <1>4, <1>5, <1>6 DEF TypeOK

\* Steps of branchCommit and branchRollback.
LEMMA CallType ==
  ASSUME TypeOK, NEW k \in Calls,
         CallStep(k) \/ QueueNotReady(k) \/ \E s \in Streams : HandOff(k, s)
  PROVE  TypeOK'
<1> USE DEF TypeOK
<1>1. CASE StoreFuture(k) \/ Timeout(k)
  <2>1. CallTypes'
    BY <1>1 DEF StoreFuture, Timeout, CallTypes
  <2>2. futures' \subseteq Nat \X Calls
    BY <1>1 DEF StoreFuture, Timeout, CallTypes, TcTypes, Without
  <2>3. TcTypes'
    BY <1>1, <2>2 DEF StoreFuture, Timeout, TcTypes
  <2> QED  BY <1>1, <2>1, <2>3, KeepTypes DEF StoreFuture, Timeout
<1>2. CASE QueueNotReady(k)
  <2>1. CallTypes' /\ TcTypes'
    BY <1>2 DEF QueueNotReady, CallTypes, TcTypes
  <2> QED  BY <1>2, <2>1, KeepTypes DEF QueueNotReady
<1>3. ASSUME NEW s \in Streams, HandOff(k, s) PROVE TypeOK'
  <2>1. [id |-> idGenerator + 1, call |-> k] \in Messages
    BY DEF TcTypes, Messages
  <2>2. CallTypes' /\ TcTypes'
    BY <1>3, <2>1 DEF HandOff, CallTypes, TcTypes
  <2> QED  BY <1>3, <2>2, KeepTypes DEF HandOff
<1> QED  BY <1>1, <1>2, <1>3 DEF CallStep

\* Steps of the TC's receive loops.
LEMMA HandlerType ==
  ASSUME TypeOK, NEW s \in Streams, HandlerStep(s)
  PROVE  TypeOK'
<1> USE DEF TypeOK
<1>0. /\ handler \in [Streams -> TcLoops] /\ handler[s] \in TcLoops
      /\ Looping \cup Closing \cup {"enter"} \subseteq Labels
      /\ {"recv", "deliver", "delete"} = Looping /\ {"exitLoad", "exitStore", "ended"} = Closing
  BY DEF TcTypes, Labels, Looping, Closing
<1>1. CASE Enter(s)
  <2>1. handler' = [handler EXCEPT ![s] = [handler[s] EXCEPT !.pc = "enter", !.seen = count]]
    BY <1>1 DEF Enter
  <2>2. handler' \in [Streams -> TcLoops]
    BY <1>0, <2>1, TcLoopType DEF TcTypes
  <2>3. TcTypes'
    BY <1>1, <2>2 DEF Enter, TcTypes
  <2> QED  BY <1>1, <2>3, KeepTypes DEF Enter
<1>2. CASE Open(s)
  <2>1. handler' = [handler EXCEPT ![s] = [handler[s] EXCEPT !.pc = "recv", !.seen = 0]]
    BY <1>2 DEF Open
  <2>2. handler' \in [Streams -> TcLoops] /\ handler[s].seen \in Int
    <3>1. handler[s].seen \in Int
      BY <1>0 DEF TcLoops
    <3>2. 0 \in Int /\ "recv" \in Labels
      BY DEF Labels, Looping
    <3>3. [handler[s] EXCEPT !.pc = "recv", !.seen = 0] \in TcLoops
      BY <1>0, <3>2, TcLoopType
    <3> QED  BY <1>0, <2>1, <3>1, <3>3
  <2>3. TcTypes'
    BY <1>2, <2>2 DEF Open, TcTypes
  <2> QED  BY <1>2, <2>3, KeepTypes DEF Open
<1>3. CASE Recv(s)
  <2>1. up[s] \in Seq(Answers) /\ up[s] # <<>>
    BY <1>3 DEF Recv, NetTypes
  <2>2. Head(up[s]) \in Answers /\ Tail(up[s]) \in Seq(Answers)
    BY <2>1, HeadTailProperties
  <2>3. \A f \in futures :
          [handler[s] EXCEPT !.pc = "deliver", !.to = f[2], !.answer = Head(up[s])] \in TcLoops
    <3>1. \A f \in futures : f[2] \in Calls
      BY DEF TcTypes
    <3> QED  BY <1>0, <2>2, <3>1, TcLoopType
  <2>4. handler' = handler
        \/ \E f \in futures :
             handler' = [handler EXCEPT ![s] = [handler[s] EXCEPT !.pc = "deliver", !.to = f[2],
                                                                  !.answer = Head(up[s])]]
    BY <1>3 DEF Recv
  <2>5. handler' \in [Streams -> TcLoops]
    BY <1>0, <2>3, <2>4
  <2>6. TcTypes' /\ NetTypes'
    BY <1>3, <2>2, <2>5 DEF Recv, TcTypes, NetTypes
  <2> QED  BY <1>3, <2>6, KeepTypes DEF Recv
<1>4. CASE Deliver(s)
  <2>1. handler' = [handler EXCEPT ![s] = [handler[s] EXCEPT !.pc = "delete"]]
    BY <1>4 DEF Deliver, Goto
  <2>2. handler' \in [Streams -> TcLoops] /\ handler[s].answer \in Answers \cup {NoAnswer}
    BY <1>0, <2>1, TcLoopType DEF TcLoops
  <2>3. CallTypes' /\ TcTypes'
    BY <1>4, <2>2 DEF Deliver, CallTypes, TcTypes
  <2> QED  BY <1>4, <2>3, KeepTypes DEF Deliver
<1>5. CASE DeleteFuture(s)
  <2>1. handler' \in [Streams -> TcLoops]
    BY <1>0, <1>5, LoopType DEF DeleteFuture
  <2>2. TcTypes'
    BY <1>5, <2>1 DEF DeleteFuture, TcTypes, Without
  <2> QED  BY <1>5, <2>2, KeepTypes DEF DeleteFuture
<1>6. CASE RecvError(s)
  <2>1. handler' = [handler EXCEPT ![s] = [handler[s] EXCEPT !.pc = "exitLoad"]]
    BY <1>6 DEF RecvError, Goto
  <2>2. handler' \in [Streams -> TcLoops]
    BY <1>0, <2>1, TcLoopType
  <2>3. TcTypes'
    BY <1>6, <2>2 DEF RecvError, TcTypes
  <2> QED  BY <1>6, <2>3, KeepTypes DEF RecvError
<1>7. CASE ExitLoad(s)
  <2>1. handler' = [handler EXCEPT ![s] = [handler[s] EXCEPT !.pc = "exitStore", !.seen = count]]
    BY <1>7 DEF ExitLoad
  <2>2. handler' \in [Streams -> TcLoops]
    BY <1>0, <2>1, TcLoopType DEF TcTypes
  <2>3. TcTypes'
    BY <1>7, <2>2 DEF ExitLoad, TcTypes
  <2> QED  BY <1>7, <2>3, KeepTypes DEF ExitLoad
<1>8. CASE ExitStore(s)
  <2>1. handler' \in [Streams -> TcLoops] /\ handler[s].seen \in Int
    BY <1>0, <1>8, LoopType DEF ExitStore, TcLoops
  <2>2. TcTypes'
    BY <1>8, <2>1 DEF ExitStore, TcTypes
  <2> QED  BY <1>8, <2>2, KeepTypes DEF ExitStore
<1> QED  BY <1>1, <1>2, <1>3, <1>4, <1>5, <1>6, <1>7, <1>8 DEF HandlerStep

\* Steps of the senders at both ends.
LEMMA SenderType ==
  ASSUME TypeOK, NEW s \in Streams, SenderStep(s) \/ RmSenderStep(s) \/ HandAnswerLate(s)
  PROVE  TypeOK'
<1> USE DEF TypeOK
<1>1. CASE Send(s)
  <2>1. \A m \in tcOut[s] : Append(down[s], m) \in Seq(Messages)
    BY AppendProperties DEF TcTypes, NetTypes
  <2>2. TcTypes' /\ NetTypes'
    BY <1>1, <2>1 DEF Send, TcTypes, NetTypes
  <2> QED  BY <1>1, <2>2, KeepTypes DEF Send
<1>2. CASE SendFails(s)
  <2>1. TcTypes'
    BY <1>2 DEF SendFails, TcTypes
  <2> QED  BY <1>2, <2>1, KeepTypes DEF SendFails
<1>3. CASE SendAnswer(s)
  <2>1. \A m \in rmOut[s] : Append(up[s], m) \in Seq(Answers)
    BY AppendProperties DEF RmTypes, NetTypes
  <2>2. RmTypes' /\ NetTypes'
    BY <1>3, <2>1 DEF SendAnswer, RmTypes, NetTypes
  <2> QED  BY <1>3, <2>2, KeepTypes DEF SendAnswer
<1>4. CASE SendAnswerFails(s) \/ LateExits(s)
  <2>1. RmTypes'
    BY <1>4 DEF SendAnswerFails, LateExits, RmTypes
  <2> QED  BY <1>4, <2>1, KeepTypes DEF SendAnswerFails, LateExits
<1>5. CASE HandAnswerLate(s)
  <2>1. rm' \in RmLoops /\ rm'.pc = "recv"
    BY <1>5, LoopType DEF HandAnswerLate, RmTypes, RmLoops, RmLoop
  <2>2. RmTypes'
    BY <1>5, <2>1 DEF HandAnswerLate, RmTypes
  <2> QED  BY <1>5, <2>2, KeepTypes DEF HandAnswerLate
<1> QED  BY <1>1, <1>2, <1>3, <1>4, <1>5 DEF SenderStep, RmSenderStep

\* Steps of the RM's loop.
LEMMA RmType ==
  ASSUME TypeOK, RmStep \/ RegisterResource \/ Panic
  PROVE  TypeOK'
<1> USE DEF TypeOK
<1>0. rm.stream \in Streams \cup {NoStream} /\ rm.answer \in Answers \cup {NoAnswer}
  BY DEF RmTypes, RmLoops
<1>1. ASSUME NEW s \in Streams, Connect(s) PROVE TypeOK'
  <2>1. NetTypes' /\ RmTypes'
    BY <1>1, LoopType DEF Connect, NetTypes, RmTypes, RmLoop
  <2> QED  BY <1>1, <2>1, KeepTypes DEF Connect
<1>2. CASE (\E r \in Results : Execute(r)) \/ Panic
  <2> DEFINE s == rm.stream
             m == Head(down[s])
  <2>1. s \in Streams /\ down[s] \in Seq(Messages) /\ down[s] # <<>>
    BY <1>0, <1>2 DEF Execute, Panic, NetTypes
  <2>2. m \in Messages /\ Tail(down[s]) \in Seq(Messages)
    BY <2>1, HeadTailProperties
  <2>3. m.id \in Nat /\ m.call \in Calls /\ "panicked" \in Results
    BY <2>2 DEF Messages, Results
  <2>4. CASE Panic
    <3>1. rm' \in RmLoops /\ rm'.pc = "dead"
      BY <2>4 DEF Panic, RmTypes, RmLoops
    <3>2. NetTypes'
      BY <2>2, <2>4 DEF Panic, NetTypes
    <3>5. faults' \in Nat
      BY <2>4 DEF Panic
    <3>3. ran' \in [Calls -> Results \cup {NoResult}]
      BY <2>3, <2>4 DEF Panic, RmTypes
    <3>4. RmTypes'
      BY <2>4, <3>1, <3>3 DEF Panic, RmTypes
    <3> QED  BY <2>4, <3>2, <3>4, <3>5, KeepTypes DEF Panic
  <2>5. ASSUME NEW r \in Results, Execute(r) PROVE TypeOK'
    <3>1. [id |-> m.id, call |-> m.call, result |-> r] \in Answers
      BY <2>3 DEF Answers
    <3>2. rm' \in RmLoops /\ rm'.stream = s /\ rm'.answer \in Answers
      BY <2>5, <3>1 DEF Execute, RmTypes, RmLoops
    <3>3. NetTypes' /\ RmTypes'
      BY <2>1, <2>2, <2>3, <2>5, <3>2 DEF Execute, NetTypes, RmTypes
    <3> QED  BY <2>5, <3>3, KeepTypes DEF Execute
  <2> QED  BY <1>2, <2>4, <2>5
<1>3. CASE HandAnswer
  <2>1. rm.stream \in Streams /\ rm.answer \in Answers
    BY <1>3 DEF HandAnswer, RmTypes
  <2>2. rm' \in RmLoops /\ rm'.pc = "recv"
    BY <1>3, <2>1, LoopType DEF HandAnswer, RmLoop
  <2>3. RmTypes'
    BY <1>3, <2>1, <2>2 DEF HandAnswer, RmTypes
  <2> QED  BY <1>3, <2>3, KeepTypes DEF HandAnswer
<1>4. CASE Reconnect
  <2>1. rm' \in RmLoops /\ rm'.pc = "connect"
    BY <1>4, LoopType DEF Reconnect, RmLoop
  <2>2. RmTypes'
    BY <1>4, <2>1 DEF Reconnect, RmTypes
  <2> QED  BY <1>4, <2>2, KeepTypes DEF Reconnect
<1>5. CASE RegisterResource
  <2>1. RmTypes'
    BY <1>5 DEF RegisterResource, RmTypes
  <2> QED  BY <1>5, <2>1, KeepTypes DEF RegisterResource
<1> QED  BY <1>1, <1>2, <1>3, <1>4, <1>5 DEF RmStep

\* Faults.
LEMMA FaultType ==
  ASSUME TypeOK, (\E s \in Streams : Break(s)) \/ TcCrash \/ RmCrash
  PROVE  TypeOK'
<1> USE DEF TypeOK
<1>0. faults' \in Nat
  BY DEF Break, TcCrash, RmCrash, Fault
<1>1. NetTypes'
  <2>1. conn' \in [Streams -> {"none", "up", "broken"}]
    BY DEF Break, TcCrash, RmCrash, AllBroken, NetTypes
  <2>2. UNCHANGED <<down, up>>
    BY DEF Break, TcCrash, RmCrash
  <2> QED  BY <2>1, <2>2 DEF NetTypes
<1>2. CASE \E s \in Streams : Break(s)
  BY <1>0, <1>1, <1>2, KeepTypes DEF Break
<1>3. CASE TcCrash
  <2>1. CallTypes' /\ RmTypes'
    BY <1>3 DEF TcCrash, CallTypes, RmTypes, rmVars
  <2>2. handler' \in [Streams -> TcLoops]
    BY <1>3, LoopType DEF TcCrash
  <2>3. /\ idGenerator' = 0 /\ futures' = {} /\ count' = 0 /\ raced' = FALSE
        /\ tcSender' \in [Streams -> {"off", "on"}] /\ tcOut' \in [Streams -> SUBSET Messages]
    BY <1>3 DEF TcCrash
  <2>4. idGenerator' \in Nat /\ count' \in Int /\ futures' \subseteq Nat \X Calls
    BY <2>3
  <2>5. raced' \in BOOLEAN
    BY <2>3
  <2>6. TcTypes'
    BY <2>2, <2>3, <2>4, <2>5 DEF TcTypes
  <2> QED  BY <1>0, <1>1, <2>1, <2>6
<1>4. CASE RmCrash
  <2>1. rm' \in RmLoops /\ rm'.pc = "connect"
    BY <1>4, LoopType DEF RmCrash, RmLoop
  <2>2. RmTypes'
    BY <1>4, <2>1 DEF RmCrash, RmTypes
  <2> QED  BY <1>0, <1>1, <1>4, <2>2, KeepTypes DEF RmCrash
<1> QED  BY <1>2, <1>3, <1>4

LEMMA NextType == TypeOK /\ [Next]_vars => TypeOK'
<1> SUFFICES ASSUME TypeOK, [Next]_vars PROVE TypeOK'
  OBVIOUS
<1>1. CASE UNCHANGED vars
  BY <1>1, KeepTypes DEF TypeOK, vars
<1> QED  BY <1>1, CallType, HandlerType, SenderType, RmType, FaultType DEF Next

-----------------------------------------------------------------------------
(* What a step may do to the packets: take some away, or put one down while *)
(* its call has no other.                                                   *)

LEMMA PacketsDef ==
  ASSUME NEW s
  PROVE  /\ PacketsAt(s, "out") = tcOut[s]
         /\ PacketsAt(s, "down") = Elements(down[s])
         /\ PacketsAt(s, "rm") = IF rm.pc = "answer" /\ rm.stream = s THEN {rm.answer} ELSE {}
         /\ PacketsAt(s, "rmOut") = rmOut[s]
         /\ PacketsAt(s, "up") = Elements(up[s])
         /\ PacketsAt(s, "loop") = IF handler[s].pc \in {"deliver", "delete"}
                                   THEN {handler[s].answer} ELSE {}
         /\ PacketsAt(s, "out")' = tcOut'[s]
         /\ PacketsAt(s, "down")' = Elements(down'[s])
         /\ PacketsAt(s, "rm")' = IF rm'.pc = "answer" /\ rm'.stream = s THEN {rm'.answer} ELSE {}
         /\ PacketsAt(s, "rmOut")' = rmOut'[s]
         /\ PacketsAt(s, "up")' = Elements(up'[s])
         /\ PacketsAt(s, "loop")' = IF handler'[s].pc \in {"deliver", "delete"}
                                    THEN {handler'[s].answer} ELSE {}
  BY DEF PacketsAt

LEMMA StagesDef == Stages = {"out", "down", "rm", "rmOut", "up", "loop"}
  BY DEF Stages, MessageStages, AnswerStages

Streamwise == \A t \in Streams : Distinct(down[t]) /\ Distinct(up[t])

Sent == {"store", "wait", "failed"}

\* Nothing that PacketOK says of p changes in this step.
Kept(p, c) ==
  /\ mid'[p.call] = mid[p.call] /\ ran'[p.call] = ran[p.call]
  /\ c # "loop" => call'[p.call] = call[p.call] \/ call'[p.call] \in Sent

LEMMA KeptOK ==
  ASSUME NEW p, NEW c \in Stages, PacketOK(p, c), Kept(p, c)
  PROVE  PacketOK(p, c)'
<1>1. c \in MessageStages \cup AnswerStages => c # "loop"
  BY DEF MessageStages, AnswerStages
<1> QED  BY <1>1 DEF PacketOK, Kept, Sent

LEMMA DropPackets ==
  ASSUME PacketInv, Streamwise',
         \A t \in Streams, c \in Stages :
           \A p \in PacketsAt(t, c)' : p \in PacketsAt(t, c) /\ Kept(p, c)
  PROVE  PacketInv'
<1>1. PacketsOK'
  BY KeptOK DEF PacketInv, PacketsOK
<1>2. OnePacket'
  BY DEF PacketInv, OnePacket, Streamwise
<1> QED  BY <1>1, <1>2 DEF PacketInv

LEMMA PlacePacket ==
  ASSUME PacketInv, Streamwise', NEW s \in Streams, NEW b \in Stages, NEW q, PacketOK(q, b)',
         \A t \in Streams, c \in Stages : \A p \in PacketsAt(t, c)' :
           \/ t = s /\ c = b /\ p = q
           \/ p \in PacketsAt(t, c) /\ p.call # q.call /\ Kept(p, c)
  PROVE  PacketInv'
<1>1. PacketsOK'
  BY KeptOK DEF PacketInv, PacketsOK
<1>2. OnePacket'
  BY DEF PacketInv, OnePacket, Streamwise
<1> QED  BY <1>1, <1>2 DEF PacketInv

\* Taking packets away, in terms of the variables.
Dropping ==
  \A t \in Streams :
    /\ tcOut'[t] \subseteq tcOut[t] /\ rmOut'[t] \subseteq rmOut[t]
    /\ Elements(down'[t]) \subseteq Elements(down[t]) /\ Elements(up'[t]) \subseteq Elements(up[t])
    /\ handler'[t].pc \in {"deliver", "delete"} =>
         handler[t].pc \in {"deliver", "delete"} /\ handler'[t].answer = handler[t].answer
    /\ rm'.pc = "answer" => rm' = rm

LEMMA DropDef ==
  ASSUME Dropping, NEW t \in Streams, NEW c \in Stages
  PROVE  PacketsAt(t, c)' \subseteq PacketsAt(t, c)
<1>1. CASE c \in {"out", "rmOut"}
  BY <1>1, PacketsDef DEF Dropping
<1>2. CASE c = "down"
  <2>1. PacketsAt(t, "down") = Elements(down[t]) /\ PacketsAt(t, "down")' = Elements(down'[t])
    BY PacketsDef
  <2> QED  BY <1>2, <2>1 DEF Dropping
<1>4. CASE c = "up"
  <2>1. PacketsAt(t, "up") = Elements(up[t]) /\ PacketsAt(t, "up")' = Elements(up'[t])
    BY PacketsDef
  <2> QED  BY <1>4, <2>1 DEF Dropping
<1>3. CASE c \in {"rm", "loop"}
  BY <1>3, PacketsDef DEF Dropping
<1> QED  BY <1>1, <1>2, <1>3, <1>4, StagesDef

\* Current loses calls only: the packets of a stream stay on it, and a handler that has
\* ended does not come back.
LEMMA CurrentSub ==
  ASSUME \A k \in Calls : call'[k] \in {"store", "wait"} => call[k] \in {"store", "wait"},
         \A t \in Streams, c \in Stages : \A p \in PacketsAt(t, c)' :
           handler'[t].pc # "ended" =>
             /\ handler[t].pc # "ended"
             /\ \E a \in Stages : \E o \in PacketsAt(t, a) : o.call = p.call
  PROVE  Current' \subseteq Current
<1> SUFFICES ASSUME NEW k \in Current' PROVE k \in Current
  OBVIOUS
<1>1. k \in Calls
  BY DEF Current
<1>2. CASE call'[k] \in {"store", "wait"}
  BY <1>1, <1>2 DEF Current
<1>3. CASE \E s \in Streams, a \in Stages :
             handler'[s].pc # "ended" /\ \E p \in PacketsAt(s, a)' : p.call = k
  BY <1>1, <1>3 DEF Current
<1> QED  BY <1>2, <1>3 DEF Current

LEMMA CurrentKept ==
  ASSUME TypeOK, TypeOK', CurrentOK, Current' \subseteq Current, idGenerator' >= idGenerator,
         \A k \in Current' : mid'[k] = mid[k]
  PROVE  CurrentOK'
<1>1. idGenerator \in Nat /\ idGenerator' \in Nat
  BY DEF TypeOK, TcTypes
<1> QED  BY <1>1 DEF CurrentOK

LEMMA FuturesKept ==
  ASSUME FuturesOK, UNCHANGED <<call, mid, futures>>,
         \A t \in Streams : handler[t].pc = "delete" => handler'[t] = handler[t]
  PROVE  FuturesOK'
<1>1. NoZombieFuture'
  BY DEF FuturesOK, NoZombieFuture
<1> QED  BY <1>1 DEF FuturesOK

-----------------------------------------------------------------------------
(* The steps that move no packet on.                                        *)

\* A handler stays where it is, or moves between places without an answer.
LoopsKept ==
  \A t \in Streams :
    \/ handler'[t] = handler[t]
    \/ /\ {handler[t].pc, handler'[t].pc} \cap {"deliver", "delete"} = {}
       /\ handler[t].pc # "ended"

LEMMA QuietKeeps ==
  ASSUME IInv, TypeOK', UNCHANGED <<callVars, idGenerator, futures, ran>>,
         Dropping, Streamwise', LoopsKept
  PROVE  (PacketInv /\ LoopsOK /\ CallsOK /\ CurrentOK /\ FuturesOK)'
<1>0. UNCHANGED <<call, mid, got, ran, idGenerator, futures>>
  BY DEF callVars
<1>1. PacketInv'
  BY <1>0, DropDef, DropPackets DEF IInv, Kept
<1>2. LoopsOK'
  <2> SUFFICES ASSUME NEW t \in Streams PROVE LoopOK(handler[t])'
    BY DEF LoopsOK
  <2>1. LoopOK(handler[t])
    BY DEF IInv, LoopsOK
  <2>2. handler'[t] = handler[t] \/ handler'[t].pc \notin {"deliver", "delete"}
    BY DEF LoopsKept
  <2> QED  BY <1>0, <2>1, <2>2 DEF LoopOK
<1>3. CallsOK'
  BY <1>0 DEF IInv, CallsOK, CallOK
<1>4. Current' \subseteq Current
  <2>1. \A t \in Streams : handler'[t].pc # "ended" => handler[t].pc # "ended"
    BY DEF LoopsKept
  <2> QED  BY <1>0, <2>1, DropDef, CurrentSub
<1>5. CurrentOK'
  <2>1. idGenerator \in Nat
    BY DEF IInv, TypeOK, TcTypes
  <2> QED  BY <1>0, <1>4, <2>1, CurrentKept DEF IInv
<1>6. FuturesOK'
  <2>1. \A t \in Streams : handler[t].pc = "delete" => handler'[t] = handler[t]
    BY DEF LoopsKept
  <2> QED  BY <1>0, <2>1, FuturesKept DEF IInv
<1> QED  BY <1>1, <1>2, <1>3, <1>5, <1>6

\* What most of them leave alone.
LEMMA Untouched ==
  ASSUME IInv
  PROVE  /\ Streamwise
         /\ UNCHANGED handler => LoopsKept
         /\ UNCHANGED <<down, up>> => Streamwise'
         /\ UNCHANGED <<down, up, handler>> /\ (rm'.pc = "answer" => rm' = rm)
              /\ (\A t \in Streams : tcOut'[t] \subseteq tcOut[t] /\ rmOut'[t] \subseteq rmOut[t])
            => Dropping
  BY DEF IInv, PacketInv, OnePacket, Streamwise, LoopsKept, Dropping

LEMMA QuietStep ==
  ASSUME IInv, TypeOK', NEW s \in Streams,
         \/ SendFails(s) \/ SendAnswerFails(s) \/ LateExits(s) \/ HandAnswerLate(s)
         \/ Connect(s) \/ RegisterResource \/ Reconnect \/ Break(s) \/ RmCrash
  PROVE  (PacketInv /\ LoopsOK /\ CallsOK /\ CurrentOK /\ FuturesOK)'
<1>1. UNCHANGED <<callVars, idGenerator, futures, ran, handler, down, up>>
  BY DEF SendFails, SendAnswerFails, LateExits, HandAnswerLate, Connect, RegisterResource,
         Reconnect, Break, RmCrash, callVars, tcVars, netVars, rmVars
<1>2. rm'.pc = "answer" => rm' = rm
  BY DEF SendFails, SendAnswerFails, LateExits, HandAnswerLate, Connect, RegisterResource,
         Reconnect, Break, RmCrash, tcVars, netVars, rmVars, RmLoop
<1>3. \A t \in Streams : tcOut'[t] \subseteq tcOut[t] /\ rmOut'[t] \subseteq rmOut[t]
  <2>1. tcOut \in [Streams -> SUBSET Messages] /\ rmOut \in [Streams -> SUBSET Answers]
    BY DEF IInv, TypeOK, TcTypes, RmTypes
  <2> QED  BY <2>1 DEF SendFails, SendAnswerFails, LateExits, HandAnswerLate, Connect,
             RegisterResource, Reconnect, Break, RmCrash, tcVars, netVars, rmVars
<1> QED  BY <1>1, <1>2, <1>3, Untouched, QuietKeeps

Between == {"none", "enter", "recv", "exitLoad", "exitStore"}

\* A handler moves from one place without an answer to another.
LEMMA HandlerMoves ==
  ASSUME IInv, NEW s \in Streams, NEW h, handler' = [handler EXCEPT ![s] = h],
         handler[s].pc \in Between, h.pc \in Between \cup {"ended"},
         UNCHANGED <<rm, rmOut, tcOut, down, up>>
  PROVE  Dropping /\ LoopsKept
<1>1. handler \in [Streams -> TcLoops]
  BY DEF IInv, TypeOK, TcTypes
<1>2. \A t \in Streams : handler'[t] = IF t = s THEN h ELSE handler[t]
  BY <1>1
<1> QED  BY <1>2 DEF Dropping, LoopsKept, Between

LEMMA HandlerQuietStep ==
  ASSUME IInv, TypeOK', NEW s \in Streams,
         Enter(s) \/ Open(s) \/ RecvError(s) \/ ExitLoad(s) \/ ExitStore(s)
  PROVE  (PacketInv /\ LoopsOK /\ CallsOK /\ CurrentOK /\ FuturesOK)'
<1>1. UNCHANGED <<callVars, idGenerator, futures, ran, rm, rmOut, tcOut, down, up>>
  BY DEF Enter, Open, RecvError, ExitLoad, ExitStore, netVars, rmVars
<1>2. Dropping /\ LoopsKept
  <2>1. \A pc, n : /\ [handler[s] EXCEPT !.pc = pc, !.seen = n].pc = pc
                   /\ [handler[s] EXCEPT !.pc = pc].pc = pc
    BY DEF IInv, TypeOK, TcTypes, TcLoops
  <2>2. CASE Enter(s)
    <3> DEFINE h == [handler[s] EXCEPT !.pc = "enter", !.seen = count]
    <3>1. handler' = [handler EXCEPT ![s] = h] /\ handler[s].pc = "none" /\ h.pc = "enter"
      BY <2>1, <2>2 DEF Enter
    <3> QED  BY <1>1, <3>1, HandlerMoves DEF Between
  <2>3. CASE Open(s)
    <3> DEFINE h == [handler[s] EXCEPT !.pc = "recv", !.seen = 0]
    <3>1. handler' = [handler EXCEPT ![s] = h] /\ handler[s].pc = "enter" /\ h.pc = "recv"
      BY <2>1, <2>3 DEF Open
    <3> QED  BY <1>1, <3>1, HandlerMoves DEF Between
  <2>4. CASE RecvError(s)
    <3> DEFINE h == [handler[s] EXCEPT !.pc = "exitLoad"]
    <3>1. handler' = [handler EXCEPT ![s] = h] /\ handler[s].pc = "recv" /\ h.pc = "exitLoad"
      BY <2>1, <2>4 DEF RecvError, Goto
    <3> QED  BY <1>1, <3>1, HandlerMoves DEF Between
  <2>5. CASE ExitLoad(s)
    <3> DEFINE h == [handler[s] EXCEPT !.pc = "exitStore", !.seen = count]
    <3>1. handler' = [handler EXCEPT ![s] = h] /\ handler[s].pc = "exitLoad" /\ h.pc = "exitStore"
      BY <2>1, <2>5 DEF ExitLoad
    <3> QED  BY <1>1, <3>1, HandlerMoves DEF Between
  <2>6. CASE ExitStore(s)
    <3> DEFINE h == Loop("ended")
    <3>1. handler' = [handler EXCEPT ![s] = h] /\ handler[s].pc = "exitStore" /\ h.pc = "ended"
      BY <2>6 DEF ExitStore, Loop
    <3> QED  BY <1>1, <3>1, HandlerMoves DEF Between
  <2> QED  BY <2>2, <2>3, <2>4, <2>5, <2>6
<1> QED  BY <1>1, <1>2, Untouched, QuietKeeps

-----------------------------------------------------------------------------
(* The steps that move a packet on: packet p of stream s, at stage a, is q  *)
(* at stage b afterwards.                                                   *)

Moving(s, a, p, b, q) ==
  \A t \in Streams, c \in Stages : \A e \in PacketsAt(t, c)' :
    \/ t = s /\ c = b /\ e = q
    \/ e \in PacketsAt(t, c) /\ ~(t = s /\ c = a /\ e = p)

Landing(q, b) == PacketOK(q, b)'
Delivers(t) == handler[t].pc = "recv" /\ handler'[t].pc = "deliver" /\ LoopOK(handler[t])'

LEMMA MoveKeeps ==
  ASSUME IInv, TypeOK', UNCHANGED <<callVars, idGenerator, futures>>, Streamwise',
         NEW s \in Streams, NEW a \in Stages, NEW b \in Stages, NEW p \in PacketsAt(s, a), NEW q,
         Moving(s, a, p, b, q), q.call = p.call, Landing(q, b),
         \A k \in Calls : ran'[k] = ran[k] \/ (k = p.call /\ call[k] \in Sent),
         \A t \in Streams : \/ handler'[t] = handler[t]
                            \/ Delivers(t)
  PROVE  (PacketInv /\ LoopsOK /\ CallsOK /\ CurrentOK /\ FuturesOK)'
<1>0. UNCHANGED <<call, mid, got, idGenerator, futures>> /\ OnePacket /\ PacketsOK
  BY DEF callVars, IInv, PacketInv
<1>1. \A t \in Streams, c \in Stages : \A e \in PacketsAt(t, c)' :
        \/ t = s /\ c = b /\ e = q
        \/ e \in PacketsAt(t, c) /\ e.call # q.call
  BY <1>0 DEF OnePacket, Moving
<1>2. \A t \in Streams, c \in Stages : \A e \in PacketsAt(t, c) : e.call \in Calls
  <2>1. \A e \in Messages \cup Answers : e.call \in Calls
    BY DEF Messages, Answers
  <2>2. \A c \in Stages : c \in MessageStages \/ c \in AnswerStages \cup {"loop"}
    BY DEF Stages
  <2> QED  BY <1>0, <2>1, <2>2 DEF PacketsOK, PacketOK
<1>3. PacketInv'
  <2>1. \A t \in Streams, c \in Stages : \A e \in PacketsAt(t, c) : e.call # q.call => Kept(e, c)
    BY <1>0, <1>2 DEF Kept
  <2>2. PacketOK(q, b)'
    BY DEF Landing
  <2> QED  BY <1>1, <2>1, <2>2, PlacePacket DEF IInv
<1>4. LoopsOK'
  <2> SUFFICES ASSUME NEW t \in Streams PROVE LoopOK(handler[t])'
    BY DEF LoopsOK
  <2>1. LoopOK(handler[t])
    BY DEF IInv, LoopsOK
  <2> QED  BY <1>0, <2>1 DEF LoopOK, Delivers
<1>5. CallsOK'
  <2> SUFFICES ASSUME NEW k \in Calls PROVE CallOK(k)'
    BY DEF CallsOK
  <2>1. CallOK(k)
    BY DEF IInv, CallsOK
  <2> QED  BY <1>0, <2>1 DEF CallOK, Sent
<1>6. Current' \subseteq Current
  <2>1. \A t \in Streams : handler'[t].pc # "ended" => handler[t].pc # "ended"
    BY DEF Delivers
  <2>2. \A t \in Streams, c \in Stages : \A e \in PacketsAt(t, c)' :
          \E d \in Stages : \E o \in PacketsAt(t, d) : o.call = e.call
    BY <1>1
  <2> QED  BY <1>0, <2>1, <2>2, CurrentSub
<1>7. CurrentOK'
  <2>1. idGenerator \in Nat
    BY DEF IInv, TypeOK, TcTypes
  <2> QED  BY <1>0, <1>6, <2>1, CurrentKept DEF IInv
<1>8. FuturesOK'
  <2>1. \A t \in Streams : handler[t].pc = "delete" => handler'[t] = handler[t]
    BY DEF Delivers
  <2> QED  BY <1>0, <2>1, FuturesKept DEF IInv
<1> QED  BY <1>3, <1>4, <1>5, <1>7, <1>8

LEMMA SendKeeps ==
  ASSUME IInv, TypeOK', NEW s \in Streams, Send(s)
  PROVE  (PacketInv /\ LoopsOK /\ CallsOK /\ CurrentOK /\ FuturesOK)'
<1>0. /\ tcOut \in [Streams -> SUBSET Messages]
      /\ down \in [Streams -> Seq(Messages)] /\ OnePacket /\ PacketsOK
  BY DEF IInv, TypeOK, TcTypes, NetTypes, PacketInv
<1>1. PICK m \in tcOut[s] : down' = [down EXCEPT ![s] = Append(down[s], m)]
  BY DEF Send
<1>2. /\ tcOut' = [tcOut EXCEPT ![s] = {}]
      /\ UNCHANGED <<callVars, idGenerator, futures, handler, up, rm, rmOut, ran>>
  BY DEF Send, rmVars
<1>3. m \in PacketsAt(s, "out") /\ {"out", "down"} \subseteq Stages
  BY PacketsDef, StagesDef
<1>4. \A d \in Elements(down[s]) : d.call # m.call
  <2>1. PacketsAt(s, "down") = Elements(down[s]) /\ "out" # "down"
    BY PacketsDef
  <2> QED  BY <1>0, <1>3, <2>1 DEF OnePacket
<1>5. /\ Elements(down'[s]) = Elements(down[s]) \cup {m}
      /\ Distinct(down[s]) => Distinct(down'[s])
  BY <1>0, <1>1, <1>4, AppendElements
<1>6. Streamwise'
  BY <1>0, <1>1, <1>2, <1>5 DEF OnePacket, Streamwise
<1>7. Moving(s, "out", m, "down", m)
  <2> SUFFICES ASSUME NEW t \in Streams, NEW c \in Stages, NEW e \in PacketsAt(t, c)'
               PROVE  \/ t = s /\ c = "down" /\ e = m
                      \/ e \in PacketsAt(t, c) /\ ~(t = s /\ c = "out" /\ e = m)
    BY DEF Moving
  <2>1. CASE c = "out"
    BY <1>0, <1>2, <2>1, PacketsDef
  <2>2. CASE c = "down"
    BY <1>0, <1>1, <1>5, <2>2, PacketsDef
  <2>3. CASE c \in {"rm", "rmOut", "up", "loop"}
    BY <1>2, <2>3, PacketsDef
  <2> QED  BY <2>1, <2>2, <2>3, StagesDef
<1>8. Landing(m, "down")
  <2>1. PacketOK(m, "out")
    BY <1>0, <1>3 DEF PacketsOK
  <2> QED  BY <1>2, <2>1 DEF Landing, PacketOK, callVars, MessageStages, AnswerStages
<1>9. /\ UNCHANGED <<callVars, idGenerator, futures>>
      /\ \A k \in Calls : ran'[k] = ran[k]
      /\ \A t \in Streams : handler'[t] = handler[t]
  BY <1>2
<1> QED  BY <1>3, <1>6, <1>7, <1>8, <1>9, MoveKeeps

LEMMA SendAnswerKeeps ==
  ASSUME IInv, TypeOK', NEW s \in Streams, SendAnswer(s)
  PROVE  (PacketInv /\ LoopsOK /\ CallsOK /\ CurrentOK /\ FuturesOK)'
<1>0. /\ rmOut \in [Streams -> SUBSET Answers]
      /\ up \in [Streams -> Seq(Answers)] /\ OnePacket /\ PacketsOK
  BY DEF IInv, TypeOK, RmTypes, NetTypes, PacketInv
<1>1. PICK m \in rmOut[s] : up' = [up EXCEPT ![s] = Append(up[s], m)]
  BY DEF SendAnswer
<1>2. /\ rmOut' = [rmOut EXCEPT ![s] = {}]
      /\ UNCHANGED <<callVars, idGenerator, futures, handler, down, rm, tcOut, ran>>
  BY DEF SendAnswer, tcVars
<1>3. m \in PacketsAt(s, "rmOut") /\ {"rmOut", "up"} \subseteq Stages
  BY PacketsDef, StagesDef
<1>4. \A d \in Elements(up[s]) : d.call # m.call
  <2>1. PacketsAt(s, "up") = Elements(up[s]) /\ "rmOut" # "up"
    BY PacketsDef
  <2> QED  BY <1>0, <1>3, <2>1 DEF OnePacket
<1>5. /\ Elements(up'[s]) = Elements(up[s]) \cup {m}
      /\ Distinct(up[s]) => Distinct(up'[s])
  BY <1>0, <1>1, <1>4, AppendElements
<1>6. Streamwise'
  BY <1>0, <1>1, <1>2, <1>5 DEF OnePacket, Streamwise
<1>7. Moving(s, "rmOut", m, "up", m)
  <2> SUFFICES ASSUME NEW t \in Streams, NEW c \in Stages, NEW e \in PacketsAt(t, c)'
               PROVE  \/ t = s /\ c = "up" /\ e = m
                      \/ e \in PacketsAt(t, c) /\ ~(t = s /\ c = "rmOut" /\ e = m)
    BY DEF Moving
  <2>1. CASE c = "rmOut"
    BY <1>0, <1>2, <2>1, PacketsDef
  <2>2. CASE c = "up"
    BY <1>0, <1>1, <1>5, <2>2, PacketsDef
  <2>3. CASE c \in {"out", "down", "rm", "loop"}
    BY <1>2, <2>3, PacketsDef
  <2> QED  BY <2>1, <2>2, <2>3, StagesDef
<1>8. Landing(m, "up")
  <2>1. PacketOK(m, "rmOut")
    BY <1>0, <1>3 DEF PacketsOK
  <2> QED  BY <1>2, <2>1 DEF Landing, PacketOK, callVars, MessageStages, AnswerStages
<1>9. /\ UNCHANGED <<callVars, idGenerator, futures>>
      /\ \A k \in Calls : ran'[k] = ran[k]
      /\ \A t \in Streams : handler'[t] = handler[t]
  BY <1>2
<1> QED  BY <1>3, <1>6, <1>7, <1>8, <1>9, MoveKeeps

\* The RM takes the first message of its stream, and what is left of the stream.
LEMMA TakeMessage ==
  ASSUME IInv, rm.stream # NoStream, down[rm.stream] # <<>>,
         down' = [down EXCEPT ![rm.stream] = Tail(down[rm.stream])], UNCHANGED up
  PROVE  /\ rm.stream \in Streams /\ Head(down[rm.stream]) \in PacketsAt(rm.stream, "down")
         /\ Head(down[rm.stream]) \in Messages
         /\ Elements(down'[rm.stream]) = {e \in Elements(down[rm.stream]) :
                                            e.call # Head(down[rm.stream]).call}
         /\ \A t \in Streams \ {rm.stream} : down'[t] = down[t]
         /\ Streamwise'
<1> DEFINE s == rm.stream
<1>0. /\ down \in [Streams -> Seq(Messages)] /\ s \in Streams
      /\ OnePacket /\ down[s] \in Seq(Messages)
  BY DEF IInv, TypeOK, NetTypes, RmTypes, RmLoops, PacketInv
<1>1. /\ down'[s] = Tail(down[s]) /\ \A t \in Streams \ {s} : down'[t] = down[t]
  BY <1>0
<1>2. Distinct(down[s])
  BY <1>0 DEF OnePacket
<1>3. /\ Head(down[s]) \in Elements(down[s]) /\ Distinct(Tail(down[s]))
      /\ Elements(Tail(down[s])) = {e \in Elements(down[s]) : e.call # Head(down[s]).call}
  BY <1>0, <1>2, TailElements
<1>4. Head(down[s]) \in Messages /\ Head(down[s]) \in PacketsAt(s, "down")
  BY <1>0, <1>3, ElementsType, PacketsDef
<1>5. Streamwise'
  BY <1>0, <1>1, <1>3 DEF OnePacket, Streamwise
<1> QED  BY <1>0, <1>1, <1>3, <1>4, <1>5

LEMMA ExecuteKeeps ==
  ASSUME IInv, TypeOK', NEW r \in Results, Execute(r)
  PROVE  (PacketInv /\ LoopsOK /\ CallsOK /\ CurrentOK /\ FuturesOK)'
<1>0. PacketsOK /\ OnePacket /\ rm \in RmLoops /\ ran \in [Calls -> Results \cup {NoResult}]
  BY DEF IInv, PacketInv, TypeOK, RmTypes
<1>1. PICK s, m, q : /\ s = rm.stream /\ m = Head(down[s])
                     /\ q = [id |-> m.id, call |-> m.call, result |-> r]
  OBVIOUS
<1>2. /\ rm.pc = "recv" /\ s # NoStream /\ down[s] # <<>>
      /\ down' = [down EXCEPT ![s] = Tail(down[s])]
      /\ ran' = [ran EXCEPT ![m.call] = r]
      /\ rm' = [rm EXCEPT !.pc = "answer", !.answer = q]
      /\ UNCHANGED <<callVars, idGenerator, futures, handler, tcOut, rmOut, up>>
  BY <1>1 DEF Execute, tcVars
<1>3. /\ s \in Streams /\ m \in PacketsAt(s, "down") /\ m \in Messages /\ Streamwise'
      /\ Elements(down'[s]) = {e \in Elements(down[s]) : e.call # m.call}
      /\ \A t \in Streams \ {s} : down'[t] = down[t]
  BY <1>1, <1>2, TakeMessage
<1>4. m.id \in Nat /\ m.call \in Calls /\ q \in Answers /\ q.call = m.call /\ q.id = m.id /\ q.result = r
  BY <1>1, <1>3 DEF Messages, Answers
<1>5. rm'.pc = "answer" /\ rm'.stream = s /\ rm'.answer = q
  BY <1>0, <1>1, <1>2 DEF RmLoops
<1>6. Moving(s, "down", m, "rm", q)
  <2> SUFFICES ASSUME NEW t \in Streams, NEW c \in Stages, NEW e \in PacketsAt(t, c)'
               PROVE  \/ t = s /\ c = "rm" /\ e = q
                      \/ e \in PacketsAt(t, c) /\ ~(t = s /\ c = "down" /\ e = m)
    BY DEF Moving
  <2>1. CASE c = "down"
    BY <1>3, <2>1, PacketsDef
  <2>2. CASE c = "rm"
    BY <1>5, <2>2, PacketsDef
  <2>3. CASE c \in {"out", "rmOut", "up", "loop"}
    BY <1>2, <2>3, PacketsDef
  <2> QED  BY <2>1, <2>2, <2>3, StagesDef
<1>7. PacketOK(m, "down") /\ {"down", "rm"} \subseteq Stages
  BY <1>0, <1>3, StagesDef DEF PacketsOK
<1>8. m.id = mid[m.call] /\ call[m.call] \in Sent
  BY <1>7 DEF PacketOK, MessageStages, Sent
<1>9. UNCHANGED <<call, mid>> /\ ran'[m.call] = r /\ \A k \in Calls : k # m.call => ran'[k] = ran[k]
  BY <1>0, <1>2, <1>4 DEF callVars
<1>10. Landing(q, "rm")
  BY <1>4, <1>8, <1>9 DEF Landing, PacketOK, Sent, MessageStages, AnswerStages
<1>11. /\ UNCHANGED <<callVars, idGenerator, futures>>
       /\ \A k \in Calls : ran'[k] = ran[k] \/ (k = m.call /\ call[k] \in Sent)
       /\ \A t \in Streams : handler'[t] = handler[t]
  BY <1>2, <1>8, <1>9
<1> QED  BY <1>3, <1>4, <1>6, <1>7, <1>10, <1>11, MoveKeeps

LEMMA HandAnswerKeeps ==
  ASSUME IInv, TypeOK', HandAnswer
  PROVE  (PacketInv /\ LoopsOK /\ CallsOK /\ CurrentOK /\ FuturesOK)'
<1>0. PacketsOK /\ OnePacket /\ rmOut \in [Streams -> SUBSET Answers] /\ Streamwise
  BY Untouched DEF IInv, PacketInv, TypeOK, RmTypes
<1>1. PICK s, p : s = rm.stream /\ p = rm.answer
  OBVIOUS
<1>2. /\ rm.pc = "answer" /\ rmOut' = [rmOut EXCEPT ![s] = {p}] /\ rmOut[s] = {}
      /\ rm'.pc = "recv"
      /\ UNCHANGED <<callVars, idGenerator, futures, handler, tcOut, down, up, ran>>
  BY <1>1 DEF HandAnswer, tcVars, netVars, RmLoop
<1>3. s \in Streams /\ p \in PacketsAt(s, "rm") /\ {"rm", "rmOut"} \subseteq Stages
  BY <1>1, <1>2, PacketsDef, StagesDef DEF IInv, TypeOK, RmTypes
<1>4. Streamwise'
  BY <1>2, Untouched
<1>5. Moving(s, "rm", p, "rmOut", p)
  <2> SUFFICES ASSUME NEW t \in Streams, NEW c \in Stages, NEW e \in PacketsAt(t, c)'
               PROVE  \/ t = s /\ c = "rmOut" /\ e = p
                      \/ e \in PacketsAt(t, c) /\ ~(t = s /\ c = "rm" /\ e = p)
    BY DEF Moving
  <2>1. CASE c = "rmOut"
    BY <1>0, <1>2, <2>1, PacketsDef
  <2>2. CASE c = "rm"
    BY <1>2, <2>2, PacketsDef
  <2>3. CASE c \in {"out", "down", "up", "loop"}
    BY <1>2, <2>3, PacketsDef
  <2> QED  BY <2>1, <2>2, <2>3, StagesDef
<1>6. Landing(p, "rmOut")
  <2>1. PacketOK(p, "rm")
    BY <1>0, <1>3 DEF PacketsOK
  <2> QED  BY <1>2, <2>1 DEF Landing, PacketOK, callVars, MessageStages, AnswerStages
<1>7. /\ UNCHANGED <<callVars, idGenerator, futures>>
      /\ \A k \in Calls : ran'[k] = ran[k]
      /\ \A t \in Streams : handler'[t] = handler[t]
  BY <1>2
<1> QED  BY <1>3, <1>4, <1>5, <1>6, <1>7, MoveKeeps

\* A panic drops the message, and what was done for it is recorded.
LEMMA PanicKeeps ==
  ASSUME IInv, TypeOK', Panic
  PROVE  (PacketInv /\ LoopsOK /\ CallsOK /\ CurrentOK /\ FuturesOK)'
<1>0. PacketsOK /\ OnePacket /\ PacketInv /\ rm \in RmLoops /\ ran \in [Calls -> Results \cup {NoResult}]
  BY DEF IInv, PacketInv, TypeOK, RmTypes
<1>1. PICK s, m : s = rm.stream /\ m = Head(down[s])
  OBVIOUS
<1>2. /\ s # NoStream /\ down[s] # <<>> /\ rm'.pc = "dead"
      /\ down' = [down EXCEPT ![s] = Tail(down[s])]
      /\ ran' = [ran EXCEPT ![m.call] = "panicked"]
      /\ UNCHANGED <<callVars, idGenerator, futures, handler, tcOut, rmOut, up>>
  BY <1>0, <1>1 DEF Panic, tcVars, RmLoops
<1>3. /\ s \in Streams /\ m \in PacketsAt(s, "down") /\ m \in Messages /\ Streamwise'
      /\ Elements(down'[s]) = {e \in Elements(down[s]) : e.call # m.call}
      /\ \A t \in Streams \ {s} : down'[t] = down[t]
  BY <1>1, <1>2, TakeMessage
<1>4. PacketOK(m, "down") /\ "down" \in Stages /\ m.call \in Calls
  BY <1>0, <1>3, StagesDef DEF PacketsOK, Messages
<1>5. call[m.call] \in Sent
  BY <1>4 DEF PacketOK, MessageStages, Sent
<1>6. UNCHANGED <<call, mid, got>> /\ \A k \in Calls : k # m.call => ran'[k] = ran[k]
  BY <1>0, <1>2, <1>4 DEF callVars
<1>7. Dropping
  BY <1>2, <1>3 DEF Dropping
<1>8. \A t \in Streams, c \in Stages : \A e \in PacketsAt(t, c)' : e \in PacketsAt(t, c) /\ Kept(e, c)
  <2> SUFFICES ASSUME NEW t \in Streams, NEW c \in Stages, NEW e \in PacketsAt(t, c)'
               PROVE  e \in PacketsAt(t, c) /\ Kept(e, c)
    OBVIOUS
  <2>1. e \in PacketsAt(t, c)
    BY <1>7, DropDef
  <2>2. PacketOK(e, c)
    BY <1>0, <2>1 DEF PacketsOK
  <2>3. e.call \in Calls
    BY <2>2 DEF PacketOK, Stages, Messages, Answers
  <2>4. e.call # m.call
    <3>1. CASE t = s /\ c = "down"
      BY <1>3, <3>1, PacketsDef
    <3>2. CASE ~(t = s /\ c = "down")
      BY <1>0, <1>3, <1>4, <2>1, <3>2 DEF OnePacket
    <3> QED  BY <3>1, <3>2
  <2> QED  BY <1>6, <2>1, <2>3, <2>4 DEF Kept
<1>9. PacketInv'
  BY <1>0, <1>3, <1>8, DropPackets
<1>10. LoopsOK'
  BY <1>2, <1>6 DEF IInv, LoopsOK, LoopOK
<1>11. CallsOK'
  BY <1>5, <1>6 DEF IInv, CallsOK, CallOK, Sent
<1>12. Current' \subseteq Current
  BY <1>2, <1>6, <1>8, CurrentSub
<1>13. CurrentOK'
  <2>1. idGenerator \in Nat
    BY DEF IInv, TypeOK, TcTypes
  <2> QED  BY <1>2, <1>6, <1>12, <2>1, CurrentKept DEF IInv
<1>14. FuturesOK'
  BY <1>2, <1>6, FuturesKept DEF IInv
<1> QED  BY <1>9, <1>10, <1>11, <1>13, <1>14

-----------------------------------------------------------------------------
(* The TC receives an answer.                                               *)

\* A handler with an answer carries a packet.
LEMMA LoopPacket ==
  ASSUME IInv, NEW t \in Streams, handler[t].pc \in {"deliver", "delete"}
  PROVE  /\ handler[t].answer \in PacketsAt(t, "loop") /\ handler[t].to = handler[t].answer.call
         /\ handler[t].to \in Calls /\ handler[t].answer.result = ran[handler[t].to]
         /\ handler[t].answer.id = mid[handler[t].to] /\ handler[t].answer \in Answers
<1>1. handler[t].answer \in PacketsAt(t, "loop") /\ "loop" \in Stages
  BY PacketsDef, StagesDef
<1>2. PacketOK(handler[t].answer, "loop") /\ LoopOK(handler[t])
  BY <1>1 DEF IInv, PacketInv, PacketsOK, LoopsOK
<1>3. handler[t].to = handler[t].answer.call
  BY <1>2 DEF LoopOK
<1>4. handler[t].answer \in Answers /\ handler[t].answer.result = ran[handler[t].answer.call]
      /\ handler[t].answer.id = mid[handler[t].answer.call]
  BY <1>2 DEF PacketOK
<1>5. handler[t].answer.call \in Calls
  BY <1>4 DEF Answers
<1> QED  BY <1>1, <1>3, <1>4, <1>5

\* Two handlers never hold answers of one call.
LEMMA LoopsApart ==
  ASSUME IInv, NEW s \in Streams, NEW t \in Streams,
         handler[s].pc \in {"deliver", "delete"}, handler[t].pc \in {"deliver", "delete"},
         handler[s].to = handler[t].to
  PROVE  s = t
<1>1. "loop" \in Stages
  BY StagesDef
<1> QED  BY <1>1, LoopPacket DEF IInv, PacketInv, OnePacket

\* The calls that have a future are current, and wait or have just been answered.
LEMMA FutureCall ==
  ASSUME IInv, NEW f \in futures
  PROVE  /\ f[2] \in Calls /\ f[2] \in Current /\ f[1] = mid[f[2]]
         /\ \/ call[f[2]] = "wait"
            \/ /\ call[f[2]] = "answered"
               /\ \E t \in Streams : handler[t].pc = "delete" /\ handler[t].to = f[2]
<1>1. f[2] \in Calls /\ f[1] = mid[f[2]]
  BY DEF IInv, FuturesOK, TypeOK, TcTypes
<1>2. CASE call[f[2]] = "wait"
  BY <1>1, <1>2 DEF Current
<1>3. ASSUME NEW t \in Streams, handler[t].pc = "delete", handler[t].to = f[2]
      PROVE  f[2] \in Current /\ call[f[2]] = "answered"
  <2>1. handler[t].answer \in PacketsAt(t, "loop") /\ handler[t].answer.call = f[2] /\ "loop" \in Stages
    BY <1>3, LoopPacket, StagesDef
  <2>2. call[f[2]] = "answered"
    BY <1>3 DEF IInv, LoopsOK, LoopOK
  <2> QED  BY <1>1, <1>3, <2>1, <2>2 DEF Current
<1> QED  BY <1>1, <1>2, <1>3 DEF IInv, FuturesOK, NoZombieFuture

\* The first answer of a stream that is read: its future is there exactly if its call waits.
LEMMA Answered ==
  ASSUME IInv, NEW s \in Streams, handler[s].pc = "recv", up[s] # <<>>,
         NEW a, a = Head(up[s])
  PROVE  /\ a \in PacketsAt(s, "up") /\ a \in Answers /\ a.call \in Current /\ a.id = mid[a.call]
         /\ \A f \in futures : f[1] = a.id => f[2] = a.call /\ call[a.call] = "wait"
         /\ call[a.call] = "wait" => <<a.id, a.call>> \in futures
<1>0. up[s] \in Seq(Answers) /\ Distinct(up[s]) /\ "up" \in Stages /\ "loop" \in Stages
  BY StagesDef DEF IInv, TypeOK, NetTypes, PacketInv, OnePacket
<1>1. a \in Elements(up[s]) /\ a \in Answers
  BY <1>0, TailElements, ElementsType
<1>2. a \in PacketsAt(s, "up")
  BY <1>1, PacketsDef
<1>3. a.call \in Calls /\ a.id = mid[a.call]
  BY <1>0, <1>1, <1>2 DEF IInv, PacketInv, PacketsOK, PacketOK, Answers
<1>4. a.call \in Current
  BY <1>0, <1>2, <1>3 DEF Current
<1>5. ASSUME NEW f \in futures, f[1] = a.id PROVE f[2] = a.call /\ call[a.call] = "wait"
  <2>1. f[2] \in Current /\ f[1] = mid[f[2]]
    BY FutureCall
  <2>2. f[2] = a.call
    BY <1>3, <1>4, <1>5, <2>1 DEF IInv, CurrentOK
  <2>3. ASSUME NEW t \in Streams, handler[t].pc = "delete", handler[t].to = f[2] PROVE FALSE
    <3>1. handler[t].answer \in PacketsAt(t, "loop") /\ handler[t].answer.call = a.call
      BY <2>2, <2>3, LoopPacket
    <3>2. "up" # "loop"
      OBVIOUS
    <3> QED  BY <1>0, <1>2, <3>1, <3>2 DEF IInv, PacketInv, OnePacket
  <2> QED  BY <2>2, <2>3, FutureCall
<1>6. call[a.call] = "wait" => <<a.id, a.call>> \in futures
  BY <1>3 DEF IInv, FuturesOK
<1> QED  BY <1>1, <1>2, <1>3, <1>4, <1>5, <1>6

LEMMA RecvKeeps ==
  ASSUME IInv, TypeOK', NEW s \in Streams, Recv(s)
  PROVE  (PacketInv /\ LoopsOK /\ CallsOK /\ CurrentOK /\ FuturesOK)'
<1>0. /\ up \in [Streams -> Seq(Answers)] /\ OnePacket /\ PacketsOK /\ handler \in [Streams -> TcLoops]
      /\ up[s] \in Seq(Answers) /\ Distinct(up[s])
  BY DEF IInv, TypeOK, NetTypes, TcTypes, PacketInv, OnePacket
<1>1. PICK a : a = Head(up[s])
  OBVIOUS
<1>2. /\ handler[s].pc = "recv" /\ up[s] # <<>> /\ up' = [up EXCEPT ![s] = Tail(up[s])]
      /\ UNCHANGED <<callVars, idGenerator, futures, tcOut, down, rm, rmOut, ran>>
  BY DEF Recv, rmVars
<1>3. /\ a \in PacketsAt(s, "up") /\ a \in Answers /\ {"up", "loop"} \subseteq Stages
      /\ \A f \in futures : f[1] = a.id => f[2] = a.call /\ call[a.call] = "wait"
  BY <1>1, <1>2, Answered, StagesDef
<1>4. /\ Elements(up'[s]) = {e \in Elements(up[s]) : e.call # a.call} /\ Distinct(up'[s])
      /\ \A t \in Streams \ {s} : up'[t] = up[t]
  BY <1>0, <1>1, <1>2, TailElements
<1>5. Streamwise'
  BY <1>0, <1>2, <1>4 DEF OnePacket, Streamwise
<1>6. CASE UNCHANGED handler
  <2>1. Dropping /\ LoopsKept
    BY <1>2, <1>4, <1>6 DEF Dropping, LoopsKept
  <2> QED  BY <1>2, <1>5, <2>1, QuietKeeps
<1>7. ASSUME NEW f \in futures, f[1] = a.id,
             handler' = [handler EXCEPT ![s].pc = "deliver", ![s].to = f[2], ![s].answer = a]
      PROVE  (PacketInv /\ LoopsOK /\ CallsOK /\ CurrentOK /\ FuturesOK)'
  <2>1. /\ handler'[s].pc = "deliver" /\ handler'[s].to = a.call /\ handler'[s].answer = a
        /\ \A t \in Streams \ {s} : handler'[t] = handler[t]
    BY <1>0, <1>3, <1>7 DEF TcLoops
  <2>2. call[a.call] = "wait"
    BY <1>3, <1>7
  <2>3. Moving(s, "up", a, "loop", a)
    <3> SUFFICES ASSUME NEW t \in Streams, NEW c \in Stages, NEW e \in PacketsAt(t, c)'
                 PROVE  \/ t = s /\ c = "loop" /\ e = a
                        \/ e \in PacketsAt(t, c) /\ ~(t = s /\ c = "up" /\ e = a)
      BY DEF Moving
    <3>1. CASE c = "up"
      BY <1>4, <3>1, PacketsDef
    <3>2. CASE c = "loop"
      BY <2>1, <3>2, PacketsDef
    <3>3. CASE c \in {"out", "down", "rm", "rmOut"}
      BY <1>2, <3>3, PacketsDef
    <3> QED  BY <3>1, <3>2, <3>3, StagesDef
  <2>4. Landing(a, "loop")
    <3>1. PacketOK(a, "up")
      BY <1>0, <1>3 DEF PacketsOK
    <3> QED  BY <1>2, <3>1 DEF Landing, PacketOK, callVars, MessageStages, AnswerStages
  <2>5. Delivers(s)
    BY <1>2, <2>1, <2>2 DEF Delivers, LoopOK, callVars
  <2>6. /\ UNCHANGED <<callVars, idGenerator, futures>>
        /\ \A k \in Calls : ran'[k] = ran[k]
        /\ \A t \in Streams : handler'[t] = handler[t] \/ Delivers(t)
    BY <1>2, <2>1, <2>5
  <2> QED  BY <1>3, <1>5, <2>3, <2>4, <2>6, MoveKeeps
<1> QED  BY <1>1, <1>6, <1>7 DEF Recv

-----------------------------------------------------------------------------
(* The steps of the calls, and the answer that reaches its call.            *)

\* A packet is about a call that was sent, and is current if its handler has not ended.
LEMMA PacketCall ==
  ASSUME IInv, NEW t \in Streams, NEW c \in Stages, NEW p \in PacketsAt(t, c)
  PROVE  /\ p.call \in Calls /\ call[p.call] \in Sent \cup {"answered"}
         /\ c # "loop" => call[p.call] \in Sent
         /\ handler[t].pc # "ended" => p.call \in Current
<1>1. PacketOK(p, c) /\ LoopOK(handler[t])
  BY DEF IInv, PacketInv, PacketsOK, LoopsOK
<1>2. p.call \in Calls
  BY <1>1 DEF PacketOK, Stages, Messages, Answers
<1>3. c # "loop" => call[p.call] \in Sent
  BY <1>1 DEF PacketOK, Stages, Sent
<1>4. c = "loop" => call[p.call] \in {"wait", "failed", "answered"}
  BY <1>1, PacketsDef DEF LoopOK
<1>5. handler[t].pc # "ended" => p.call \in Current
  BY <1>2 DEF Current
<1> QED  BY <1>2, <1>3, <1>4, <1>5 DEF Sent

\* A call that has not been sent is not current.
LEMMA Unsent ==
  ASSUME IInv, NEW k \in Calls, call[k] = "idle"
  PROVE  /\ k \notin Current /\ \A f \in futures : f[2] # k
         /\ \A t \in Streams, c \in Stages : \A p \in PacketsAt(t, c) : p.call # k
<1>1. \A t \in Streams, c \in Stages : \A p \in PacketsAt(t, c) : p.call # k
  BY PacketCall DEF Sent
<1>2. k \notin Current
  BY <1>1 DEF Current
<1>3. \A f \in futures : f[2] # k
  BY FutureCall
<1> QED  BY <1>1, <1>2, <1>3

LEMMA QueueNotReadyKeeps ==
  ASSUME IInv, TypeOK', NEW k \in Calls, QueueNotReady(k)
  PROVE  (PacketInv /\ LoopsOK /\ CallsOK /\ CurrentOK /\ FuturesOK)'
<1>0. /\ call \in [Calls -> {"idle", "store", "wait", "refused", "answered", "failed"}]
      /\ mid \in [Calls -> Nat] /\ idGenerator \in Nat /\ futures \subseteq Nat \X Calls
  BY DEF IInv, TypeOK, CallTypes, TcTypes
<1>1. /\ call[k] = "idle" /\ call'[k] = "refused" /\ idGenerator' = idGenerator + 1
      /\ \A l \in Calls \ {k} : call'[l] = call[l] /\ mid'[l] = mid[l]
      /\ UNCHANGED <<got, futures, handler, tcOut, down, up, rm, rmOut, ran>>
  BY <1>0 DEF QueueNotReady, netVars, rmVars
<1>2. Dropping /\ Streamwise'
  BY <1>1, Untouched
<1>3. \A t \in Streams, c \in Stages : \A p \in PacketsAt(t, c)' :
        p \in PacketsAt(t, c) /\ p.call \in Calls \ {k}
  BY <1>1, <1>2, DropDef, PacketCall, Unsent
<1>4. PacketInv'
  BY <1>1, <1>2, <1>3, DropPackets DEF Kept, IInv
<1>5. LoopsOK'
  <2> SUFFICES ASSUME NEW t \in Streams PROVE LoopOK(handler[t])'
    BY DEF LoopsOK
  <2>1. LoopOK(handler[t])
    BY DEF IInv, LoopsOK
  <2>2. handler[t].pc \in {"deliver", "delete"} => handler[t].to \in Calls
    BY LoopPacket
  <2> QED  BY <1>1, <2>1, <2>2 DEF LoopOK
<1>6. CallsOK'
  <2> SUFFICES ASSUME NEW l \in Calls PROVE CallOK(l)'
    BY DEF CallsOK
  <2>1. CallOK(l)
    BY DEF IInv, CallsOK
  <2> QED  BY <1>1, <2>1 DEF CallOK
<1>7. Current' \subseteq Current
  <2>1. \A l \in Calls : call'[l] \in {"store", "wait"} => call[l] \in {"store", "wait"}
    BY <1>1
  <2> QED  BY <1>1, <1>3, <2>1, CurrentSub
<1>8. CurrentOK'
  <2>1. \A l \in Current' : mid'[l] = mid[l]
    BY <1>1, <1>7, Unsent DEF Current
  <2> QED  BY <1>0, <1>1, <1>7, <2>1, CurrentKept DEF IInv
<1>9. FuturesOK'
  <2>1. \A f \in futures : f[2] \in Calls \ {k}
    BY <1>1, FutureCall, Unsent
  <2>2. NoZombieFuture'
    BY <1>1, <2>1 DEF IInv, FuturesOK, NoZombieFuture
  <2>3. \A f \in futures' : f[1] = mid'[f[2]]
    BY <1>1, <2>1 DEF IInv, FuturesOK
  <2>4. \A l \in Calls : call'[l] = "wait" => <<mid'[l], l>> \in futures'
    BY <1>1 DEF IInv, FuturesOK
  <2> QED  BY <2>2, <2>3, <2>4 DEF FuturesOK
<1> QED  BY <1>4, <1>5, <1>6, <1>8, <1>9

LEMMA HandOffKeeps ==
  ASSUME IInv, TypeOK', NEW k \in Calls, NEW s \in Streams, HandOff(k, s)
  PROVE  (PacketInv /\ LoopsOK /\ CallsOK /\ CurrentOK /\ FuturesOK)'
<1>0. /\ call \in [Calls -> {"idle", "store", "wait", "refused", "answered", "failed"}]
      /\ mid \in [Calls -> Nat] /\ idGenerator \in Nat /\ futures \subseteq Nat \X Calls
      /\ tcOut \in [Streams -> SUBSET Messages]
  BY DEF IInv, TypeOK, CallTypes, TcTypes
<1>1. PICK q : q = [id |-> idGenerator + 1, call |-> k]
  OBVIOUS
<1>2. /\ call[k] = "idle" /\ call'[k] = "store" /\ mid'[k] = idGenerator + 1
      /\ idGenerator' = idGenerator + 1
      /\ \A l \in Calls \ {k} : call'[l] = call[l] /\ mid'[l] = mid[l]
      /\ tcOut' = [tcOut EXCEPT ![s] = {q}] /\ tcOut[s] = {}
      /\ UNCHANGED <<got, futures, handler, down, up, rm, rmOut, ran>>
  BY <1>0, <1>1 DEF HandOff, Parked, netVars, rmVars
<1>3. q \in Messages /\ q.id = idGenerator + 1 /\ q.call = k
  BY <1>0, <1>1 DEF Messages
<1>4. Streamwise' /\ "out" \in Stages
  BY <1>2, Untouched, StagesDef
<1>5. \A t \in Streams, c \in Stages : \A p \in PacketsAt(t, c)' :
        \/ t = s /\ c = "out" /\ p = q
        \/ p \in PacketsAt(t, c) /\ p.call \in Calls \ {k}
  <2> SUFFICES ASSUME NEW t \in Streams, NEW c \in Stages, NEW p \in PacketsAt(t, c)'
               PROVE  \/ t = s /\ c = "out" /\ p = q
                      \/ p \in PacketsAt(t, c)
    BY <1>2, PacketCall, Unsent
  <2>1. CASE c = "out"
    BY <1>0, <1>2, <2>1, PacketsDef
  <2>2. CASE c \in {"down", "rm", "rmOut", "up", "loop"}
    BY <1>2, <2>2, PacketsDef
  <2> QED  BY <2>1, <2>2, StagesDef
<1>6. PacketInv'
  <2>1. CallOK(k)
    BY DEF IInv, CallsOK
  <2>2. PICK b : b = "out"
    OBVIOUS
  <2>3. PacketOK(q, b)' /\ b \in Stages
    BY <1>2, <1>3, <1>4, <2>1, <2>2 DEF PacketOK, CallOK, MessageStages, AnswerStages
  <2>4. \A t \in Streams, c \in Stages : \A p \in PacketsAt(t, c)' :
          \/ t = s /\ c = b /\ p = q
          \/ p \in PacketsAt(t, c) /\ p.call # q.call /\ Kept(p, c)
    BY <1>2, <1>3, <1>5, <2>2 DEF Kept
  <2> QED  BY <1>4, <2>3, <2>4, PlacePacket DEF IInv
<1>7. LoopsOK'
  <2> SUFFICES ASSUME NEW t \in Streams PROVE LoopOK(handler[t])'
    BY DEF LoopsOK
  <2>1. LoopOK(handler[t])
    BY DEF IInv, LoopsOK
  <2>2. handler[t].pc \in {"deliver", "delete"} => handler[t].to \in Calls
    BY LoopPacket
  <2> QED  BY <1>2, <2>1, <2>2 DEF LoopOK
<1>8. CallsOK'
  <2> SUFFICES ASSUME NEW l \in Calls PROVE CallOK(l)'
    BY DEF CallsOK
  <2>1. CallOK(l)
    BY DEF IInv, CallsOK
  <2> QED  BY <1>2, <2>1 DEF CallOK
<1>9. CurrentOK'
  <2>1. ASSUME NEW l \in Current', l # k PROVE l \in Current /\ mid'[l] = mid[l]
    <3>1. l \in Calls
      BY DEF Current
    <3>2. CASE call'[l] \in {"store", "wait"}
      BY <1>2, <2>1, <3>1, <3>2 DEF Current
    <3>3. ASSUME NEW t \in Streams, NEW c \in Stages, handler'[t].pc # "ended",
                 NEW p \in PacketsAt(t, c)', p.call = l
          PROVE  l \in Current
      BY <1>2, <1>3, <1>5, <2>1, <3>3, PacketCall
    <3> QED  BY <1>2, <2>1, <3>1, <3>2, <3>3 DEF Current
  <2>2. \A l \in Current' \ {k} : mid'[l] \in 1 .. idGenerator
    BY <2>1 DEF IInv, CurrentOK
  <2>3. \A l \in Current' : mid'[l] \in 1 .. idGenerator'
    BY <1>0, <1>2, <2>2
  <2>4. \A l, m \in Current' : mid'[l] = mid'[m] => l = m
    <3> SUFFICES ASSUME NEW l \in Current', NEW m \in Current', mid'[l] = mid'[m] PROVE l = m
      OBVIOUS
    <3>1. CASE l # k /\ m # k
      BY <2>1, <3>1 DEF IInv, CurrentOK
    <3>2. CASE l = k \/ m = k
      BY <1>0, <1>2, <2>2, <3>2
    <3> QED  BY <3>1, <3>2
  <2> QED  BY <2>3, <2>4 DEF CurrentOK
<1>10. FuturesOK'
  <2>1. \A f \in futures : f[2] \in Calls \ {k}
    BY <1>2, FutureCall, Unsent
  <2>2. NoZombieFuture'
    BY <1>2, <2>1 DEF IInv, FuturesOK, NoZombieFuture
  <2>3. \A f \in futures' : f[1] = mid'[f[2]]
    BY <1>2, <2>1 DEF IInv, FuturesOK
  <2>4. \A l \in Calls : call'[l] = "wait" => <<mid'[l], l>> \in futures'
    BY <1>2 DEF IInv, FuturesOK
  <2> QED  BY <2>2, <2>3, <2>4 DEF FuturesOK
<1> QED  BY <1>6, <1>7, <1>8, <1>9, <1>10

\* StoreFuture and Timeout, but for the futures.
LEMMA CallGoesOn ==
  ASSUME IInv, TypeOK', NEW k \in Calls, StoreFuture(k) \/ Timeout(k)
  PROVE  (PacketInv /\ LoopsOK /\ CallsOK /\ CurrentOK)'
<1>0. /\ call \in [Calls -> {"idle", "store", "wait", "refused", "answered", "failed"}]
      /\ idGenerator \in Nat
  BY DEF IInv, TypeOK, CallTypes, TcTypes
<1>1. /\ \/ call[k] = "store" /\ call'[k] = "wait"
         \/ call[k] = "wait" /\ call'[k] = "failed"
      /\ \A l \in Calls \ {k} : call'[l] = call[l]
      /\ UNCHANGED <<mid, got, idGenerator, handler, tcOut, down, up, rm, rmOut, ran>>
  BY <1>0 DEF StoreFuture, Timeout, netVars, rmVars
<1>2. Dropping /\ Streamwise'
  BY <1>1, Untouched
<1>3. \A t \in Streams, c \in Stages : \A p \in PacketsAt(t, c)' : p \in PacketsAt(t, c) /\ Kept(p, c)
  BY <1>1, <1>2, DropDef, PacketCall DEF Kept, Sent
<1>4. PacketInv'
  BY <1>2, <1>3, DropPackets DEF IInv
<1>5. LoopsOK'
  <2> SUFFICES ASSUME NEW t \in Streams PROVE LoopOK(handler[t])'
    BY DEF LoopsOK
  <2>1. LoopOK(handler[t])
    BY DEF IInv, LoopsOK
  <2>2. handler[t].pc \in {"deliver", "delete"} => handler[t].to \in Calls
    BY LoopPacket
  <2> QED  BY <1>1, <2>1, <2>2 DEF LoopOK
<1>6. CallsOK'
  <2> SUFFICES ASSUME NEW l \in Calls PROVE CallOK(l)'
    BY DEF CallsOK
  <2>1. CallOK(l)
    BY DEF IInv, CallsOK
  <2> QED  BY <1>1, <2>1 DEF CallOK
<1>7. Current' \subseteq Current
  <2>1. \A l \in Calls : call'[l] \in {"store", "wait"} => call[l] \in {"store", "wait"}
    BY <1>1
  <2> QED  BY <1>1, <1>3, <2>1, CurrentSub
<1>8. CurrentOK'
  BY <1>0, <1>1, <1>7, CurrentKept DEF IInv
<1> QED  BY <1>4, <1>5, <1>6, <1>8

\* The other futures have other identifiers.
LEMMA OtherFutures ==
  ASSUME IInv, NEW k \in Current, NEW l \in Calls \ {k}, call[l] = "wait"
  PROVE  <<mid[l], l>> \in Without(mid[k])
<1>1. l \in Current /\ <<mid[l], l>> \in futures
  BY DEF IInv, FuturesOK, Current
<1>2. mid[l] # mid[k]
  BY <1>1 DEF IInv, CurrentOK
<1> QED  BY <1>1, <1>2 DEF Without

LEMMA StoreFutureFutures ==
  ASSUME IInv, NEW k \in Calls, StoreFuture(k)
  PROVE  FuturesOK'
<1>0. call \in [Calls -> {"idle", "store", "wait", "refused", "answered", "failed"}]
  BY DEF IInv, TypeOK, CallTypes
<1>1. /\ call[k] = "store" /\ call'[k] = "wait" /\ \A l \in Calls \ {k} : call'[l] = call[l]
      /\ futures' = Without(mid[k]) \cup {<<mid[k], k>>} /\ UNCHANGED <<mid, handler>>
  BY <1>0 DEF StoreFuture
<1>2. k \in Current
  BY <1>1 DEF Current
<1>3. \A f \in futures' : f \in futures \/ (f[1] = mid[k] /\ f[2] = k)
  BY <1>1 DEF Without
<1>4. \A f \in futures' : f[1] = mid'[f[2]]
  BY <1>1, <1>3, FutureCall
<1>5. NoZombieFuture'
  <2> SUFFICES ASSUME NEW f \in futures'
               PROVE  \/ call'[f[2]] = "wait"
                      \/ \E t \in Streams : handler'[t].pc = "delete" /\ handler'[t].to = f[2]
    BY DEF NoZombieFuture
  <2>1. CASE f \in futures
    BY <1>1, <2>1, FutureCall
  <2>2. CASE f[2] = k
    BY <1>1, <2>2
  <2> QED  BY <1>3, <2>1, <2>2
<1>6. \A l \in Calls : call'[l] = "wait" => <<mid'[l], l>> \in futures'
  BY <1>1, <1>2, OtherFutures
<1> QED  BY <1>4, <1>5, <1>6 DEF FuturesOK

LEMMA TimeoutFutures ==
  ASSUME IInv, NEW k \in Calls, Timeout(k)
  PROVE  FuturesOK'
<1>0. call \in [Calls -> {"idle", "store", "wait", "refused", "answered", "failed"}]
  BY DEF IInv, TypeOK, CallTypes
<1>1. /\ call[k] = "wait" /\ call'[k] = "failed" /\ \A l \in Calls \ {k} : call'[l] = call[l]
      /\ futures' = Without(mid[k]) /\ UNCHANGED <<mid, handler>>
  BY <1>0 DEF Timeout
<1>2. k \in Current
  BY <1>1 DEF Current
<1>3. \A f \in futures' : f \in futures /\ f[2] \in Calls \ {k} /\ f[1] = mid[f[2]]
  BY <1>1, FutureCall DEF Without
<1>4. NoZombieFuture'
  BY <1>1, <1>3 DEF IInv, FuturesOK, NoZombieFuture
<1>5. \A l \in Calls : call'[l] = "wait" => <<mid'[l], l>> \in futures'
  BY <1>1, <1>2, OtherFutures
<1> QED  BY <1>1, <1>3, <1>4, <1>5 DEF FuturesOK

LEMMA DeliverKeeps ==
  ASSUME IInv, TypeOK', NEW s \in Streams, Deliver(s)
  PROVE  (PacketInv /\ LoopsOK /\ CallsOK /\ CurrentOK /\ FuturesOK)'
<1>0. /\ call \in [Calls -> {"idle", "store", "wait", "refused", "answered", "failed"}]
      /\ got \in [Calls -> Answers \cup {NoAnswer}] /\ handler \in [Streams -> TcLoops]
      /\ idGenerator \in Nat
  BY DEF IInv, TypeOK, CallTypes, TcTypes
<1>1. PICK k, h : k = handler[s].to /\ h = handler[s]
  OBVIOUS
<1>2. h.pc = "deliver" /\ call[k] = "wait"
  BY <1>1 DEF Deliver
<1>3. /\ h.answer \in PacketsAt(s, "loop") /\ h.to = h.answer.call /\ k \in Calls
      /\ h.answer.result = ran[k] /\ "loop" \in Stages
  BY <1>1, <1>2, LoopPacket, StagesDef
<1>4. /\ call'[k] = "answered" /\ got'[k] = h.answer
      /\ \A l \in Calls \ {k} : call'[l] = call[l] /\ got'[l] = got[l]
      /\ UNCHANGED <<mid, idGenerator, futures, tcOut, down, up, rm, rmOut, ran>>
  BY <1>0, <1>1, <1>3 DEF Deliver, netVars, rmVars
<1>5. /\ handler'[s].pc = "delete" /\ handler'[s].to = k /\ handler'[s].answer = h.answer
      /\ \A t \in Streams \ {s} : handler'[t] = handler[t]
  BY <1>0, <1>1 DEF Deliver, Goto, TcLoops
<1>6. Dropping /\ Streamwise'
  <2>1. Streamwise
    BY Untouched
  <2> QED  BY <1>1, <1>2, <1>4, <1>5, <2>1 DEF Dropping, Streamwise
<1>7. \A t \in Streams, c \in Stages : \A p \in PacketsAt(t, c)' : p \in PacketsAt(t, c) /\ Kept(p, c)
  <2> SUFFICES ASSUME NEW t \in Streams, NEW c \in Stages, NEW p \in PacketsAt(t, c)'
               PROVE  p \in PacketsAt(t, c) /\ Kept(p, c)
    OBVIOUS
  <2>1. p \in PacketsAt(t, c)
    BY <1>6, DropDef
  <2>2. c # "loop" => p.call # k
    BY <1>1, <1>3, <2>1 DEF IInv, PacketInv, OnePacket
  <2>3. p.call \in Calls
    BY <2>1, PacketCall
  <2> QED  BY <1>4, <2>1, <2>2, <2>3 DEF Kept
<1>8. PacketInv'
  BY <1>6, <1>7, DropPackets DEF IInv
<1>9. LoopsOK'
  <2> SUFFICES ASSUME NEW t \in Streams PROVE LoopOK(handler[t])'
    BY DEF LoopsOK
  <2>1. CASE t = s
    BY <1>1, <1>3, <1>4, <1>5, <2>1 DEF LoopOK
  <2>2. CASE t # s
    <3>1. LoopOK(handler[t])
      BY DEF IInv, LoopsOK
    <3>2. handler[t].pc \in {"deliver", "delete"} => handler[t].to \in Calls \ {k}
      BY <1>1, <1>2, <2>2, LoopPacket, LoopsApart
    <3> QED  BY <1>4, <1>5, <2>2, <3>1, <3>2 DEF LoopOK
  <2> QED  BY <2>1, <2>2
<1>10. CallsOK'
  <2> SUFFICES ASSUME NEW l \in Calls PROVE CallOK(l)'
    BY DEF CallsOK
  <2>1. CallOK(l)
    BY DEF IInv, CallsOK
  <2> QED  BY <1>1, <1>3, <1>4, <2>1 DEF CallOK
<1>11. Current' \subseteq Current
  <2>1. \A l \in Calls : call'[l] \in {"store", "wait"} => call[l] \in {"store", "wait"}
    BY <1>2, <1>4
  <2>2. \A t \in Streams : handler'[t].pc # "ended" => handler[t].pc # "ended"
    BY <1>1, <1>2, <1>5
  <2> QED  BY <1>7, <2>1, <2>2, CurrentSub
<1>12. CurrentOK'
  BY <1>0, <1>4, <1>11, CurrentKept DEF IInv
<1>13. FuturesOK'
  <2>1. NoZombieFuture'
    <3> SUFFICES ASSUME NEW f \in futures
                 PROVE  \/ call'[f[2]] = "wait"
                        \/ \E t \in Streams : handler'[t].pc = "delete" /\ handler'[t].to = f[2]
      BY <1>4 DEF NoZombieFuture
    <3>1. CASE f[2] = k
      BY <1>5, <3>1
    <3>2. CASE f[2] # k /\ call[f[2]] = "wait"
      BY <1>4, <3>2, FutureCall
    <3>3. ASSUME NEW t \in Streams, handler[t].pc = "delete", handler[t].to = f[2]
          PROVE  handler'[t].pc = "delete" /\ handler'[t].to = f[2]
      BY <1>1, <1>2, <1>5, <3>3
    <3> QED  BY <3>1, <3>2, <3>3, FutureCall
  <2>2. \A f \in futures' : f[1] = mid'[f[2]]
    BY <1>4 DEF IInv, FuturesOK
  <2>3. \A l \in Calls : call'[l] = "wait" => <<mid'[l], l>> \in futures'
    BY <1>4 DEF IInv, FuturesOK
  <2> QED  BY <2>1, <2>2, <2>3 DEF FuturesOK
<1> QED  BY <1>8, <1>9, <1>10, <1>12, <1>13

LEMMA DeleteFutureKeeps ==
  ASSUME IInv, TypeOK', NEW s \in Streams, DeleteFuture(s)
  PROVE  (PacketInv /\ LoopsOK /\ CallsOK /\ CurrentOK /\ FuturesOK)'
<1>0. handler \in [Streams -> TcLoops] /\ idGenerator \in Nat
  BY DEF IInv, TypeOK, TcTypes
<1>1. PICK k, h : k = handler[s].to /\ h = handler[s]
  OBVIOUS
<1>2. /\ h.pc = "delete" /\ h.to = h.answer.call /\ k \in Calls /\ h.answer.id = mid[k]
      /\ h.answer \in PacketsAt(s, "loop") /\ "loop" \in Stages
  BY <1>1, LoopPacket, StagesDef DEF DeleteFuture
<1>3. call[k] = "answered" /\ k \in Current
  <2>1. LoopOK(h)
    BY <1>1 DEF IInv, LoopsOK
  <2> QED  BY <1>1, <1>2, <2>1 DEF LoopOK, Current
<1>4. /\ handler'[s].pc = "recv" /\ \A t \in Streams \ {s} : handler'[t] = handler[t]
      /\ futures' = Without(mid[k])
      /\ UNCHANGED <<call, mid, got, idGenerator, tcOut, down, up, rm, rmOut, ran>>
  BY <1>0, <1>1, <1>2 DEF DeleteFuture, Loop, callVars, netVars, rmVars
<1>5. Dropping /\ Streamwise'
  <2>1. Streamwise
    BY Untouched
  <2> QED  BY <1>4, <2>1 DEF Dropping, Streamwise
<1>6. \A t \in Streams, c \in Stages : \A p \in PacketsAt(t, c)' : p \in PacketsAt(t, c) /\ Kept(p, c)
  BY <1>4, <1>5, DropDef DEF Kept
<1>7. PacketInv'
  BY <1>5, <1>6, DropPackets DEF IInv
<1>8. LoopsOK'
  BY <1>4 DEF IInv, LoopsOK, LoopOK
<1>9. CallsOK'
  BY <1>4 DEF IInv, CallsOK, CallOK
<1>10. Current' \subseteq Current
  <2>1. \A t \in Streams : handler'[t].pc # "ended" => handler[t].pc # "ended"
    BY <1>1, <1>2, <1>4
  <2> QED  BY <1>4, <1>6, <2>1, CurrentSub
<1>11. CurrentOK'
  BY <1>0, <1>4, <1>10, CurrentKept DEF IInv
<1>12. FuturesOK'
  <2>1. \A f \in futures' : f \in futures /\ f[1] = mid[f[2]] /\ f[2] # k
    BY <1>4, FutureCall DEF Without
  <2>2. NoZombieFuture'
    BY <1>1, <1>4, <2>1, FutureCall DEF NoZombieFuture
  <2>3. \A l \in Calls : call'[l] = "wait" => <<mid'[l], l>> \in futures'
    BY <1>3, <1>4, OtherFutures
  <2> QED  BY <1>4, <2>1, <2>2, <2>3 DEF FuturesOK
<1> QED  BY <1>7, <1>8, <1>9, <1>11, <1>12

\* A restart leaves no call current: the handlers of streams that were opened have ended.
LEMMA TcCrashKeeps ==
  ASSUME IInv, TypeOK', TcCrash
  PROVE  (PacketInv /\ LoopsOK /\ CallsOK /\ CurrentOK /\ FuturesOK)'
<1>1. /\ \A l \in Calls : \/ call[l] \in {"store", "wait"} /\ call'[l] = "failed"
                          \/ call[l] \notin {"store", "wait"} /\ call'[l] = call[l]
      /\ UNCHANGED <<mid, got, down, up, rm, rmOut, ran>> /\ futures' = {}
  BY DEF TcCrash, rmVars
<1>2. \A t \in Streams : /\ tcOut'[t] = {} /\ handler'[t].pc \in {"none", "ended"}
                         /\ handler'[t].pc # "ended" => conn[t] = "none"
  BY DEF TcCrash, Loop
<1>3. Dropping /\ Streamwise'
  BY <1>1, <1>2, Untouched DEF Dropping
<1>4. \A t \in Streams, c \in Stages : \A p \in PacketsAt(t, c)' : p \in PacketsAt(t, c) /\ Kept(p, c)
  BY <1>1, <1>3, DropDef, PacketCall DEF Kept, Sent
<1>5. PacketInv'
  BY <1>3, <1>4, DropPackets DEF IInv
<1>6. LoopsOK'
  BY <1>2 DEF LoopsOK, LoopOK
<1>7. CallsOK'
  <2> SUFFICES ASSUME NEW l \in Calls PROVE CallOK(l)'
    BY DEF CallsOK
  <2>1. CallOK(l)
    BY DEF IInv, CallsOK
  <2> QED  BY <1>1, <2>1 DEF CallOK
<1>8. Current' = {}
  <2>1. \A t \in Streams, c \in Stages : conn[t] = "none" => PacketsAt(t, c) = {}
    <3> SUFFICES ASSUME NEW t \in Streams, NEW c \in Stages, conn[t] = "none" PROVE PacketsAt(t, c) = {}
      OBVIOUS
    <3>1. /\ handler[t].pc = "none" /\ tcOut[t] = {} /\ rmOut[t] = {} /\ rm.stream # t
          /\ down[t] = <<>> /\ up[t] = <<>>
      BY DEF IInv, UnusedOK, Unused, Loop
    <3>2. Elements(down[t]) = {} /\ Elements(up[t]) = {}
      BY <3>1, EmptyElements
    <3> QED  BY <3>1, <3>2, PacketsDef, StagesDef
  <2>2. \A k \in Calls : call'[k] \notin {"store", "wait"}
    BY <1>1
  <2>3. \A t \in Streams, c \in Stages : handler'[t].pc # "ended" => PacketsAt(t, c)' = {}
    BY <1>2, <1>4, <2>1
  <2> QED  BY <2>2, <2>3 DEF Current
<1>9. CurrentOK' /\ FuturesOK'
  BY <1>1, <1>8 DEF CurrentOK, FuturesOK, NoZombieFuture
<1> QED  BY <1>5, <1>6, <1>7, <1>9

-----------------------------------------------------------------------------
(* Streams that were never opened, and the count of handlers.               *)

LEMMA UnusedStep == IInv /\ Next => UnusedOK'
<1> SUFFICES ASSUME IInv, Next, NEW t \in Streams, conn'[t] = "none" PROVE Unused(t)'
  BY DEF UnusedOK
<1>0. /\ handler \in [Streams -> TcLoops] /\ tcOut \in [Streams -> SUBSET Messages]
      /\ tcSender \in [Streams -> {"off", "on"}] /\ down \in [Streams -> Seq(Messages)]
      /\ up \in [Streams -> Seq(Answers)] /\ conn \in [Streams -> {"none", "up", "broken"}]
      /\ rmSender \in [Streams -> {"off", "on", "late"}] /\ rmOut \in [Streams -> SUBSET Answers]
      /\ rm \in RmLoops
  BY DEF IInv, TypeOK, TcTypes, NetTypes, RmTypes
<1>1. conn[t] = "none" /\ \A s \in Streams : Connect(s) => s # t
  <2>1. CASE UNCHANGED conn
    BY <1>0, <2>1 DEF Connect
  <2>2. ASSUME NEW s \in Streams, Connect(s) \/ Break(s) PROVE conn[t] = "none" /\ (Connect(s) => s # t)
    BY <1>0, <2>2 DEF Connect, Break
  <2>3. CASE TcCrash \/ RmCrash
    BY <2>3 DEF TcCrash, RmCrash, AllBroken, Connect
  <2>4. UNCHANGED conn \/ (\E s \in Streams : Connect(s) \/ Break(s)) \/ TcCrash \/ RmCrash
    BY DEF Next, CallStep, QueueNotReady, HandOff, StoreFuture, Timeout, HandlerStep, Enter, Open,
           Recv, Deliver, DeleteFuture, RecvError, ExitLoad, ExitStore, SenderStep, Send, SendFails,
           RmSenderStep, SendAnswer, SendAnswerFails, LateExits, HandAnswerLate, RmStep, Execute,
           HandAnswer, Reconnect, RegisterResource, Panic, netVars
  <2> QED  BY <2>1, <2>2, <2>3, <2>4 DEF Connect
<1>2. Unused(t)
  BY <1>1 DEF IInv, UnusedOK
<1>3. /\ handler[t].pc = "none" /\ handler[t] = Loop("none") /\ tcSender[t] = "off" /\ tcOut[t] = {}
      /\ down[t] = <<>> /\ up[t] = <<>> /\ rmOut[t] = {} /\ rmSender[t] = "off" /\ rm.stream # t
  BY <1>2 DEF Unused, Loop
<1>4. ASSUME NEW k \in Calls, CallStep(k) \/ QueueNotReady(k) PROVE Unused(t)'
  BY <1>2, <1>4 DEF CallStep, StoreFuture, Timeout, QueueNotReady, netVars, rmVars, Unused
<1>5. ASSUME NEW k \in Calls, NEW s \in Streams, HandOff(k, s) PROVE Unused(t)'
  BY <1>0, <1>2, <1>3, <1>5 DEF HandOff, Parked, netVars, rmVars, Unused
<1>6. ASSUME NEW s \in Streams, HandlerStep(s) PROVE Unused(t)'
  <2>1. s # t /\ UNCHANGED <<tcOut, down, rmOut, rmSender, rm>>
    BY <1>1, <1>3, <1>6 DEF HandlerStep, Enter, Open, Recv, Deliver, DeleteFuture, RecvError, ExitLoad,
       ExitStore, netVars, rmVars
  <2>2. handler'[t] = handler[t]
    BY <1>0, <1>6, <2>1 DEF HandlerStep, Enter, Open, Recv, Deliver, DeleteFuture, RecvError, ExitLoad,
       ExitStore, Goto
  <2>3. tcSender'[t] = tcSender[t]
    BY <1>0, <1>6, <2>1 DEF HandlerStep, Enter, Open, Recv, Deliver, DeleteFuture, RecvError, ExitLoad,
       ExitStore
  <2>4. up'[t] = up[t]
    BY <1>0, <1>6, <2>1 DEF HandlerStep, Enter, Open, Recv, Deliver, DeleteFuture, RecvError, ExitLoad,
       ExitStore, netVars
  <2> QED  BY <1>3, <2>1, <2>2, <2>3, <2>4 DEF Unused
<1>7. ASSUME NEW s \in Streams, SenderStep(s) PROVE Unused(t)'
  BY <1>0, <1>2, <1>3, <1>7 DEF SenderStep, Send, SendFails, netVars, rmVars, Unused
<1>8. ASSUME NEW s \in Streams, RmSenderStep(s) \/ HandAnswerLate(s) PROVE Unused(t)'
  <2>1. s # t /\ rm'.stream # t
    BY <1>3, <1>8 DEF RmSenderStep, SendAnswer, SendAnswerFails, LateExits, HandAnswerLate, RmLoop
  <2> QED  BY <1>0, <1>3, <1>8, <2>1 DEF RmSenderStep, SendAnswer, SendAnswerFails, LateExits,
             HandAnswerLate, tcVars, netVars, Unused
<1>9. ASSUME NEW s \in Streams, Connect(s) PROVE Unused(t)'
  <2>1. s # t /\ rm'.stream # t /\ rmSender'[t] = rmSender[t]
    BY <1>0, <1>1, <1>9 DEF Connect, RmLoop
  <2> QED  BY <1>3, <1>9, <2>1 DEF Connect, tcVars, Unused
<1>10. CASE (\E r \in Results : Execute(r)) \/ Panic
  <2>1. /\ rm'.stream = rm.stream /\ down' = [down EXCEPT ![rm.stream] = Tail(@)]
        /\ UNCHANGED <<tcVars, up, rmSender, rmOut>>
    BY <1>0, <1>10 DEF Execute, Panic, RmLoops
  <2> QED  BY <1>0, <1>3, <2>1 DEF tcVars, Unused
<1>11. CASE HandAnswer \/ Reconnect
  <2>1. NoStream # t
    BY StreamAssumption
  <2>2. rm'.stream # t /\ rm.stream # t
    BY <1>3, <1>11, <2>1 DEF HandAnswer, Reconnect, RmLoop
  <2> QED  BY <1>0, <1>3, <1>11, <2>2 DEF HandAnswer, Reconnect, tcVars, netVars, Unused
<1>12. CASE RegisterResource \/ \E s \in Streams : Break(s)
  BY <1>2, <1>12 DEF RegisterResource, Break, tcVars, netVars, rmVars, Unused
<1>13. CASE TcCrash
  BY <1>1, <1>3, <1>13 DEF TcCrash, rmVars, Unused
<1>14. CASE RmCrash
  <2>1. NoStream # t
    BY StreamAssumption
  <2>2. rm'.stream # t
    BY <1>14, <2>1 DEF RmCrash, RmLoop
  <2> QED  BY <1>3, <1>14, <2>2 DEF RmCrash, tcVars, Unused
<1> QED  BY <1>4, <1>5, <1>6, <1>7, <1>8, <1>9, <1>10, <1>11, <1>12, <1>13, <1>14 DEF Next, RmStep

\* The step of one handler changes the count if it starts or ends to be counted.
Counted == Looping \cup {"exitLoad", "exitStore"}

LEMMA CountOne ==
  ASSUME IInv, NEW s \in Streams, \A t \in Streams \ {s} : handler'[t] = handler[t],
         LET d == count' - count
             in(pc) == pc \in Counted
         IN \/ (in(handler[s].pc) <=> in(handler'[s].pc)) /\ UNCHANGED <<count, raced>>
            \/ /\ ~in(handler[s].pc) /\ in(handler'[s].pc)
               /\ ~raced' => ~raced /\ count' = count + 1
            \/ /\ in(handler[s].pc) /\ ~in(handler'[s].pc)
               /\ ~raced' => ~raced /\ count' = count - 1
  PROVE  CountOK'
<1> DEFINE C == CountedHandlers
<1>1. /\ C = {t \in Streams : handler[t].pc \in Counted} /\ C' = {t \in Streams : handler'[t].pc \in Counted}
      /\ IsFiniteSet(C) /\ (~raced => count = Cardinality(C)) /\ Cardinality(C) \in Nat
  BY FS_CardinalityType DEF CountedHandlers, Counted, IInv, CountOK, CountUnlessRaced
<1>2. CASE (handler[s].pc \in Counted <=> handler'[s].pc \in Counted) /\ UNCHANGED <<count, raced>>
  <2>1. C' = C
    BY <1>1, <1>2
  <2> QED  BY <1>1, <1>2, <2>1 DEF CountOK, CountUnlessRaced
<1>3. CASE /\ handler[s].pc \notin Counted /\ handler'[s].pc \in Counted
           /\ ~raced' => ~raced /\ count' = count + 1
  <2>1. C' = C \cup {s} /\ s \notin C
    BY <1>1, <1>3
  <2>2. IsFiniteSet(C \cup {s}) /\ Cardinality(C \cup {s}) = Cardinality(C) + 1
    BY <1>1, <2>1, FS_AddElement
  <2>3. IsFiniteSet(C') /\ Cardinality(C') = Cardinality(C) + 1
    BY <2>1, <2>2
  <2> QED  BY <1>1, <1>3, <2>3 DEF CountOK, CountUnlessRaced
<1>4. CASE /\ handler[s].pc \in Counted /\ handler'[s].pc \notin Counted
           /\ ~raced' => ~raced /\ count' = count - 1
  <2>1. C' = C \ {s} /\ s \in C
    BY <1>1, <1>4
  <2>2. IsFiniteSet(C \ {s}) /\ Cardinality(C \ {s}) = Cardinality(C) - 1
    BY <1>1, <2>1, FS_RemoveElement
  <2>3. IsFiniteSet(C') /\ Cardinality(C') = Cardinality(C) - 1
    BY <2>1, <2>2
  <2> QED  BY <1>1, <1>4, <2>3 DEF CountOK, CountUnlessRaced
<1> QED  BY <1>2, <1>3, <1>4

LEMMA CountStep == IInv /\ Next => CountOK'
<1> SUFFICES ASSUME IInv, Next PROVE CountOK'
  OBVIOUS
<1>0. handler \in [Streams -> TcLoops] /\ count \in Int
  BY DEF IInv, TypeOK, TcTypes
<1>1. CASE UNCHANGED <<handler, count, raced>>
  BY <1>1 DEF IInv, CountOK, CountUnlessRaced, CountedHandlers
<1>2. ASSUME NEW s \in Streams, HandlerStep(s) PROVE CountOK'
  <2>1. \A t \in Streams \ {s} : handler'[t] = handler[t]
    BY <1>0, <1>2 DEF HandlerStep, Enter, Open, Recv, Deliver, DeleteFuture, RecvError, ExitLoad,
       ExitStore, Goto
  <2>2. CASE Open(s)
    <3>1. handler[s].pc = "enter" /\ handler'[s].pc = "recv" /\ (~raced' => ~raced /\ count' = count + 1)
      BY <1>0, <2>2 DEF Open, TcLoops
    <3> QED  BY <2>1, <3>1, CountOne DEF Counted, Looping
  <2>3. CASE ExitStore(s)
    <3>1. handler[s].pc = "exitStore" /\ handler'[s].pc = "ended" /\ (~raced' => ~raced /\ count' = count - 1)
      BY <1>0, <2>3 DEF ExitStore, Loop
    <3> QED  BY <2>1, <3>1, CountOne DEF Counted, Looping
  <2>4. CASE Enter(s) \/ Recv(s) \/ Deliver(s) \/ DeleteFuture(s) \/ RecvError(s) \/ ExitLoad(s)
    <3>1. UNCHANGED <<count, raced>>
      BY <2>4 DEF Enter, Recv, Deliver, DeleteFuture, RecvError, ExitLoad
    <3>2. handler[s].pc \in Counted <=> handler'[s].pc \in Counted
      <4>1. CASE Enter(s)
        BY <1>0, <4>1 DEF Enter, Counted, Looping, TcLoops
      <4>2. CASE Recv(s)
        <5>1. handler[s].pc = "recv" /\ handler'[s].pc \in {"recv", "deliver"}
          BY <1>0, <4>2 DEF Recv, TcLoops
        <5> QED  BY <5>1 DEF Counted, Looping
      <4>3. CASE Deliver(s) \/ RecvError(s)
        BY <1>0, <4>3 DEF Deliver, RecvError, Goto, Counted, Looping, TcLoops
      <4>4. CASE DeleteFuture(s) \/ ExitLoad(s)
        BY <1>0, <4>4 DEF DeleteFuture, ExitLoad, Counted, Looping, Loop, TcLoops
      <4> QED  BY <2>4, <4>1, <4>2, <4>3, <4>4
    <3> QED  BY <2>1, <3>1, <3>2, CountOne
  <2> QED  BY <1>2, <2>2, <2>3, <2>4 DEF HandlerStep
<1>3. CASE TcCrash
  <2>1. CountedHandlers' = {} /\ count' = 0
    BY <1>3 DEF TcCrash, CountedHandlers, Loop, Looping
  <2> QED  BY <2>1, FS_EmptySet DEF CountOK, CountUnlessRaced
<1>4. UNCHANGED <<handler, count, raced>> \/ (\E s \in Streams : HandlerStep(s)) \/ TcCrash
  BY DEF Next, CallStep, QueueNotReady, HandOff, StoreFuture, Timeout, SenderStep, Send, SendFails,
         RmSenderStep, SendAnswer, SendAnswerFails, LateExits, HandAnswerLate, RmStep, Execute, Connect,
         HandAnswer, Reconnect, RegisterResource, Panic, Break, RmCrash, tcVars
<1> QED  BY <1>1, <1>2, <1>3, <1>4

-----------------------------------------------------------------------------
(* The invariant holds, and with it what the streams guarantee.             *)

LEMMA InitInv == Init => IInv
<1> SUFFICES ASSUME Init PROVE IInv
  OBVIOUS
<1>1. TypeOK
  BY InitType
<1>2. /\ \A k \in Calls : call[k] = "idle" /\ ran[k] = NoResult
      /\ \A s \in Streams : /\ handler[s] = Loop("none") /\ handler[s].pc = "none"
                            /\ tcSender[s] = "off" /\ tcOut[s] = {} /\ down[s] = <<>> /\ up[s] = <<>>
                            /\ rmOut[s] = {} /\ rmSender[s] = "off"
      /\ rm.pc = "connect" /\ rm.stream = NoStream /\ futures = {} /\ count = 0
  BY DEF Init, Loop, RmLoop
<1>3. \A s \in Streams, a \in Stages : PacketsAt(s, a) = {}
  BY <1>2, PacketsDef, StagesDef, EmptyElements
<1>4. UnusedOK
  BY <1>2, StreamAssumption DEF UnusedOK, Unused
<1>5. PacketInv
  BY <1>2, <1>3, EmptyElements DEF PacketInv, OnePacket, PacketsOK
<1>6. LoopsOK /\ CallsOK
  BY <1>2 DEF LoopsOK, LoopOK, CallsOK, CallOK
<1>7. Current = {}
  BY <1>2, <1>3 DEF Current
<1>8. CurrentOK /\ FuturesOK
  BY <1>2, <1>7 DEF CurrentOK, FuturesOK, NoZombieFuture
<1>9. CountOK
  <2>1. CountedHandlers = {}
    BY <1>2 DEF CountedHandlers, Looping
  <2> QED  BY <1>2, <2>1, FS_EmptySet DEF CountOK, CountUnlessRaced
<1> QED  BY <1>1, <1>4, <1>5, <1>6, <1>8, <1>9 DEF IInv

LEMMA NextInv == IInv /\ [Next]_vars => IInv'
<1> SUFFICES ASSUME IInv, [Next]_vars PROVE IInv'
  OBVIOUS
<1>1. CASE UNCHANGED vars
  <2>1. UNCHANGED <<call, mid, got, idGenerator, futures, handler, tcSender, tcOut, count, raced,
                    conn, down, up, rm, rmSender, rmOut, registered, ran, faults>>
    BY <1>1 DEF vars, callVars, tcVars, netVars, rmVars
  <2>2. Dropping /\ LoopsKept /\ Streamwise' /\ TypeOK'
    BY <1>1, <2>1, Untouched, NextType DEF IInv
  <2>3. (PacketInv /\ LoopsOK /\ CallsOK /\ CurrentOK /\ FuturesOK)'
    BY <2>1, <2>2, QuietKeeps DEF callVars
  <2>4. UnusedOK' /\ CountOK'
    BY <2>1 DEF IInv, UnusedOK, Unused, CountOK, CountUnlessRaced, CountedHandlers
  <2> QED  BY <2>2, <2>3, <2>4 DEF IInv
<1>2. CASE Next
  <2>1. TypeOK' /\ UnusedOK' /\ CountOK'
    BY <1>2, NextType, UnusedStep, CountStep DEF IInv
  <2>2. (PacketInv /\ LoopsOK /\ CallsOK /\ CurrentOK /\ FuturesOK)'
    <3>1. ASSUME NEW k \in Calls, CallStep(k) PROVE (PacketInv /\ LoopsOK /\ CallsOK /\ CurrentOK /\ FuturesOK)'
      BY <2>1, <3>1, CallGoesOn, StoreFutureFutures, TimeoutFutures DEF CallStep
    <3>2. ASSUME NEW k \in Calls, QueueNotReady(k) \/ \E s \in Streams : HandOff(k, s)
          PROVE  (PacketInv /\ LoopsOK /\ CallsOK /\ CurrentOK /\ FuturesOK)'
      BY <2>1, <3>2, QueueNotReadyKeeps, HandOffKeeps
    <3>3. ASSUME NEW s \in Streams, HandlerStep(s) PROVE (PacketInv /\ LoopsOK /\ CallsOK /\ CurrentOK /\ FuturesOK)'
      BY <2>1, <3>3, HandlerQuietStep, RecvKeeps, DeliverKeeps, DeleteFutureKeeps DEF HandlerStep
    <3>4. ASSUME NEW s \in Streams, SenderStep(s) \/ RmSenderStep(s) \/ HandAnswerLate(s)
          PROVE  (PacketInv /\ LoopsOK /\ CallsOK /\ CurrentOK /\ FuturesOK)'
      BY <2>1, <3>4, SendKeeps, SendAnswerKeeps, QuietStep DEF SenderStep, RmSenderStep
    <3>5. ASSUME NEW s \in Streams, Connect(s) \/ Break(s)
          PROVE  (PacketInv /\ LoopsOK /\ CallsOK /\ CurrentOK /\ FuturesOK)'
      BY <2>1, <3>5, QuietStep
    <3>6. CASE (\E r \in Results : Execute(r)) \/ HandAnswer \/ Panic
      BY <2>1, <3>6, ExecuteKeeps, HandAnswerKeeps, PanicKeeps
    <3>7. CASE Reconnect \/ RegisterResource \/ RmCrash
      <4>1. UNCHANGED <<callVars, idGenerator, futures, ran, handler, down, up>>
            /\ (rm'.pc = "answer" => rm' = rm)
        BY <3>7 DEF Reconnect, RegisterResource, RmCrash, tcVars, netVars, rmVars, RmLoop
      <4>2. \A t \in Streams : tcOut'[t] \subseteq tcOut[t] /\ rmOut'[t] \subseteq rmOut[t]
        BY <3>7 DEF Reconnect, RegisterResource, RmCrash, tcVars, rmVars
      <4> QED  BY <2>1, <4>1, <4>2, Untouched, QuietKeeps
    <3>8. CASE TcCrash
      BY <2>1, <3>8, TcCrashKeeps
    <3> QED  BY <1>2, <3>1, <3>2, <3>3, <3>4, <3>5, <3>6, <3>7, <3>8 DEF Next, RmStep
  <2> QED  BY <2>1, <2>2 DEF IInv
<1> QED  BY <1>1, <1>2

\* The inductive invariant holds, for every behaviour of calls, streams, faults and restarts.
THEOREM Invariance == Spec => []IInv
  BY InitInv, NextInv, PTL DEF Spec

\* Every variable of the branch streams keeps its type.
THEOREM TypeCorrect == Spec => []TypeOK
<1>1. IInv => TypeOK
  BY DEF IInv
<1> QED  BY <1>1, Invariance, PTL

\* A call is answered only with what the RM did for this very call, for any number of restarts
\* of the TC (BranchCommunicate finds the future by branchMessage.ID, an identifier that starts
\* again at 1).
THEOREM AnswersAreOwn == Spec => []AnswerIsOwn
<1>1. IInv => AnswerIsOwn
  BY DEF IInv, CallsOK, CallOK, AnswerIsOwn
<1> QED  BY <1>1, Invariance, PTL

\* A future stays in the map only while its call waits, or between Done and Delete of the loop
\* that answers it.
THEOREM NoZombies == Spec => []NoZombieFuture
<1>1. IInv => NoZombieFuture
  BY DEF IInv, FuturesOK
<1> QED  BY <1>1, Invariance, PTL

\* At most one receive loop of the TC is ever held up by one call (future.Done has no reader).
THEOREM OneLoopHeld == Spec => []OneLoopPerCall
<1>1. IInv => OneLoopPerCall
  BY LoopsApart DEF OneLoopPerCall
<1> QED  BY <1>1, Invariance, PTL

\* activeApplications is the number of handlers, unless an update of it was lost.
THEOREM CountHolds == Spec => []CountUnlessRaced
<1>1. IInv => CountUnlessRaced
  BY DEF IInv, CountOK
<1> QED  BY <1>1, Invariance, PTL

\* The TC never drops the answer of a call that waits for it (BranchCommunicate).
THEOREM WaitingHeard == Spec => WaitingIsHeard
<1> DEFINE A == \A s \in Streams :
                  handler[s].pc = "recv" /\ handler'[s] = handler[s] /\ up[s] # <<>> /\ up'[s] = Tail(up[s])
                    => call[Head(up[s]).call] # "wait"
<1>1. IInv /\ [Next]_vars => [A]_vars
  <2> SUFFICES ASSUME IInv, Next, NEW s \in Streams, handler[s].pc = "recv", handler'[s] = handler[s],
                      up[s] # <<>>, up'[s] = Tail(up[s])
               PROVE  call[Head(up[s]).call] # "wait"
    OBVIOUS
  <2>0. /\ handler \in [Streams -> TcLoops] /\ up \in [Streams -> Seq(Answers)]
        /\ rmOut \in [Streams -> SUBSET Answers] /\ up[s] \in Seq(Answers)
    BY DEF IInv, TypeOK, TcTypes, NetTypes, RmTypes
  <2>1. /\ Len(up[s]) \in Nat /\ Len(Tail(up[s])) = Len(up[s]) - 1 /\ Tail(up[s]) # up[s]
        /\ up'[s] # up[s] /\ \A a \in Answers : up'[s] # Append(up[s], a)
    <3>1. Len(up[s]) \in Nat /\ Len(Tail(up[s])) = Len(up[s]) - 1
      BY <2>0, HeadTailProperties
    <3>2. \A a \in Answers : Len(Append(up[s], a)) = Len(up[s]) + 1
      BY <2>0, AppendProperties
    <3>3. Tail(up[s]) # up[s]
      BY <2>0, TailElements DEF IInv, PacketInv, OnePacket
    <3>4. \A a \in Answers : Tail(up[s]) # Append(up[s], a)
      BY <3>1, <3>2
    <3> QED  BY <3>1, <3>3, <3>4
  <2>2. PICK t \in Streams : SendAnswer(t) \/ Recv(t)
    <3>1. ~UNCHANGED up
      BY <2>1
    <3>2. UNCHANGED up \/ \E t \in Streams : SendAnswer(t) \/ Recv(t)
      BY DEF Next, CallStep, QueueNotReady, HandOff, StoreFuture, Timeout, HandlerStep, Enter, Open,
             Deliver, DeleteFuture, RecvError, ExitLoad, ExitStore, SenderStep, Send, SendFails,
             RmSenderStep, SendAnswerFails, LateExits, HandAnswerLate, RmStep, Execute, Connect,
             HandAnswer, Reconnect, RegisterResource, Panic, Break, TcCrash, RmCrash, netVars
    <3> QED  BY <3>1, <3>2
  <2>3. ~SendAnswer(t)
    <3> SUFFICES ASSUME SendAnswer(t) PROVE FALSE
      OBVIOUS
    <3>1. PICK a \in rmOut[t] : up' = [up EXCEPT ![t] = Append(up[t], a)]
      BY DEF SendAnswer
    <3>2. a \in Answers /\ (t = s => up'[s] = Append(up[s], a))
      BY <2>0, <3>1
    <3>3. t # s => up'[s] = up[s]
      BY <2>0, <3>1
    <3> QED  BY <2>1, <3>2, <3>3
  <2>4. Recv(t) /\ t = s
    <3>1. Recv(t)
      BY <2>2, <2>3
    <3>2. t # s => up'[s] = up[s]
      BY <2>0, <3>1 DEF Recv
    <3> QED  BY <2>1, <3>1, <3>2
  <2>5. PICK a : a = Head(up[s])
    OBVIOUS
  <2>6. \A f \in futures : f[1] # a.id
    <3> SUFFICES ASSUME NEW f \in futures, f[1] = a.id PROVE FALSE
      OBVIOUS
    <3>1. PICK k : handler' = [handler EXCEPT ![s].pc = "deliver", ![s].to = k, ![s].answer = a]
      BY <2>4, <2>5 DEF Recv
    <3>2. handler'[s].pc = "deliver"
      BY <2>0, <3>1 DEF TcLoops
    <3> QED  BY <3>2
  <2>7. call[a.call] = "wait" => <<a.id, a.call>> \in futures
    BY <2>5, Answered
  <2> QED  BY <2>5, <2>6, <2>7
<1> QED  BY <1>1, Invariance, PTL DEF Spec, WaitingIsHeard

-----------------------------------------------------------------------------
(* Refinement: which step of BranchCall each step is.                       *)

Phase == [k \in Calls |-> PhaseOf(k)]
Told  == [k \in Calls |-> got[k].result]

\* A step that changes no call's phase, nor what was done for it or what it was told.
LEMMA Stutter ==
  ASSUME UNCHANGED <<got, ran>>, \A k \in Calls : PhaseOf(k)' = PhaseOf(k)
  PROVE  UNCHANGED Abstract!vars
  BY DEF Abstract!vars

LEMMA CallRefines ==
  ASSUME IInv, NEW k \in Calls,
         CallStep(k) \/ QueueNotReady(k) \/ \E s \in Streams : HandOff(k, s)
  PROVE  Abstract!Next \/ UNCHANGED Abstract!vars
<1>0. call \in [Calls -> {"idle", "store", "wait", "refused", "answered", "failed"}]
  BY DEF IInv, TypeOK, CallTypes
<1>1. UNCHANGED <<got, ran>> /\ \A l \in Calls \ {k} : call'[l] = call[l]
  BY <1>0 DEF CallStep, StoreFuture, Timeout, QueueNotReady, HandOff, rmVars
<1>2. \A l \in Calls \ {k} : PhaseOf(l)' = PhaseOf(l)
  BY <1>1 DEF PhaseOf
<1>3. CASE StoreFuture(k)
  <2>1. PhaseOf(k)' = PhaseOf(k)
    BY <1>0, <1>3 DEF StoreFuture, PhaseOf
  <2> QED  BY <1>1, <1>2, <2>1, Stutter
<1>4. CASE Timeout(k)
  <2>1. PhaseOf(k) = "pending" /\ PhaseOf(k)' = "failed"
    BY <1>0, <1>4 DEF Timeout, PhaseOf
  <2>2. Abstract!Fail({k})
    BY <1>1, <1>2, <2>1 DEF Abstract!Fail
  <2> QED  BY <2>2 DEF Abstract!Next
<1>5. CASE QueueNotReady(k)
  <2>1. PhaseOf(k) = "idle" /\ PhaseOf(k)' = "refused"
    BY <1>0, <1>5 DEF QueueNotReady, PhaseOf
  <2>2. Abstract!Refuse(k)
    BY <1>1, <1>2, <2>1 DEF Abstract!Refuse
  <2> QED  BY <2>2 DEF Abstract!Next
<1>6. ASSUME NEW s \in Streams, HandOff(k, s) PROVE Abstract!Next
  <2>1. PhaseOf(k) = "idle" /\ PhaseOf(k)' = "pending"
    BY <1>0, <1>6 DEF HandOff, PhaseOf
  <2>2. Abstract!Send(k)
    BY <1>1, <1>2, <2>1 DEF Abstract!Send
  <2> QED  BY <2>2 DEF Abstract!Next
<1> QED  BY <1>3, <1>4, <1>5, <1>6 DEF CallStep

LEMMA DeliverRefines ==
  ASSUME IInv, NEW s \in Streams, Deliver(s)
  PROVE  Abstract!Next
<1>0. /\ call \in [Calls -> {"idle", "store", "wait", "refused", "answered", "failed"}]
      /\ got \in [Calls -> Answers \cup {NoAnswer}]
  BY DEF IInv, TypeOK, CallTypes
<1>1. PICK k, a : k = handler[s].to /\ a = handler[s].answer
  OBVIOUS
<1>2. k \in Calls /\ a \in Answers /\ a.result = ran[k]
  BY <1>1, LoopPacket DEF Deliver
<1>3. /\ call[k] = "wait" /\ call'[k] = "answered" /\ got' = [got EXCEPT ![k] = a]
      /\ \A l \in Calls \ {k} : call'[l] = call[l] /\ got'[l] = got[l]
      /\ UNCHANGED ran
  BY <1>0, <1>1, <1>2 DEF Deliver, rmVars
<1>4. PhaseOf(k) = "pending" /\ PhaseOf(k)' = "answered" /\ \A l \in Calls \ {k} : PhaseOf(l)' = PhaseOf(l)
  BY <1>3 DEF PhaseOf
<1>5. ran[k] # NoResult /\ got'[k].result = ran[k]
  BY <1>0, <1>2, <1>3, StreamAssumption DEF Answers
<1>6. Abstract!Answer(k)
  <2>1. Phase[k] = "pending" /\ Phase' = [Phase EXCEPT ![k] = "answered"]
    BY <1>2, <1>4 DEF Phase
  <2>2. Told' = [Told EXCEPT ![k] = ran[k]]
    <3>1. \A l \in Calls : got'[l].result = IF l = k THEN ran[k] ELSE got[l].result
      BY <1>3, <1>5
    <3>2. [l \in Calls |-> got'[l].result] = [[l \in Calls |-> got[l].result] EXCEPT ![k] = ran[k]]
      BY <1>2, <3>1
    <3> QED  BY <3>2 DEF Told
  <2> QED  BY <1>3, <1>5, <2>1, <2>2 DEF Abstract!Answer, Phase, Told
<1> QED  BY <1>2, <1>6 DEF Abstract!Next

LEMMA ExecuteRefines ==
  ASSUME IInv, (\E r \in Results : Execute(r)) \/ Panic
  PROVE  Abstract!Next
<1>1. PICK s, m : s = rm.stream /\ m = Head(down[s])
  OBVIOUS
<1>2. PICK r \in Results : ran' = [ran EXCEPT ![m.call] = r]
  BY <1>1 DEF Execute, Panic, Results
<1>3. /\ s # NoStream /\ down[s] # <<>> /\ down' = [down EXCEPT ![s] = Tail(down[s])]
      /\ UNCHANGED <<call, got, up>>
  BY <1>1 DEF Execute, Panic, callVars
<1>4. s \in Streams /\ m \in PacketsAt(s, "down") /\ m \in Messages /\ "down" \in Stages
  BY <1>1, <1>3, TakeMessage, StagesDef
<1>5. m.call \in Calls /\ call[m.call] \in Sent /\ ran[m.call] = NoResult
  <2>1. PacketOK(m, "down")
    BY <1>4 DEF IInv, PacketInv, PacketsOK
  <2> QED  BY <1>4, <2>1 DEF PacketOK, MessageStages, Messages, Sent
<1>6. PhaseOf(m.call) \in {"pending", "failed"} /\ \A k \in Calls : PhaseOf(k)' = PhaseOf(k)
  BY <1>3, <1>5 DEF PhaseOf, Sent
<1>7. Abstract!Execute(m.call, r)
  BY <1>2, <1>3, <1>5, <1>6 DEF Abstract!Execute
<1> QED  BY <1>5, <1>7 DEF Abstract!Next

LEMMA CrashRefines ==
  ASSUME IInv, TcCrash
  PROVE  Abstract!Next \/ UNCHANGED Abstract!vars
<1> DEFINE K == {k \in Calls : call[k] \in {"store", "wait"}}
<1>1. /\ UNCHANGED <<got, ran>>
      /\ call' = [k \in Calls |-> IF k \in K THEN "failed" ELSE call[k]]
  BY DEF TcCrash, rmVars
<1>2. \A k \in Calls : PhaseOf(k)' = IF k \in K THEN "failed" ELSE PhaseOf(k)
  BY <1>1 DEF PhaseOf
<1>3. \A k \in K : PhaseOf(k) = "pending"
  BY DEF PhaseOf
<1>4. CASE K = {}
  BY <1>1, <1>2, <1>4, Stutter
<1>5. CASE K # {}
  <2>1. K \in SUBSET Calls
    OBVIOUS
  <2>2. Abstract!Fail(K)
    BY <1>1, <1>2, <1>3, <1>5 DEF Abstract!Fail
  <2> QED  BY <2>1, <2>2 DEF Abstract!Next
<1> QED  BY <1>4, <1>5

\* The caller of branchCommit or branchRollback sees a call of BranchCall, for any number of
\* calls, streams, faults and restarts.
THEOREM Refinement == Spec => ImplementsBranchCall
<1>1. Init => Abstract!Init
  <2> SUFFICES ASSUME Init PROVE Abstract!Init
    OBVIOUS
  <2>1. \A k \in Calls : PhaseOf(k) = "idle" /\ got[k].result = NoResult
    BY DEF Init, PhaseOf, NoAnswer
  <2> QED  BY <2>1 DEF Init, Abstract!Init
<1>2. IInv /\ [Next]_vars => [Abstract!Next]_(Abstract!vars)
  <2> SUFFICES ASSUME IInv, [Next]_vars PROVE Abstract!Next \/ UNCHANGED Abstract!vars
    OBVIOUS
  <2>1. CASE UNCHANGED <<callVars, ran>>
    BY <2>1, Stutter DEF callVars, PhaseOf
  <2>2. ASSUME NEW k \in Calls, CallStep(k) \/ QueueNotReady(k) \/ \E s \in Streams : HandOff(k, s)
        PROVE  Abstract!Next \/ UNCHANGED Abstract!vars
    BY <2>2, CallRefines
  <2>3. CASE \E s \in Streams : Deliver(s)
    BY <2>3, DeliverRefines
  <2>4. CASE (\E r \in Results : Execute(r)) \/ Panic
    BY <2>4, ExecuteRefines
  <2>5. CASE TcCrash
    BY <2>5, CrashRefines
  <2>6. \/ UNCHANGED <<callVars, ran>>
        \/ \E k \in Calls : CallStep(k) \/ QueueNotReady(k) \/ \E s \in Streams : HandOff(k, s)
        \/ (\E s \in Streams : Deliver(s)) \/ (\E r \in Results : Execute(r)) \/ Panic \/ TcCrash
    BY DEF Next, HandlerStep, Enter, Open, Recv, DeleteFuture, RecvError, ExitLoad, ExitStore,
           SenderStep, Send, SendFails, RmSenderStep, SendAnswer, SendAnswerFails, LateExits,
           HandAnswerLate, RmStep, Connect, HandAnswer, Reconnect, RegisterResource, Break, RmCrash,
           rmVars, vars
  <2> QED  BY <2>2, <2>1, <2>3, <2>4, <2>5, <2>6
<1> QED  BY Invariance, <1>1, <1>2, PTL DEF Spec, Abstract!Spec, ImplementsBranchCall

=============================================================================
