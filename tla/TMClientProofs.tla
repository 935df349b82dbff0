---------------------------- MODULE TMClientProofs ----------------------------
(***************************************************************************)
(* Proofs about TMClient, for any number of calls and retries.             *)
(***************************************************************************)
EXTENDS TMClient, SequenceTheorems, TLAPS

Finals == {"ok", "error"}
Working == {"begin", "run", "plain"}
Active(i) == call[i].pc \notin {"none", "returned"}

\* What a call can know: transactions begun elsewhere, by itself, or by an earlier call.
Known(i) == {Remote, None} \cup 1 .. i

\* What the fields of a call mean at each point of its progress.
Shape(i, c) ==
  /\ c.value \in Known(i) /\ c.local \in Known(i) /\ c.xid \in Known(i) /\ c.held \in Known(i)
  /\ c.role = "Launcher" => c.xid \in {None, i}
  /\ c.pc = "none" => c = NewCall
  /\ c.pc \in Working => c.method = "none" /\ (c.held # None => c.local = None)
  /\ c.pc \in {"begin", "run"} /\ c.role = "Participant" => c.local \in {c.xid, None}
  /\ c.pc = "begin" /\ c.role = "Launcher" => c.xid = None /\ c.local = None /\ c.held = None
  /\ c.pc = "plain" => c.local = None /\ (c.role = "Launcher" => c.xid = None)
  /\ c.pc = "run" /\ c.role = "Launcher" => c.xid = i /\ c.local = i /\ c.held = None
  /\ c.pc \in Decisions => /\ c.role = "Launcher" /\ c.xid = i /\ c.local = i /\ c.held = None
                           /\ c.method \in Finals /\ c.pc = Decision(c.method)
  /\ c.pc = "returned" /\ c.method \in Finals /\ c.local # None => c.held = c.local

ShapeOK == \A i \in Calls : Shape(i, call[i])

\* The stack is in the order of the calls and holds every call under way.
StackOK ==
  /\ \A k \in 1 .. Len(stack) : stack[k] \in 1 .. made
  /\ \A k, l \in 1 .. Len(stack) : k < l => stack[k] < stack[l]
  /\ \A i \in Calls : Active(i) => \E k \in 1 .. Len(stack) : stack[k] = i
  /\ \A i \in Calls : i > made => call[i].pc = "none"

JoinedOK ==
  \A i \in Calls :
    call[i].pc = "none" \/ (call[i].held # None /\ call[i].pc \in Working) => joined[i] = None

AskedOK ==
  \A x \in Xids : \A d \in asked[x] :
    /\ Launches(x, x) /\ call[x].pc \in Decisions \cup {"returned"}
    /\ call[x].method = IF d = "commit" THEN "ok" ELSE "error"

BegunOK ==
  \A x \in begun \ abandoned :
    asked[x] # {} \/ (Launches(x, x) /\ call[x].pc \in Decisions \cup {"run"})

IInv == TypeOK /\ ShapeOK /\ StackOK /\ JoinedOK /\ AskedOK /\ BegunOK /\ SuccessIsAcknowledged

-----------------------------------------------------------------------------
(* The records of calls. *)

\* A context before its call is a record of the type.
LEMMA NewCallType == NewCall \in CallRecords
  BY RetryAssumption DEF NewCall, CallRecords, AnyXid

\* What Resume and the return of the proxy do to a call.
LEMMA ReturnedFields ==
  ASSUME NEW c \in CallRecords, NEW r \in {"none", "ok", "error", "panic"}
  PROVE  /\ Returned(c, r) \in CallRecords
         /\ Returned(c, r).pc = "returned" /\ Returned(c, r).result = r
         /\ Returned(c, r).local = (IF c.held # None THEN c.held ELSE c.local)
         /\ Returned(c, r).value = c.value /\ Returned(c, r).xid = c.xid
         /\ Returned(c, r).role = c.role /\ Returned(c, r).held = c.held
         /\ Returned(c, r).method = c.method /\ Returned(c, r).acked = c.acked
  BY DEF Returned, Resume, CallRecords

\* What the end of Commit and Rollback does to a call.
LEMMA UnbindFields ==
  ASSUME NEW c \in CallRecords
  PROVE  /\ Unbind(c) \in CallRecords
         /\ Unbind(c).local = (IF c.local = c.xid THEN None ELSE c.local)
         /\ Unbind(c).value = c.value /\ Unbind(c).xid = c.xid /\ Unbind(c).pc = c.pc
         /\ Unbind(c).role = c.role /\ Unbind(c).held = c.held
         /\ Unbind(c).method = c.method /\ Unbind(c).acked = c.acked
  BY DEF Unbind, CallRecords, AnyXid

\* How a call begins, for every context and propagation.
LEMMA PropagateFields ==
  ASSUME NEW v \in AnyXid, NEW prop \in Propagations,
         NEW c, c = Propagate(prop, GetCurrentOrCreate(NewRootContext(v)))
  PROVE  /\ c \in CallRecords /\ c.pc \in {"begin", "plain", "returned"}
         /\ c.method = "none" /\ c.result # "ok"
         /\ c.value = v /\ c.xid = v /\ c.role = (IF v = None THEN "Launcher" ELSE "Participant")
         /\ c.held \in {v, None} /\ c.local \in {v, None}
         /\ c.pc # "returned" /\ c.held # None => c.local = None
         /\ c.pc = "plain" => c.local = None
  <1> DEFINE a == [NewCall EXCEPT !.value = v, !.local = v]
             b == IF v # None THEN [a EXCEPT !.xid = v, !.role = "Participant"] ELSE a
  <1>1. /\ a \in CallRecords /\ a.pc = "none" /\ a.method = "none" /\ a.result = "none"
        /\ a.value = v /\ a.local = v /\ a.xid = None /\ a.role = "Launcher" /\ a.held = None
    BY NewCallType DEF CallRecords, NewCall
  <1>2. b = GetCurrentOrCreate(NewRootContext(v))
    BY <1>1 DEF GetCurrentOrCreate, NewRootContext, InGlobalTransaction
  <1> HIDE DEF a
  <1>3. /\ b \in CallRecords /\ b.pc = "none" /\ b.method = "none" /\ b.result = "none"
        /\ b.value = v /\ b.local = v /\ b.xid = v /\ b.held = None
        /\ b.role = (IF v = None THEN "Launcher" ELSE "Participant")
    BY <1>1 DEF CallRecords
  <1> HIDE DEF b
  <1>4. c = Propagate(prop, b)
    BY <1>2
  <1>5. /\ Suspend(b) \in CallRecords /\ Suspend(b).held = v /\ Suspend(b).local = None
        /\ Suspend(b).value = v /\ Suspend(b).xid = v /\ Suspend(b).role = b.role
        /\ Suspend(b).method = "none" /\ Suspend(b).result = "none"
    BY <1>3 DEF Suspend, CallRecords, AnyXid
  <1> DEFINE e == Suspend(b)
  <1> HIDE DEF e
  <1>6. CASE prop = "Required"
    <2>1. c = [b EXCEPT !.pc = "begin"]
      BY <1>4, <1>6 DEF Propagate
    <2> QED
      BY <2>1, <1>3 DEF CallRecords
  <1>7. CASE prop \in {"RequiresNew", "NotSupported"}
    <2>1. c \in {[Suspend(b) EXCEPT !.pc = "begin"], [Suspend(b) EXCEPT !.pc = "plain"]}
      BY <1>4, <1>7 DEF Propagate
    <2> QED
      BY <2>1, <1>3, <1>5 DEF CallRecords
  <1>8. CASE prop \in {"Supports", "Never", "Mandatory"}
    <2>1. /\ v # None => c \in {[b EXCEPT !.pc = "begin"], Returned(b, "error")}
          /\ v = None => c \in {[b EXCEPT !.pc = "plain"], Returned(b, "error")}
      BY <1>3, <1>4, <1>8 DEF Propagate, InGlobalTransaction
    <2>2. CASE c = Returned(b, "error")
      BY <2>2, <1>3, ReturnedFields
    <2>3. CASE c # Returned(b, "error")
      BY <2>1, <2>3, <1>3 DEF CallRecords
    <2> QED
      BY <2>2, <2>3
  <1> QED
    BY <1>6, <1>7, <1>8 DEF Propagations

-----------------------------------------------------------------------------
(* The stack. *)

\* A sequence without its last element.
LEMMA Pop ==
  ASSUME NEW S, NEW s \in Seq(S), Len(s) # 0
  PROVE  /\ SubSeq(s, 1, Len(s) - 1) \in Seq(S) /\ Len(SubSeq(s, 1, Len(s) - 1)) = Len(s) - 1
         /\ \A k \in 1 .. Len(s) - 1 : SubSeq(s, 1, Len(s) - 1)[k] = s[k]
  <1>1. PICK n \in Nat : Len(s) = n + 1 /\ n = Len(s) - 1
    OBVIOUS
  <1>2. \A k \in 1 .. n : s[k] \in S
    BY <1>1
  <1>3. /\ SubSeq(s, 1, n) \in Seq(S)
        /\ Len(SubSeq(s, 1, n)) = IF 1 <= n THEN n - 1 + 1 ELSE 0
        /\ \A k \in 1 .. n - 1 + 1 : SubSeq(s, 1, n)[k] = s[1 + k - 1]
    BY <1>2, SubSeqProperties
  <1>4. Len(SubSeq(s, 1, n)) = n /\ \A k \in 1 .. n : SubSeq(s, 1, n)[k] = s[k]
    BY <1>3
  <1> QED
    BY <1>1, <1>3, <1>4

\* The innermost call is a call, and the latest one under way.
LEMMA TopFacts ==
  ASSUME TypeOK, StackOK, Top # 0
  PROVE  /\ Len(stack) \in Nat \ {0} /\ Top = stack[Len(stack)]
         /\ Top \in Calls /\ Top <= made /\ Top \in Nat
         /\ \A i \in Calls : Active(i) => i <= Top
  <1>1. Len(stack) \in Nat /\ Len(stack) # 0 /\ Top = stack[Len(stack)]
    BY DEF Top, TypeOK
  <1>2. Top \in 1 .. made /\ Top \in Calls /\ made \in Nat
    BY <1>1, CallsAssumption DEF TypeOK, StackOK, Calls
  <1>3. ASSUME NEW i \in Calls, Active(i) PROVE i <= Top
    <2>1. PICK k \in 1 .. Len(stack) : stack[k] = i
      BY <1>3 DEF StackOK
    <2>2. k = Len(stack) \/ stack[k] < stack[Len(stack)]
      BY <1>1, <2>1 DEF StackOK
    <2> QED
      BY <1>1, <1>2, <2>1, <2>2 DEF Calls
  <1> QED
    BY <1>1, <1>2, <1>3

\* A step of the innermost call that goes on, or ends and leaves the stack.
LEMMA TopStep ==
  ASSUME IInv, Top # 0, NEW d \in CallRecords, Shape(Top, d), d.pc # "none",
         call' = [call EXCEPT ![Top] = d], UNCHANGED <<made, joined>>,
         IF d.pc = "returned" THEN stack' = SubSeq(stack, 1, Len(stack) - 1) ELSE stack' = stack,
         call[Top].pc \notin {"none", "returned"},
         d.pc \in Working => d.held = call[Top].held /\ call[Top].pc \in Working
  PROVE  /\ stack' \in Seq(Calls) /\ call' \in [Calls -> CallRecords]
         /\ ShapeOK' /\ StackOK' /\ JoinedOK'
  <1> USE DEF IInv
  <1>1. /\ Len(stack) \in Nat \ {0} /\ Top = stack[Len(stack)] /\ Top \in Calls /\ Top <= made
        /\ Top \in Nat
    BY TopFacts
  <1>2. call' \in [Calls -> CallRecords]
    BY DEF TypeOK
  <1>3. call'[Top] = d /\ \A i \in Calls : i # Top => call'[i] = call[i]
    BY <1>1 DEF TypeOK
  <1>4. ShapeOK'
    BY <1>3 DEF ShapeOK, Shape
  <1>5. JoinedOK'
    BY <1>1, <1>3 DEF JoinedOK, Working
  <1>6. CASE d.pc # "returned"
    <2>1. stack' = stack
      BY <1>6
    <2>2. \A i \in Calls : Active(i)' => Active(i)
      BY <1>1, <1>3 DEF Active
    <2>3. StackOK'
      BY <1>1, <1>3, <2>1, <2>2, CallsAssumption DEF StackOK, TypeOK, Calls
    <2> QED
      BY <1>2, <1>4, <1>5, <2>1, <2>3 DEF TypeOK
  <1>7. CASE d.pc = "returned"
    <2>1. stack' = SubSeq(stack, 1, Len(stack) - 1)
      BY <1>7
    <2>2. /\ stack' \in Seq(Calls) /\ Len(stack') = Len(stack) - 1
          /\ \A k \in 1 .. Len(stack') : stack'[k] = stack[k]
      BY <1>1, <2>1, Pop DEF TypeOK
    <2>3. \A i \in Calls : Active(i)' => Active(i) /\ i # Top
      BY <1>3, <1>7 DEF Active
    <2>4. \A i \in Calls : Active(i)' => \E k \in 1 .. Len(stack') : stack'[k] = i
      <3> SUFFICES ASSUME NEW i \in Calls, Active(i)'
                   PROVE  \E k \in 1 .. Len(stack') : stack'[k] = i
        OBVIOUS
      <3>1. PICK k \in 1 .. Len(stack) : stack[k] = i
        BY <2>3 DEF StackOK
      <3>2. k # Len(stack)
        BY <1>1, <2>3, <3>1
      <3>3. k \in 1 .. Len(stack')
        BY <1>1, <2>2, <3>2
      <3> QED
        BY <2>2, <3>1, <3>3
    <2>5. \A i \in Calls : i > made' => call'[i].pc = "none"
      BY <1>1, <1>3, CallsAssumption DEF StackOK, TypeOK, Calls
    <2>6. \A k \in 1 .. Len(stack') : k \in 1 .. Len(stack)
      BY <1>1, <2>2
    <2> HIDE DEF IInv
    <2>7. StackOK'
      BY <2>2, <2>4, <2>5, <2>6 DEF StackOK, IInv
    <2> QED
      BY <1>2, <1>4, <1>5, <2>2, <2>7
  <1> QED
    BY <1>6, <1>7

-----------------------------------------------------------------------------
(* Every action preserves the invariant. *)

\* No call has been made.
LEMMA InitInv == Init => IInv
  <1> SUFFICES ASSUME Init PROVE IInv
    OBVIOUS
  <1>1. TypeOK
    BY NewCallType, CallsAssumption DEF Init, TypeOK, AnyXid
  <1>2. \A i \in Calls : call[i] = NewCall /\ call[i].pc = "none" /\ call[i].result = "none"
    BY DEF Init, NewCall
  <1>3. ShapeOK
    <2> SUFFICES ASSUME NEW i \in Calls PROVE Shape(i, call[i])
      BY DEF ShapeOK
    <2>1. call[i] = NewCall
      BY <1>2
    <2>2. /\ NewCall.value = None /\ NewCall.local = None /\ NewCall.xid = None
          /\ NewCall.held = None /\ NewCall.pc = "none"
      BY DEF NewCall
    <2> QED
      BY <2>1, <2>2 DEF Shape, Known, Working, Decisions
  <1>4. StackOK /\ JoinedOK /\ AskedOK /\ BegunOK
    BY <1>2 DEF Init, StackOK, JoinedOK, AskedOK, BegunOK, Active
  <1>5. SuccessIsAcknowledged
    BY <1>2 DEF SuccessIsAcknowledged
  <1> QED
    BY <1>1, <1>3, <1>4, <1>5 DEF IInv

\* A new call knows what it was given, and is on top of the stack unless it is refused.
LEMMA CallInv ==
  ASSUME IInv, NEW prop \in Propagations, NEW hop \in Hops, Call(prop, hop)
  PROVE  IInv'
  <1> DEFINE i == made + 1
             v == Given(hop)
             c == Propagate(prop, GetCurrentOrCreate(NewRootContext(v)))
  <1>1. /\ made < MaxCalls /\ made' = i /\ call' = [call EXCEPT ![i] = c]
        /\ stack' = (IF c.pc = "returned" THEN stack ELSE Append(stack, i))
        /\ UNCHANGED <<joined, begun, asked, abandoned>>
    BY DEF Call
  <1>2. made \in Nat /\ i \in Calls /\ i \in Nat /\ Len(stack) \in Nat
    BY <1>1, CallsAssumption DEF IInv, TypeOK, Calls
  <1>3. v \in {Remote, None} \cup 1 .. made
    <2>1. CASE Top = 0
      BY <2>1 DEF Given
    <2>2. CASE Top # 0
      <3>1. Top \in Calls /\ Top <= made /\ Top \in Nat
        BY <2>2, TopFacts DEF IInv
      <3>2. call[Top].value \in Known(Top) /\ call[Top].local \in Known(Top)
        BY <3>1 DEF IInv, ShapeOK, Shape
      <3>3. v \in {call[Top].value, call[Top].local, None}
        BY <2>2 DEF Given, Hops
      <3> QED
        BY <1>2, <3>1, <3>2, <3>3 DEF Known
    <2> QED
      BY <2>1, <2>2
  <1> HIDE DEF v
  <1>4. v \in AnyXid /\ v \in Known(i)
    BY <1>2, <1>3, CallsAssumption DEF AnyXid, Xids, Calls, Known, IInv, TypeOK
  <1>5. /\ c \in CallRecords /\ c.pc \in {"begin", "plain", "returned"}
        /\ c.method = "none" /\ c.result # "ok"
        /\ c.value = v /\ c.xid = v /\ c.role = (IF v = None THEN "Launcher" ELSE "Participant")
        /\ c.held \in {v, None} /\ c.local \in {v, None}
        /\ c.pc # "returned" /\ c.held # None => c.local = None
        /\ c.pc = "plain" => c.local = None
    BY <1>4, PropagateFields
  <1> HIDE DEF c
  <1>6. Shape(i, c)
    BY <1>4, <1>5 DEF Shape, Known, Working, Decisions, Finals
  <1> HIDE DEF i
  <1>7. call'[i] = c /\ \A j \in Calls : j # i => call'[j] = call[j]
    BY <1>1, <1>2 DEF IInv, TypeOK
  <1>8. call[i].pc = "none"
    BY <1>2 DEF IInv, StackOK, TypeOK, i
  <1>9. TypeOK'
    <2>1. stack' \in Seq(Calls)
      BY <1>1, <1>2 DEF IInv, TypeOK
    <2> QED
      BY <1>1, <1>2, <1>5, <2>1, CallsAssumption DEF IInv, TypeOK, Calls
  <1>10. ShapeOK'
    BY <1>6, <1>7 DEF IInv, ShapeOK, Shape
  <1>11. StackOK'
    <2>1. \A j \in Calls : j > made' => j > made /\ j # i
      BY <1>1, <1>2 DEF i, Calls
    <2>2. \A j \in Calls : j > made' => call'[j].pc = "none"
      BY <1>7, <2>1 DEF IInv, StackOK
    <2>3. \A j \in Calls : j # i => (Active(j)' <=> Active(j))
      BY <1>7 DEF Active
    <2>4. CASE c.pc = "returned"
      <3>1. stack' = stack
        BY <1>1, <2>4
      <3>2. \A j \in Calls : Active(j)' => Active(j)
        BY <1>7, <2>4 DEF Active
      <3>3. \A k \in 1 .. Len(stack') : stack'[k] \in 1 .. made'
        BY <1>1, <1>2, <3>1 DEF IInv, StackOK, i
      <3> QED
        BY <2>2, <3>1, <3>2, <3>3 DEF IInv, StackOK
    <2>5. CASE c.pc # "returned"
      <3>1. /\ stack' = Append(stack, i) /\ Len(stack') = Len(stack) + 1
            /\ stack'[Len(stack) + 1] = i /\ \A k \in 1 .. Len(stack) : stack'[k] = stack[k]
        BY <1>1, <1>2, <2>5 DEF IInv, TypeOK
      <3>2. \A k \in 1 .. Len(stack') : k \in 1 .. Len(stack) \/ k = Len(stack) + 1
        BY <1>2, <3>1
      <3>3. \A k \in 1 .. Len(stack) : stack[k] \in 1 .. made /\ stack[k] < i
        BY <1>2 DEF IInv, StackOK, i
      <3>4. \A k \in 1 .. Len(stack') : stack'[k] \in 1 .. made'
        BY <1>1, <1>2, <3>1, <3>2, <3>3 DEF i
      <3>5. \A k, l \in 1 .. Len(stack') : k < l => stack'[k] < stack'[l]
        <4> SUFFICES ASSUME NEW k \in 1 .. Len(stack'), NEW l \in 1 .. Len(stack'), k < l
                     PROVE  stack'[k] < stack'[l]
          OBVIOUS
        <4>1. k \in 1 .. Len(stack)
          BY <1>2, <3>1
        <4>2. CASE l = Len(stack) + 1
          BY <3>1, <3>3, <4>1, <4>2
        <4>3. CASE l \in 1 .. Len(stack)
          BY <3>1, <4>1, <4>3 DEF IInv, StackOK
        <4> QED
          BY <3>2, <4>2, <4>3
      <3>6. \A j \in Calls : Active(j)' => \E k \in 1 .. Len(stack') : stack'[k] = j
        <4> SUFFICES ASSUME NEW j \in Calls, Active(j)'
                     PROVE  \E k \in 1 .. Len(stack') : stack'[k] = j
          OBVIOUS
        <4>1. CASE j = i
          <5>1. Len(stack) + 1 \in 1 .. Len(stack')
            BY <1>2, <3>1
          <5> QED
            BY <3>1, <4>1, <5>1
        <4>2. CASE j # i
          <5>1. PICK k \in 1 .. Len(stack) : stack[k] = j
            BY <2>3, <4>2 DEF IInv, StackOK
          <5>2. k \in 1 .. Len(stack')
            BY <1>2, <3>1, <5>1
          <5> QED
            BY <3>1, <5>1, <5>2
        <4> QED
          BY <4>1, <4>2
      <3> QED
        BY <2>2, <3>4, <3>5, <3>6 DEF StackOK
    <2> QED
      BY <2>4, <2>5
  <1>12. JoinedOK'
    BY <1>1, <1>2, <1>7, <1>8 DEF IInv, JoinedOK
  <1>13. AskedOK'
    BY <1>1, <1>2, <1>7, <1>8 DEF IInv, AskedOK, Launches, Xids, Decisions
  <1>14. BegunOK'
    BY <1>1, <1>2, <1>7, <1>8 DEF IInv, BegunOK, Launches, TypeOK, Xids, Decisions
  <1>15. SuccessIsAcknowledged'
    BY <1>1, <1>2, <1>5, <1>7 DEF IInv, SuccessIsAcknowledged
  <1> QED
    BY <1>9, <1>10, <1>11, <1>12, <1>13, <1>14, <1>15 DEF IInv

\* A step of the innermost call before its decision, which does not end it.
LEMMA GoStep ==
  ASSUME IInv, Top # 0, NEW d \in CallRecords, Shape(Top, d), call[Top].pc \in Working,
         call' = [call EXCEPT ![Top] = d], d.pc \in Working \cup Decisions,
         d.held = call[Top].held, begun' \in {begun, begun \cup {Top}},
         UNCHANGED <<stack, made, joined, asked, abandoned>>,
         Top \in begun' \ abandoned =>
           d.role = "Launcher" /\ d.xid = Top /\ d.pc \in Decisions \cup {"run"}
  PROVE  IInv'
  <1>1. Top \in Calls
    BY TopFacts DEF IInv
  <1>2. stack' \in Seq(Calls) /\ call' \in [Calls -> CallRecords] /\ ShapeOK' /\ StackOK' /\ JoinedOK'
    BY TopStep DEF Working, Decisions
  <1>3. call'[Top] = d /\ \A j \in Calls : j # Top => call'[j] = call[j]
    BY <1>1 DEF IInv, TypeOK
  <1>4. TypeOK'
    BY <1>1, <1>2 DEF IInv, TypeOK, Xids
  <1>5. AskedOK'
    BY <1>1, <1>3 DEF IInv, AskedOK, Launches, Xids, Working, Decisions
  <1>6. BegunOK'
    BY <1>1, <1>3 DEF IInv, BegunOK, Launches, Xids
  <1>7. SuccessIsAcknowledged'
    BY <1>3 DEF IInv, SuccessIsAcknowledged, Working, Decisions
  <1> QED
    BY <1>2, <1>4, <1>5, <1>6, <1>7 DEF IInv

\* The end of the innermost call without a decision.
LEMMA LeaveStep ==
  ASSUME IInv, Top # 0, NEW d \in CallRecords, Shape(Top, d), call[Top].pc \in Working,
         call' = [call EXCEPT ![Top] = d], d.pc = "returned",
         stack' = SubSeq(stack, 1, Len(stack) - 1), UNCHANGED <<made, joined, asked>>,
         d.role = call[Top].role, d.xid = call[Top].xid,
         begun' \subseteq Xids, abandoned' \subseteq Xids, abandoned \subseteq abandoned',
         begun' \ abandoned' \subseteq begun,
         d.role = "Launcher" /\ d.xid # None => d.result # "ok" /\ d.xid \in abandoned'
  PROVE  IInv'
  <1>1. Top \in Calls /\ Top # None
    BY TopFacts, XidAssumption DEF IInv
  <1>2. stack' \in Seq(Calls) /\ call' \in [Calls -> CallRecords] /\ ShapeOK' /\ StackOK' /\ JoinedOK'
    BY TopStep DEF Working
  <1>3. call'[Top] = d /\ \A j \in Calls : j # Top => call'[j] = call[j]
    BY <1>1 DEF IInv, TypeOK
  <1>4. TypeOK'
    BY <1>2 DEF IInv, TypeOK
  <1>5. AskedOK'
    BY <1>1, <1>3 DEF IInv, AskedOK, Launches, Xids, Working, Decisions
  <1>6. BegunOK'
    BY <1>1, <1>3 DEF IInv, BegunOK, Launches, Xids, Working, Decisions
  <1>7. SuccessIsAcknowledged'
    BY <1>3 DEF IInv, SuccessIsAcknowledged
  <1> QED
    BY <1>2, <1>4, <1>5, <1>6, <1>7 DEF IInv

\* A request of the innermost call to end its transaction: answered, repeated or given up.
LEMMA DecideStep ==
  ASSUME IInv, Deciding(Top), NEW d \in CallRecords, Shape(Top, d),
         call' = [call EXCEPT ![Top] = d], d.pc \in {call[Top].pc, "returned"},
         IF d.pc = "returned" THEN stack' = SubSeq(stack, 1, Len(stack) - 1) ELSE stack' = stack,
         UNCHANGED <<made, joined, begun>>,
         d.role = call[Top].role, d.xid = call[Top].xid, d.method = call[Top].method,
         asked' \in {asked, [asked EXCEPT ![Top] = @ \cup {call[Top].pc}]},
         abandoned' \in {abandoned, abandoned \cup {Top}},
         d.pc = "returned" => asked'[Top] # {} \/ Top \in abandoned',
         d.pc = "returned" /\ d.result = "ok" => d.acked /\ "commit" \in asked'[Top]
  PROVE  IInv'
  <1>1. Top # 0 /\ Top \in Calls /\ Top # None /\ call[Top].pc \in Decisions
    BY TopFacts, XidAssumption DEF IInv, Deciding, Decisions
  <1>2. /\ call[Top].role = "Launcher" /\ call[Top].xid = Top
        /\ call[Top].pc = Decision(call[Top].method) /\ call[Top].method \in Finals
    BY <1>1 DEF IInv, ShapeOK, Shape
  <1>3. stack' \in Seq(Calls) /\ call' \in [Calls -> CallRecords] /\ ShapeOK' /\ StackOK' /\ JoinedOK'
    BY <1>1, TopStep DEF Working, Decisions
  <1>4. call'[Top] = d /\ \A j \in Calls : j # Top => call'[j] = call[j]
    BY <1>1 DEF IInv, TypeOK
  <1>5. /\ asked'[Top] \in {asked[Top], asked[Top] \cup {call[Top].pc}}
        /\ \A x \in Xids \cup {Remote} : x # Top => asked'[x] = asked[x]
        /\ \A x \in Xids \cup {Remote} : asked[x] \subseteq asked'[x]
    BY <1>1 DEF IInv, TypeOK, Xids
  <1>6. asked' \in [Xids \cup {Remote} -> SUBSET Decisions]
    BY <1>1 DEF IInv, TypeOK, Xids
  <1>7. TypeOK'
    BY <1>1, <1>3, <1>6 DEF IInv, TypeOK, Xids
  <1>8. AskedOK'
    BY <1>1, <1>2, <1>4, <1>5 DEF IInv, AskedOK, Launches, Xids, Decision, Finals, Decisions
  <1>9. BegunOK'
    <2> SUFFICES ASSUME NEW x \in begun \ abandoned'
                 PROVE  asked'[x] # {} \/ (/\ call'[x].role = "Launcher" /\ call'[x].xid = x
                                          /\ call'[x].pc \in Decisions \cup {"run"})
      BY DEF BegunOK, Launches
    <2>1. x \in begun \ abandoned /\ x \in Calls
      BY DEF IInv, TypeOK, Xids
    <2>2. CASE x = Top
      BY <1>1, <1>2, <1>4, <2>2
    <2>3. CASE x # Top
      BY <1>4, <1>5, <2>1, <2>3 DEF IInv, BegunOK, Launches, Xids
    <2> QED
      BY <2>2, <2>3
  <1>10. SuccessIsAcknowledged'
    <2> SUFFICES ASSUME NEW j \in Calls, call'[j].pc = "returned", call'[j].result = "ok",
                        call'[j].role = "Launcher", call'[j].xid # None
                 PROVE  call'[j].acked /\ "commit" \in asked'[call'[j].xid]
      BY DEF SuccessIsAcknowledged
    <2>1. CASE j = Top
      BY <1>2, <1>4, <2>1
    <2>2. CASE j # Top
      <3>1. call[j].acked /\ "commit" \in asked[call[j].xid] /\ call'[j] = call[j]
        BY <1>4, <2>2 DEF IInv, SuccessIsAcknowledged
      <3>2. call[j].xid \in Xids \cup {Remote}
        BY <1>4, <2>2 DEF IInv, TypeOK, CallRecords, AnyXid
      <3> QED
        BY <1>5, <3>1, <3>2
    <2> QED
      BY <2>1, <2>2
  <1> QED
    BY <1>3, <1>7, <1>8, <1>9, <1>10 DEF IInv

\* What the invariant says of the innermost call.
LEMMA TopShape ==
  ASSUME IInv, Top # 0
  PROVE  Top \in Calls /\ Top # None /\ Shape(Top, call[Top]) /\ call[Top] \in CallRecords
  BY TopFacts, XidAssumption DEF IInv, ShapeOK, TypeOK

\* A participant goes on to its method.
LEMMA BeginIgnoredInv == ASSUME IInv, BeginIgnored PROVE IInv'
  <1> DEFINE c == call[Top]
             d == [c EXCEPT !.pc = "run"]
  <1>1. /\ Top # 0 /\ c.pc = "begin" /\ c.role = "Participant" /\ call' = [call EXCEPT ![Top] = d]
        /\ UNCHANGED <<stack, made, joined, begun, asked, abandoned>>
    BY DEF BeginIgnored, Becomes
  <1>2. Top \in Calls /\ Shape(Top, c) /\ c \in CallRecords
    BY <1>1, TopShape
  <1>3. d \in CallRecords /\ Shape(Top, d) /\ d.held = c.held /\ d.pc = "run"
    BY <1>1, <1>2 DEF CallRecords, Shape, Working, Decisions
  <1>4. Top \notin begun \ abandoned
    BY <1>1, <1>2 DEF IInv, BegunOK, AskedOK, Launches, Xids, Decisions
  <1> QED
    BY <1>1, <1>3, <1>4, GoStep DEF Working

\* A launcher goes on with its XID, or ends when the answer is lost.
LEMMA BeginInv == ASSUME IInv, NEW arrives \in BOOLEAN, Begin(arrives) PROVE IInv'
  <1> DEFINE c == call[Top]
             d == [c EXCEPT !.xid = Top, !.local = Top, !.pc = "run"]
  <1>1. /\ Top # 0 /\ c.pc = "begin" /\ c.role = "Launcher" /\ c.xid = None
        /\ begun' = begun \cup {Top} /\ UNCHANGED <<made, joined, asked>>
    BY DEF Begin
  <1>2. Top \in Calls /\ Top \in Nat /\ Shape(Top, c) /\ c \in CallRecords /\ Top # None
    BY <1>1, TopShape, TopFacts DEF IInv
  <1>3. CASE arrives
    <2>1. call' = [call EXCEPT ![Top] = d] /\ UNCHANGED <<stack, abandoned>>
      BY <1>3 DEF Begin, Becomes
    <2>2. d \in CallRecords
      BY <1>2 DEF CallRecords, AnyXid, Xids
    <2>3. /\ d.held = c.held /\ d.pc = "run" /\ d.role = "Launcher" /\ d.xid = Top
          /\ d.local = Top /\ d.value = c.value /\ d.method = c.method
      BY <1>1, <1>2 DEF CallRecords
    <2>4. Shape(Top, d)
      BY <1>1, <1>2, <2>3 DEF Shape, Known, Working, Decisions
    <2> QED
      BY <1>1, <2>1, <2>2, <2>3, <2>4, GoStep DEF Working
  <1>4. CASE ~arrives
    <2> DEFINE e == Returned(c, "error")
    <2>1. /\ call' = [call EXCEPT ![Top] = e] /\ stack' = SubSeq(stack, 1, Len(stack) - 1)
          /\ abandoned' = abandoned \cup {Top}
      BY <1>4 DEF Begin, Leave, Becomes
    <2>2. /\ e \in CallRecords /\ e.pc = "returned" /\ e.result = "error" /\ e.role = c.role
          /\ e.local = (IF c.held # None THEN c.held ELSE c.local) /\ e.value = c.value
          /\ e.xid = c.xid /\ e.held = c.held /\ e.method = c.method
      BY <1>2, ReturnedFields
    <2> HIDE DEF e
    <2>3. Shape(Top, e)
      BY <1>1, <1>2, <2>2 DEF Shape, Known, Working, Decisions, Finals
    <2>4. begun' \subseteq Xids /\ abandoned' \subseteq Xids
      BY <1>1, <1>2, <2>1 DEF IInv, TypeOK, Xids
    <2> QED
      BY <1>1, <2>1, <2>2, <2>3, <2>4, LeaveStep DEF Working
  <1> QED
    BY <1>3, <1>4

\* A launcher ends without a transaction.
LEMMA BeginFailsInv == ASSUME IInv, BeginFails PROVE IInv'
  <1> DEFINE c == call[Top]
             e == Returned(c, "error")
  <1>1. /\ Top # 0 /\ c.pc = "begin" /\ c.role = "Launcher"
        /\ call' = [call EXCEPT ![Top] = e] /\ stack' = SubSeq(stack, 1, Len(stack) - 1)
        /\ UNCHANGED <<made, joined, begun, asked, abandoned>>
    BY DEF BeginFails, Leave, Becomes
  <1>2. Shape(Top, c) /\ c \in CallRecords
    BY <1>1, TopShape
  <1>3. /\ e \in CallRecords /\ e.pc = "returned" /\ e.result = "error" /\ e.role = c.role
        /\ e.local = (IF c.held # None THEN c.held ELSE c.local) /\ e.value = c.value
        /\ e.xid = c.xid /\ e.held = c.held /\ e.method = c.method
    BY <1>2, ReturnedFields
  <1> HIDE DEF e
  <1>4. Shape(Top, e) /\ e.xid = None
    BY <1>1, <1>2, <1>3 DEF Shape, Known, Working, Decisions, Finals
  <1>5. begun' \subseteq Xids /\ abandoned' \subseteq Xids
    BY <1>1 DEF IInv, TypeOK
  <1> QED
    BY <1>1, <1>3, <1>4, <1>5, LeaveStep DEF Working

\* A method without a transaction ends.
LEMMA FinishPlainInv == ASSUME IInv, NEW result \in {"ok", "error"}, FinishPlain(result) PROVE IInv'
  <1> DEFINE c == call[Top]
             b == [c EXCEPT !.method = result]
             e == Returned(b, result)
  <1>1. /\ Top # 0 /\ c.pc = "plain"
        /\ call' = [call EXCEPT ![Top] = e] /\ stack' = SubSeq(stack, 1, Len(stack) - 1)
        /\ UNCHANGED <<made, joined, begun, asked, abandoned>>
    BY DEF FinishPlain, Leave, Becomes
  <1>2. Shape(Top, c) /\ c \in CallRecords
    BY <1>1, TopShape
  <1>3. /\ b \in CallRecords /\ b.method = result /\ b.value = c.value /\ b.local = c.local
        /\ b.xid = c.xid /\ b.role = c.role /\ b.held = c.held
    BY <1>2 DEF CallRecords
  <1> HIDE DEF b
  <1>4. /\ e \in CallRecords /\ e.pc = "returned" /\ e.result = result /\ e.role = c.role
        /\ e.local = (IF c.held # None THEN c.held ELSE c.local) /\ e.value = c.value
        /\ e.xid = c.xid /\ e.held = c.held /\ e.method = result
    BY <1>3, ReturnedFields
  <1> HIDE DEF e
  <1>5. Shape(Top, e) /\ (e.role = "Launcher" => e.xid = None)
    BY <1>1, <1>2, <1>4 DEF Shape, Known, Working, Decisions, Finals
  <1>6. begun' \subseteq Xids /\ abandoned' \subseteq Xids
    BY <1>1 DEF IInv, TypeOK
  <1> QED
    BY <1>1, <1>4, <1>5, <1>6, LeaveStep DEF Working

\* The method of a participant ends, its context unbound.
LEMMA FinishParticipantInv ==
  ASSUME IInv, NEW result \in {"ok", "error"}, FinishParticipant(result) PROVE IInv'
  <1> DEFINE c == call[Top]
             b == [c EXCEPT !.method = result]
             u == Unbind(b)
             e == Returned(u, result)
  <1>1. /\ Top # 0 /\ c.pc = "run" /\ c.role = "Participant"
        /\ call' = [call EXCEPT ![Top] = e] /\ stack' = SubSeq(stack, 1, Len(stack) - 1)
        /\ UNCHANGED <<made, joined, begun, asked, abandoned>>
    BY DEF FinishParticipant, Leave, Becomes
  <1>2. Shape(Top, c) /\ c \in CallRecords
    BY <1>1, TopShape
  <1>3. /\ b \in CallRecords /\ b.method = result /\ b.value = c.value /\ b.local = c.local
        /\ b.xid = c.xid /\ b.role = c.role /\ b.held = c.held
    BY <1>2 DEF CallRecords
  <1> HIDE DEF b
  <1>4. /\ u \in CallRecords /\ u.method = result /\ u.value = c.value /\ u.xid = c.xid
        /\ u.role = c.role /\ u.held = c.held
        /\ u.local = (IF c.local = c.xid THEN None ELSE c.local)
    BY <1>3, UnbindFields
  <1> HIDE DEF u
  <1>5. /\ e \in CallRecords /\ e.pc = "returned" /\ e.result = result /\ e.role = c.role
        /\ e.local = (IF u.held # None THEN u.held ELSE u.local) /\ e.value = c.value
        /\ e.xid = c.xid /\ e.held = c.held /\ e.method = result
    BY <1>4, ReturnedFields
  <1> HIDE DEF e
  <1>6. Shape(Top, e)
    BY <1>1, <1>2, <1>4, <1>5 DEF Shape, Known, Working, Decisions, Finals
  <1>7. begun' \subseteq Xids /\ abandoned' \subseteq Xids
    BY <1>1 DEF IInv, TypeOK
  <1> QED
    BY <1>1, <1>5, <1>6, <1>7, LeaveStep DEF Working

\* The method of a launcher ends, and the decision follows.
LEMMA FinishLauncherInv ==
  ASSUME IInv, NEW result \in {"ok", "error"}, FinishLauncher(result) PROVE IInv'
  <1> DEFINE c == call[Top]
             d == [c EXCEPT !.pc = Decision(result), !.method = result, !.retry = RetryCount]
  <1>1. /\ Top # 0 /\ c.pc = "run" /\ c.role = "Launcher" /\ call' = [call EXCEPT ![Top] = d]
        /\ UNCHANGED <<stack, made, joined, begun, asked, abandoned>>
    BY DEF FinishLauncher, Becomes
  <1>2. Top \in Calls /\ Shape(Top, c) /\ c \in CallRecords
    BY <1>1, TopShape
  <1>3. Decision(result) \in Decisions /\ RetryCount \in 0 .. RetryCount
    BY RetryAssumption DEF Decision, Decisions
  <1>4. d \in CallRecords
    BY <1>2, <1>3 DEF CallRecords
  <1>5. /\ d.held = c.held /\ d.pc = Decision(result) /\ d.role = c.role /\ d.xid = c.xid
        /\ d.local = c.local /\ d.value = c.value /\ d.method = result
    BY <1>2 DEF CallRecords
  <1>6. Shape(Top, d) /\ d.xid = Top
    BY <1>1, <1>2, <1>3, <1>5 DEF Shape, Working, Decisions, Finals
  <1> QED
    BY <1>1, <1>3, <1>4, <1>5, <1>6, GoStep DEF Working

\* A panic ends a call without a decision.
LEMMA PanicInv == ASSUME IInv, Panic PROVE IInv'
  <1> DEFINE c == call[Top]
             b == [c EXCEPT !.method = "panic"]
             e == Returned(b, "panic")
  <1>1. /\ Top # 0 /\ c.pc \in {"run", "plain"}
        /\ call' = [call EXCEPT ![Top] = e] /\ stack' = SubSeq(stack, 1, Len(stack) - 1)
        /\ abandoned' = (IF c.role = "Launcher" /\ c.xid # None
                          THEN abandoned \cup {c.xid} ELSE abandoned)
        /\ UNCHANGED <<made, joined, begun, asked>>
    BY DEF Panic, Leave, Becomes
  <1>2. Shape(Top, c) /\ c \in CallRecords /\ Top \in Calls
    BY <1>1, TopShape
  <1>3. /\ b \in CallRecords /\ b.method = "panic" /\ b.value = c.value /\ b.local = c.local
        /\ b.xid = c.xid /\ b.role = c.role /\ b.held = c.held
    BY <1>2 DEF CallRecords
  <1> HIDE DEF b
  <1>4. /\ e \in CallRecords /\ e.pc = "returned" /\ e.result = "panic" /\ e.role = c.role
        /\ e.local = (IF c.held # None THEN c.held ELSE c.local) /\ e.value = c.value
        /\ e.xid = c.xid /\ e.held = c.held /\ e.method = "panic"
    BY <1>3, ReturnedFields
  <1> HIDE DEF e
  <1>5. Shape(Top, e)
    BY <1>1, <1>2, <1>4 DEF Shape, Known, Working, Decisions, Finals
  <1>6. begun' \subseteq Xids /\ abandoned' \subseteq Xids
    BY <1>1, <1>2 DEF IInv, TypeOK, Shape, Xids
  <1> QED
    BY <1>1, <1>4, <1>5, <1>6, LeaveStep DEF Working

\* The TC acknowledges the decision.
LEMMA AcknowledgedInv == ASSUME IInv, Acknowledged PROVE IInv'
  <1> DEFINE c == call[Top]
             u == Unbind(c)
             b == [u EXCEPT !.acked = TRUE]
             e == Returned(b, c.method)
  <1>1. /\ Deciding(Top) /\ asked' = [asked EXCEPT ![c.xid] = @ \cup {c.pc}]
        /\ call' = [call EXCEPT ![Top] = e] /\ stack' = SubSeq(stack, 1, Len(stack) - 1)
        /\ UNCHANGED <<made, joined, begun, abandoned>>
    BY DEF Acknowledged, Leave, Becomes
  <1>2. Shape(Top, c) /\ c \in CallRecords /\ Top \in Calls /\ c.pc \in Decisions
    BY <1>1, TopShape DEF Deciding, Decisions
  <1>3. /\ c.role = "Launcher" /\ c.xid = Top /\ c.local = Top /\ c.held = None
        /\ c.method \in Finals /\ c.pc = Decision(c.method)
    BY <1>2 DEF Shape
  <1>4. /\ u \in CallRecords /\ u.method = c.method /\ u.value = c.value /\ u.xid = c.xid
        /\ u.role = c.role /\ u.held = c.held /\ u.local = None
    BY <1>2, <1>3, UnbindFields
  <1> HIDE DEF u
  <1>5. /\ b \in CallRecords /\ b.method = c.method /\ b.value = c.value /\ b.xid = c.xid
        /\ b.role = c.role /\ b.held = c.held /\ b.local = None /\ b.acked = TRUE
    BY <1>4 DEF CallRecords
  <1> HIDE DEF b
  <1>6. /\ e \in CallRecords /\ e.pc = "returned" /\ e.result = c.method /\ e.role = c.role
        /\ e.local = None /\ e.value = c.value /\ e.acked = TRUE
        /\ e.xid = c.xid /\ e.held = None /\ e.method = c.method
    BY <1>3, <1>5, ReturnedFields DEF Finals
  <1> HIDE DEF e
  <1>7. Shape(Top, e)
    BY <1>2, <1>3, <1>6 DEF Shape, Known, Working, Decisions, Finals
  <1>8. asked' = [asked EXCEPT ![Top] = @ \cup {call[Top].pc}] /\ asked'[Top] = asked[Top] \cup {c.pc}
    BY <1>1, <1>2, <1>3 DEF IInv, TypeOK, Xids
  <1>9. e.result = "ok" => "commit" \in asked'[Top]
    BY <1>3, <1>6, <1>8 DEF Decision
  <1> QED
    BY <1>1, <1>6, <1>7, <1>8, <1>9, DecideStep

\* The request is repeated, or given up.
LEMMA UnacknowledgedInv == ASSUME IInv, NEW reaches \in BOOLEAN, Unacknowledged(reaches) PROVE IInv'
  <1> DEFINE c == call[Top]
             d == [c EXCEPT !.retry = @ - 1]
             u == Unbind(c)
             e == Returned(u, "error")
  <1>1. /\ Deciding(Top)
        /\ asked' = (IF reaches THEN [asked EXCEPT ![c.xid] = @ \cup {c.pc}] ELSE asked)
        /\ UNCHANGED <<made, joined, begun>>
    BY DEF Unacknowledged
  <1>2. Shape(Top, c) /\ c \in CallRecords /\ Top \in Calls /\ c.pc \in Decisions
    BY <1>1, TopShape DEF Deciding, Decisions
  <1>3. /\ c.role = "Launcher" /\ c.xid = Top /\ c.local = Top /\ c.held = None
        /\ c.method \in Finals /\ c.pc = Decision(c.method) /\ c.pc # "returned"
    BY <1>2 DEF Shape, Decisions
  <1>4. asked' \in {asked, [asked EXCEPT ![Top] = @ \cup {call[Top].pc}]}
    BY <1>1, <1>3
  <1>5. CASE c.retry > 1
    <2>1. call' = [call EXCEPT ![Top] = d] /\ UNCHANGED <<stack, abandoned>>
      BY <1>5 DEF Unacknowledged, Becomes
    <2>2. /\ d \in CallRecords /\ d.pc = c.pc /\ d.role = c.role /\ d.xid = c.xid
          /\ d.method = c.method /\ d.value = c.value /\ d.local = c.local /\ d.held = c.held
      BY <1>2, <1>5, RetryAssumption DEF CallRecords
    <2> HIDE DEF d
    <2>3. Shape(Top, d)
      BY <1>2, <1>3, <2>2 DEF Shape, Working, Decisions
    <2> QED
      BY <1>1, <1>3, <1>4, <2>1, <2>2, <2>3, DecideStep
  <1>6. CASE ~ c.retry > 1
    <2>1. /\ call' = [call EXCEPT ![Top] = e] /\ stack' = SubSeq(stack, 1, Len(stack) - 1)
          /\ abandoned' = abandoned \cup {c.xid}
      BY <1>6 DEF Unacknowledged, Leave, Becomes
    <2>2. /\ u \in CallRecords /\ u.method = c.method /\ u.value = c.value /\ u.xid = c.xid
          /\ u.role = c.role /\ u.held = c.held /\ u.local = None
      BY <1>2, <1>3, UnbindFields
    <2> HIDE DEF u
    <2>3. /\ e \in CallRecords /\ e.pc = "returned" /\ e.result = "error" /\ e.role = c.role
          /\ e.local = None /\ e.value = c.value
          /\ e.xid = c.xid /\ e.held = None /\ e.method = c.method
      BY <1>3, <2>2, ReturnedFields
    <2> HIDE DEF e
    <2>4. Shape(Top, e)
      BY <1>2, <1>3, <2>3 DEF Shape, Known, Working, Decisions, Finals
    <2> QED
      BY <1>1, <1>3, <1>4, <2>1, <2>3, <2>4, DecideStep
  <1> QED
    BY <1>5, <1>6

\* A branch is registered in a transaction that is not the suspended one.
LEMMA TryInv == ASSUME IInv, NEW i \in Calls, Try(i) PROVE IInv'
  <1>1. /\ MayTry(i) /\ call[i].local # None /\ joined' = [joined EXCEPT ![i] = call[i].local]
        /\ UNCHANGED <<stack, made, call, begun, asked, abandoned>>
    BY DEF Try, InGlobalTransaction
  <1>2. TypeOK'
    BY <1>1 DEF IInv, TypeOK, CallRecords
  <1>3. ShapeOK' /\ BegunOK' /\ AskedOK' /\ SuccessIsAcknowledged' /\ StackOK'
    BY <1>1 DEF IInv, ShapeOK, BegunOK, AskedOK, SuccessIsAcknowledged, StackOK, Launches, Active
  <1>4. Shape(i, call[i]) /\ call[i].pc # "none"
    BY <1>1 DEF IInv, ShapeOK, Shape, MayTry, NewCall
  <1>5. ~ (call[i].held # None /\ call[i].pc \in Working)
    BY <1>1, <1>4 DEF Shape
  <1>6. JoinedOK'
    BY <1>1, <1>4, <1>5 DEF IInv, JoinedOK, TypeOK
  <1> QED
    BY <1>2, <1>3, <1>6 DEF IInv

\* The invariant is inductive.
LEMMA StepInv == IInv /\ [Next]_vars => IInv'
  <1> SUFFICES ASSUME IInv, [Next]_vars PROVE IInv'
    OBVIOUS
  <1>1. CASE \E prop \in Propagations, hop \in Hops : Call(prop, hop)
    BY <1>1, CallInv
  <1>2. CASE BeginIgnored
    BY <1>2, BeginIgnoredInv
  <1>3. CASE BeginFails
    BY <1>3, BeginFailsInv
  <1>4. CASE \E arrives \in BOOLEAN : Begin(arrives)
    BY <1>4, BeginInv
  <1>5. CASE \E result \in {"ok", "error"} :
               FinishPlain(result) \/ FinishParticipant(result) \/ FinishLauncher(result)
    BY <1>5, FinishPlainInv, FinishParticipantInv, FinishLauncherInv
  <1>6. CASE Panic
    BY <1>6, PanicInv
  <1>7. CASE Acknowledged
    BY <1>7, AcknowledgedInv
  <1>8. CASE \E reaches \in BOOLEAN : Unacknowledged(reaches)
    BY <1>8, UnacknowledgedInv
  <1>9. CASE \E i \in Calls : Try(i)
    BY <1>9, TryInv
  <1>10. CASE UNCHANGED vars
    BY <1>10 DEF vars, IInv, TypeOK, ShapeOK, StackOK, JoinedOK, AskedOK, BegunOK,
                 SuccessIsAcknowledged, Active, Launches
  <1> QED
    BY <1>1, <1>2, <1>3, <1>4, <1>5, <1>6, <1>7, <1>8, <1>9, <1>10 DEF Next

-----------------------------------------------------------------------------
(* Theorems. *)

\* What the invariant says when no action is in view.
LEMMA InvImplies ==
  IInv => DecisionFollowsResult /\ NoForgottenTransaction /\ SuspendedStaysOut /\ UnboundAfterDecision
  <1> SUFFICES ASSUME IInv
               PROVE  DecisionFollowsResult /\ NoForgottenTransaction /\ SuspendedStaysOut
                      /\ UnboundAfterDecision
    OBVIOUS
  <1>1. DecisionFollowsResult
    BY DEF IInv, AskedOK, DecisionFollowsResult, Xids
  <1>2. NoForgottenTransaction
    <2> SUFFICES ASSUME stack = <<>>, NEW x \in begun \ abandoned PROVE asked[x] # {}
      BY DEF NoForgottenTransaction
    <2>1. x \in Calls /\ Len(stack) = 0
      BY DEF IInv, TypeOK, Xids
    <2>2. ~ Active(x)
      BY <2>1 DEF IInv, StackOK
    <2> QED
      BY <2>2 DEF IInv, BegunOK, Active, Decisions
  <1>3. SuspendedStaysOut
    BY DEF IInv, JoinedOK, SuspendedStaysOut, Working
  <1>4. UnboundAfterDecision
    <2> SUFFICES ASSUME NEW x \in Xids, NEW j \in Calls, Launches(j, x), call[j].pc = "returned",
                        NEW i \in Calls, call[i].local = x, call[i].method # "none"
                 PROVE  call[i].held = x \/ call[i].method = "panic"
      BY DEF UnboundAfterDecision
    <2>1. Shape(i, call[i]) /\ Shape(j, call[j]) /\ call[i] \in CallRecords /\ x # None
      BY XidAssumption DEF IInv, TypeOK, ShapeOK, Xids, Calls
    <2>2. call[i].pc \in Decisions \cup {"returned"}
      BY <2>1 DEF Shape, CallRecords, NewCall, Working
    <2>3. j = x
      BY <2>1 DEF Shape, Launches
    <2>4. call[i].pc \notin Decisions
      BY <2>1, <2>3 DEF Shape, Decisions
    <2> QED
      BY <2>1, <2>2, <2>4 DEF Shape, CallRecords, Finals
  <1> QED
    BY <1>1, <1>2, <1>3, <1>4

\* A step asks the TC only for the transaction of the innermost call, and nothing else is in it.
LEMMA StepDecides ==
  ASSUME IInv, [Next]_vars, NEW x \in Xids \cup {Remote}, asked'[x] # asked[x]
  PROVE  Launches(Top, x) /\ \A i \in Calls : call[i].xid = x /\ i # Top => call[i].pc = "returned"
  <1>1. Acknowledged \/ \E reaches \in BOOLEAN : Unacknowledged(reaches)
    BY DEF Next, vars, Call, BeginIgnored, Begin, BeginFails, FinishPlain, FinishParticipant,
           FinishLauncher, Panic, Try
  <1>2. /\ Deciding(Top) /\ asked' \in {asked, [asked EXCEPT ![call[Top].xid] = @ \cup {call[Top].pc}]}
    BY <1>1 DEF Acknowledged, Unacknowledged
  <1>3. Top # 0 /\ call[Top].pc \in Decisions
    BY <1>2 DEF Deciding, Decisions
  <1>4. Top \in Calls /\ Top \in Nat /\ \A i \in Calls : Active(i) => i <= Top
    BY <1>3, TopFacts DEF IInv
  <1>5. call[Top].role = "Launcher" /\ call[Top].xid = Top
    BY <1>3, <1>4 DEF IInv, ShapeOK, Shape
  <1>6. x = Top
    BY <1>2, <1>4, <1>5 DEF IInv, TypeOK
  <1>7. ASSUME NEW i \in Calls, call[i].xid = x, i # Top PROVE call[i].pc = "returned"
    <2>1. Shape(i, call[i]) /\ x # None /\ x # Remote
      BY <1>4, <1>6, XidAssumption DEF IInv, ShapeOK
    <2>2. call[i].pc # "none"
      BY <1>7, <2>1 DEF Shape, NewCall
    <2>3. x \in 1 .. i
      BY <1>7, <2>1 DEF Shape, Known
    <2>4. ~ (i <= Top)
      BY <1>4, <1>6, <1>7, <2>3 DEF Calls
    <2> QED
      BY <1>4, <2>2, <2>4 DEF Active
  <1> QED
    BY <1>5, <1>6, <1>7 DEF Launches

\* The strengthened invariant holds throughout.
THEOREM Invariance == Spec => []IInv
  BY InitInv, StepInv, PTL DEF Spec

\* Every variable keeps its type.
THEOREM TypeCorrect == Spec => []TypeOK
  <1>1. IInv => TypeOK
    BY DEF IInv
  <1> QED
    BY <1>1, Invariance, PTL

\* A transaction is asked to commit only when the method that launched it returned no error, and
\* to roll back only when it did (proxy.go:110-122).
THEOREM DecisionFollows == Spec => []DecisionFollowsResult
  BY Invariance, InvImplies, PTL

\* The caller of a launcher sees no error only after an acknowledged Commit: a give-up is an
\* error, and a method's error is returned after Rollback (global_transaction.go:113-126).
THEOREM SuccessAcknowledged == Spec => []SuccessIsAcknowledged
  <1>1. IInv => SuccessIsAcknowledged
    BY DEF IInv
  <1> QED
    BY <1>1, Invariance, PTL

\* When the chain is over, what was begun has been asked to end, or was abandoned.
THEOREM NoneForgotten == Spec => []NoForgottenTransaction
  BY Invariance, InvImplies, PTL

\* No branch of a running call is in the transaction it has suspended (global_transaction.go:163).
THEOREM SuspendedOut == Spec => []SuspendedStaysOut
  BY Invariance, InvImplies, PTL

\* The XID of an ended transaction is in no context, except for resumed ones and after a panic
\* (global_transaction.go:100 and 132).
THEOREM UnboundAfter == Spec => []UnboundAfterDecision
  BY Invariance, InvImplies, PTL

\* Only the launcher asks the TC to end a transaction, after every other call in it is over
\* (global_transaction.go:106 and 138).
THEOREM LauncherDecides == Spec => OnlyLauncherDecides
  <1>1. IInv /\ [Next]_vars =>
          [\A x \in Xids \cup {Remote} : asked'[x] # asked[x] =>
             Launches(Top, x) /\ \A i \in Calls : call[i].xid = x /\ i # Top => call[i].pc = "returned"]_vars
    BY StepDecides
  <1> QED
    BY <1>1, Invariance, PTL DEF Spec, OnlyLauncherDecides

=============================================================================
