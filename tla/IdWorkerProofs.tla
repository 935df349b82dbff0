---------------------------- MODULE IdWorkerProofs ----------------------------
(***************************************************************************)
(* Proofs about IdWorker, for any number of servers and handlers and any   *)
(* width of the three parts of an id.                                      *)
(***************************************************************************)
EXTENDS IdWorker, TLAPS

-----------------------------------------------------------------------------
(* Multiples and remainders. *)

\* A product with a factor of at least 1 is no smaller than the other factor.
LEMMA MultipleIsLarge ==
  ASSUME NEW M \in Nat, NEW d \in Nat, d >= 1  PROVE d * M >= M
  <1>1. PICK e \in Nat : d = e + 1
    OBVIOUS
  <1>2. d * M = e * M + M /\ e * M >= 0
    BY <1>1
  <1> QED
    BY <1>2

\* Multiples of two numbers are at least M apart.
LEMMA MultiplesApart ==
  ASSUME NEW M \in Nat, NEW a \in Nat, NEW b \in Nat, a < b  PROVE a * M + M <= b * M
  <1>1. (b - a) * M >= M
    BY MultipleIsLarge
  <1>2. b * M = a * M + (b - a) * M /\ a * M \in Nat /\ b * M \in Nat /\ (b - a) * M \in Nat
    OBVIOUS
  <1> QED
    BY <1>1, <1>2

\* A number is its quotient and its remainder.
LEMMA Division ==
  ASSUME NEW M \in Nat, M # 0, NEW a \in Nat
  PROVE  a % M \in 0 .. M - 1 /\ a \div M \in Nat /\ a = (a \div M) * M + (a % M)
  OBVIOUS

\* Two numbers with one remainder are equal or at least M apart.
LEMMA SameRemainder ==
  ASSUME NEW M \in Nat, M # 0, NEW a \in Nat, NEW b \in Nat, a % M = b % M, a # b
  PROVE  a - b >= M \/ b - a >= M
  <1>1. /\ a % M \in 0 .. M - 1 /\ a \div M \in Nat /\ a = (a \div M) * M + (a % M)
        /\ b % M \in 0 .. M - 1 /\ b \div M \in Nat /\ b = (b \div M) * M + (b % M)
    BY Division
  <1>2. CASE a \div M < b \div M
    <2>1. (a \div M) * M + M <= (b \div M) * M
      BY <1>1, <1>2, MultiplesApart
    <2> QED
      BY <1>1, <2>1
  <1>3. CASE b \div M < a \div M
    <2>1. (b \div M) * M + M <= (a \div M) * M
      BY <1>1, <1>3, MultiplesApart
    <2> QED
      BY <1>1, <2>1
  <1>4. CASE a \div M = b \div M
    BY <1>1, <1>4
  <1> QED
    BY <1>1, <1>2, <1>3, <1>4

\* Low has the type of a modulus.
LEMMA LowType == Low \in Nat /\ Low # 0
  BY BitsAssumption DEF Low

\* An id gives back its worker number and the remainder of its counter.
LEMMA IdParts ==
  ASSUME NEW w \in WorkerIds, NEW c \in Nat
  PROVE  /\ Id(w, c) \in Nat /\ Id(w, c) \div Low = w /\ Id(w, c) < Workers * Low
         /\ Id(w, c) = w * Low + (c % Low)
  <1> DEFINE r == c % Low
  <1>1. w \in Nat /\ w < Workers /\ r \in 0 .. Low - 1 /\ Workers \in Nat /\ w * Low \in Nat
    BY LowType, Division, BitsAssumption DEF WorkerIds
  <1>2. Id(w, c) = w * Low + r
    BY DEF Id
  <1> HIDE DEF r
  <1>3. (w * Low + r) \div Low = w
    BY <1>1, LowType
  <1>4. w * Low + Low <= Workers * Low
    BY <1>1, LowType, MultiplesApart
  <1>5. Workers * Low \in Nat
    BY <1>1, LowType
  <1> QED
    BY <1>1, <1>2, <1>3, <1>4, <1>5, LowType DEF r

-----------------------------------------------------------------------------
(* The inductive invariant. *)

\* A value a handler holds belongs to a running server, and is within what its counter and its
\* worker number have reached.
PendingReached ==
  \A n \in Nodes, g \in Goroutines : next[n][g] # Idle =>
    n \in up /\ next[n][g] <= timestampAndSequence[n] /\ next[n][g] <= reached[workerID[n]]

IssuedReached ==
  \A a \in issued : a.id = Id(a.worker, a.count) /\ a.count <= reached[a.worker]

\* Without an overlap a worker number is that of one server, whose counter is ahead of it.
OneServer ==
  /\ \A m, n \in up : m # n => workerID[m] # workerID[n]
  /\ \A n \in up : reached[workerID[n]] <= timestampAndSequence[n]

\* No value of a counter is taken twice.
TakenOnce ==
  /\ \A n \in Nodes, g, h \in Goroutines : next[n][g] # Idle /\ g # h => next[n][g] # next[n][h]
  /\ \A a \in issued, n \in Nodes, g \in Goroutines :
       next[n][g] # Idle /\ a.worker = workerID[n] => a.count # next[n][g]
  /\ \A a, b \in issued : a # b /\ a.worker = b.worker => a.count # b.count

IInv == TypeOK /\ PendingReached /\ IssuedReached /\ (~overlap => OneServer /\ TakenOnce)

LEMMA InitInv == Init => IInv
  <1> SUFFICES ASSUME Init PROVE IInv
    OBVIOUS
  <1>1. 0 \in WorkerIds
    BY BitsAssumption DEF WorkerIds
  <1>2. TypeOK
    BY <1>1, BoundAssumption DEF Init, TypeOK
  <1>3. \A n \in Nodes, g \in Goroutines : next[n][g] = Idle
    BY DEF Init
  <1>4. PendingReached /\ IssuedReached /\ OneServer /\ TakenOnce
    BY <1>3 DEF Init, PendingReached, IssuedReached, OneServer, TakenOnce
  <1> QED
    BY <1>2, <1>4 DEF IInv

\* A server's start: its handlers are idle, and without an overlap its counter is ahead.
LEMMA StartInv ==
  ASSUME IInv, NEW n \in Nodes, NEW k \in -1 .. Workers, NEW v \in WorkerIds, Start(n, k, v)
  PROVE  IInv'
  <1> DEFINE w == WorkerOf(k, v)
             t == clock * Sequences
  <1>1. w \in WorkerIds /\ t \in Nat
    BY BitsAssumption, BoundAssumption DEF IInv, TypeOK, WorkerOf
  <1>2. /\ n \notin up /\ up' = up \cup {n}
        /\ workerID' = [workerID EXCEPT ![n] = w]
        /\ timestampAndSequence' = [timestampAndSequence EXCEPT ![n] = t]
        /\ overlap' = (overlap \/ t < reached[w] \/ \E m \in up : workerID[m] = w)
        /\ UNCHANGED <<clock, next, issued, reached>>
    BY DEF Start
  <1> HIDE DEF w, t
  <1>3. TypeOK'
    BY <1>1, <1>2 DEF IInv, TypeOK
  <1>4. PendingReached' /\ IssuedReached'
    BY <1>2 DEF IInv, TypeOK, PendingReached, IssuedReached
  <1>5. ASSUME ~overlap' PROVE OneServer' /\ TakenOnce'
    <2>1. ~overlap /\ t >= reached[w] /\ \A m \in up : workerID[m] # w
      <3>1. ~overlap /\ ~(t < reached[w]) /\ \A m \in up : workerID[m] # w
        BY <1>2, <1>5
      <3>2. reached[w] \in Nat
        BY <1>1 DEF IInv, TypeOK
      <3> QED
        BY <1>1, <3>1, <3>2
    <2>2. OneServer'
      BY <1>1, <1>2, <2>1 DEF IInv, TypeOK, OneServer
    <2>3. TakenOnce'
      BY <1>2, <2>1 DEF IInv, TypeOK, TakenOnce, PendingReached
    <2> QED
      BY <2>2, <2>3
  <1> QED
    BY <1>3, <1>4, <1>5 DEF IInv

\* A stop only forgets.
LEMMA StopInv ==
  ASSUME IInv, NEW n \in Nodes, Stop(n)  PROVE IInv'
  <1>1. /\ up' = up \ {n} /\ workerID' = [workerID EXCEPT ![n] = 0]
        /\ timestampAndSequence' = [timestampAndSequence EXCEPT ![n] = 0]
        /\ next' = [next EXCEPT ![n] = [g \in Goroutines |-> Idle]]
        /\ UNCHANGED <<clock, issued, reached, overlap>>
    BY DEF Stop
  <1>2. TypeOK'
    BY <1>1, BitsAssumption DEF IInv, TypeOK, WorkerIds
  <1>3. \A m \in Nodes, g \in Goroutines : next'[m][g] # Idle => m # n /\ next'[m][g] = next[m][g]
    BY <1>1 DEF IInv, TypeOK
  <1>4. PendingReached' /\ IssuedReached'
    BY <1>1, <1>3 DEF IInv, TypeOK, PendingReached, IssuedReached
  <1>5. OneServer => OneServer'
    BY <1>1 DEF IInv, TypeOK, OneServer
  <1>6. TakenOnce => TakenOnce'
    BY <1>1, <1>3 DEF IInv, TypeOK, TakenOnce
  <1> QED
    BY <1>1, <1>2, <1>4, <1>5, <1>6 DEF IInv

\* The atomic addition takes a value beyond all that were taken under the worker number.
LEMMA AddInv ==
  ASSUME IInv, NEW n \in Nodes, NEW g \in Goroutines, Add(n, g)  PROVE IInv'
  <1> DEFINE c == timestampAndSequence[n] + 1
             w == workerID[n]
  <1>1. c \in Nat /\ c > timestampAndSequence[n] /\ w \in WorkerIds
    BY DEF IInv, TypeOK
  <1>2. /\ n \in up /\ next[n][g] = Idle
        /\ timestampAndSequence' = [timestampAndSequence EXCEPT ![n] = c]
        /\ next' = [next EXCEPT ![n][g] = c]
        /\ reached' = [reached EXCEPT ![w] = IF c > @ THEN c ELSE @]
        /\ UNCHANGED <<clock, up, workerID, issued, overlap>>
    BY DEF Add
  <1> HIDE DEF c
  <1>3. TypeOK'
    BY <1>1, <1>2 DEF IInv, TypeOK
  <1>4. /\ \A v \in WorkerIds : reached[v] <= reached'[v]
        /\ reached'[w] >= c /\ \A v \in WorkerIds : v # w => reached'[v] = reached[v]
    BY <1>1, <1>2 DEF IInv, TypeOK
  <1>5. /\ next'[n][g] = c
        /\ \A m \in Nodes, h \in Goroutines : <<m, h>> # <<n, g>> => next'[m][h] = next[m][h]
    BY <1>2 DEF IInv, TypeOK
  <1>6. PendingReached'
    BY <1>1, <1>2, <1>3, <1>4, <1>5 DEF IInv, TypeOK, PendingReached
  <1>7. IssuedReached'
    BY <1>2, <1>3, <1>4 DEF IInv, TypeOK, IssuedReached
  <1>8. ASSUME ~overlap' PROVE OneServer' /\ TakenOnce'
    <2>1. ~overlap /\ reached[w] <= timestampAndSequence[n] /\ OneServer /\ TakenOnce
      BY <1>2, <1>8 DEF IInv, OneServer
    <2>2. reached'[w] = c
      BY <1>1, <1>2, <2>1 DEF IInv, TypeOK
    <2>3. OneServer'
      BY <1>1, <1>2, <1>4, <2>1, <2>2 DEF IInv, TypeOK, OneServer
    <2>4. \A h \in Goroutines : next[n][h] # Idle => next[n][h] < c
      BY <1>1, <1>2 DEF IInv, TypeOK, PendingReached
    <2>5. \A a \in issued : a.worker = w => a.count < c
      BY <1>1, <2>1 DEF IInv, TypeOK, IssuedReached
    <2>6. TakenOnce'
      BY <1>1, <1>2, <1>5, <2>1, <2>4, <2>5 DEF IInv, TypeOK, TakenOnce
    <2> QED
      BY <2>3, <2>6
  <1> QED
    BY <1>3, <1>6, <1>7, <1>8 DEF IInv

\* An id is issued with the value its handler took.
LEMMA IssueInv ==
  ASSUME IInv, NEW n \in Nodes, NEW g \in Goroutines, Issue(n, g)  PROVE IInv'
  <1> DEFINE c == next[n][g]
             w == workerID[n]
             a0 == [id |-> Id(w, c), worker |-> w, count |-> c, node |-> n, goroutine |-> g]
  <1>1. /\ n \in up /\ c # Idle /\ issued' = issued \cup {a0}
        /\ next' = [next EXCEPT ![n][g] = Idle]
        /\ UNCHANGED <<clock, up, workerID, timestampAndSequence, reached, overlap>>
    BY DEF Issue
  <1>2. c \in Nat /\ w \in WorkerIds /\ Id(w, c) \in Nat
    <2>1. c \in Nat /\ w \in WorkerIds
      BY <1>1 DEF IInv, TypeOK
    <2> QED
      BY <2>1, IdParts
  <1>3. /\ a0.id = Id(w, c) /\ a0.worker = w /\ a0.count = c /\ c <= reached[w]
        /\ a0 \in [id : Nat, worker : WorkerIds, count : Nat, node : Nodes, goroutine : Goroutines]
    BY <1>1, <1>2 DEF IInv, PendingReached
  <1>4. \A m \in Nodes, h \in Goroutines :
          next'[m][h] # Idle => <<m, h>> # <<n, g>> /\ next'[m][h] = next[m][h]
    BY <1>1 DEF IInv, TypeOK
  <1>5. TypeOK'
    BY <1>1, <1>3 DEF IInv, TypeOK, Idle
  <1> HIDE DEF a0, c
  <1>6. PendingReached'
    BY <1>1, <1>4 DEF IInv, PendingReached
  <1>7. IssuedReached'
    BY <1>1, <1>3 DEF IInv, IssuedReached
  <1>8. OneServer => OneServer'
    BY <1>1 DEF OneServer
  <1>9. ASSUME ~overlap PROVE TakenOnce'
    <2>1. OneServer /\ TakenOnce /\ PendingReached
      BY <1>9 DEF IInv
    <2>2. \A a \in issued : a.worker = w => a.count # c
      BY <1>1, <2>1 DEF TakenOnce, c
    <2>3. \A m \in Nodes, h \in Goroutines :
            next'[m][h] # Idle /\ workerID[m] = w => next'[m][h] # c
      <3> SUFFICES ASSUME NEW m \in Nodes, NEW h \in Goroutines, next'[m][h] # Idle, workerID[m] = w
                   PROVE  next'[m][h] # c
        OBVIOUS
      <3>1. m \in up /\ m = n /\ h # g
        BY <1>1, <1>4, <2>1 DEF PendingReached, OneServer
      <3> QED
        BY <1>1, <1>4, <2>1, <3>1 DEF TakenOnce, c
    <2>4. \A m \in Nodes, h, i \in Goroutines :
            next'[m][h] # Idle /\ h # i => next'[m][h] # next'[m][i]
      BY <1>4, <2>1 DEF TakenOnce
    <2> QED
      BY <1>1, <1>3, <1>4, <2>1, <2>2, <2>3, <2>4 DEF TakenOnce
  <1> QED
    BY <1>1, <1>5, <1>6, <1>7, <1>8, <1>9 DEF IInv

LEMMA NextInv == IInv /\ [Next]_vars => IInv'
  <1> SUFFICES ASSUME IInv, [Next]_vars PROVE IInv'
    OBVIOUS
  <1>1. CASE Clock
    BY <1>1 DEF Clock, IInv, TypeOK, PendingReached, IssuedReached, OneServer, TakenOnce
  <1>2. ASSUME NEW n \in Nodes, Stop(n) PROVE IInv'
    BY <1>2, StopInv
  <1>3. ASSUME NEW n \in Nodes, NEW k \in -1 .. Workers, NEW v \in WorkerIds, Start(n, k, v)
        PROVE  IInv'
    BY <1>3, StartInv
  <1>4. ASSUME NEW n \in Nodes, NEW g \in Goroutines, Add(n, g) PROVE IInv'
    BY <1>4, AddInv
  <1>5. ASSUME NEW n \in Nodes, NEW g \in Goroutines, Issue(n, g) PROVE IInv'
    BY <1>5, IssueInv
  <1>6. CASE UNCHANGED vars
    BY <1>6 DEF vars, IInv, TypeOK, PendingReached, IssuedReached, OneServer, TakenOnce
  <1> QED
    BY <1>1, <1>2, <1>3, <1>4, <1>5, <1>6 DEF Next

\* No two calls of NextID return the same id, of any servers and across restarts, as long as the
\* counters do not wrap and no server starts with a number in use or behind it.
THEOREM IdsAreUnique == Spec => []UniqueIds
  <1>1. ASSUME IInv PROVE UniqueIds
    <2> SUFFICES ASSUME ~overlap, NEW a \in issued, NEW b \in issued, a # b, a.id = b.id
                 PROVE  a.count - b.count >= Low \/ b.count - a.count >= Low
      BY DEF UniqueIds
    <2>1. /\ a.worker \in WorkerIds /\ a.count \in Nat /\ a.id = Id(a.worker, a.count)
          /\ b.worker \in WorkerIds /\ b.count \in Nat /\ b.id = Id(b.worker, b.count)
      BY <1>1 DEF IInv, TypeOK, IssuedReached
    <2>2. a.worker = b.worker
      <3>1. Id(a.worker, a.count) \div Low = a.worker
        BY <2>1, IdParts
      <3>2. Id(b.worker, b.count) \div Low = b.worker
        BY <2>1, IdParts
      <3>3. Id(a.worker, a.count) = Id(b.worker, b.count)
        BY <2>1
      <3> QED
        BY <3>1, <3>2, <3>3
    <2>3. a.count # b.count
      BY <1>1, <2>2 DEF IInv, TakenOnce
    <2>4. a.count % Low = b.count % Low
      <3>1. a.count % Low \in 0 .. Low - 1 /\ b.count % Low \in 0 .. Low - 1
        BY <2>1, LowType, Division
      <3>2. a.worker * Low + (a.count % Low) = a.worker * Low + (b.count % Low)
        <4>1. a.id = a.worker * Low + (a.count % Low)
          BY <2>1, IdParts
        <4>2. b.id = b.worker * Low + (b.count % Low)
          BY <2>1, IdParts
        <4> QED
          BY <2>2, <4>1, <4>2
      <3>3. a.worker * Low \in Nat
        BY <2>1, LowType, BitsAssumption DEF WorkerIds
      <3> QED
        BY <3>1, <3>2, <3>3, LowType
    <2> QED
      BY <2>1, <2>3, <2>4, LowType, SameRemainder
  <1> QED
    BY <1>1, InitInv, NextInv, PTL DEF Spec

\* An id never runs out of the bits of its worker, also when the clock needs more than 41.
THEOREM WorkerIsInId == Spec => []WorkerInId
  <1>1. ASSUME IInv PROVE WorkerInId
    <2> SUFFICES ASSUME NEW a \in issued PROVE a.id \div Low = a.worker /\ a.id < Workers * Low
      BY DEF WorkerInId
    <2>1. a.worker \in WorkerIds /\ a.count \in Nat /\ a.id = Id(a.worker, a.count)
      BY <1>1 DEF IInv, TypeOK, IssuedReached
    <2> QED
      BY <2>1, IdParts
  <1> QED
    BY <1>1, InitInv, NextInv, PTL DEF Spec

\* The types, of which the widths of an id are a part.
THEOREM IdTypes == Spec => []TypeOK
  <1>1. IInv => TypeOK
    BY DEF IInv
  <1> QED
    BY <1>1, InitInv, NextInv, PTL DEF Spec

=============================================================================
