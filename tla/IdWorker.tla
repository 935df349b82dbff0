------------------------------- MODULE IdWorker -------------------------------
(***************************************************************************)
(* The generator of transaction and branch ids (util/uuid/id_worker.go),   *)
(* as the TC servers of a cluster use it: NextID is called by the handlers *)
(* of Begin and BranchRegister, any number of them at a time.              *)
(*                                                                         *)
(* An id is a worker number of 10 bits, followed by 53 bits that a server  *)
(* counts up from the millisecond of its start, shifted by 12 bits.        *)
(* Nothing is stored: a restart starts from the clock again.               *)
(***************************************************************************)
EXTENDS Integers, FiniteSets

CONSTANTS
  Nodes,        \* servers
  Goroutines,   \* handlers of a server that take an id
  Workers, Timestamps, Sequences,   \* 2^workerIDBits, 2^timestampBits, 2^sequenceBits
  MaxClock, MaxIds                  \* bounds: milliseconds since the epoch, ids issued

ASSUME BitsAssumption == /\ Workers \in Nat \ {0} /\ Timestamps \in Nat \ {0}
                         /\ Sequences \in Nat \ {0}
ASSUME BoundAssumption == MaxClock \in Nat /\ MaxIds \in Nat

WorkerIds == 0 .. Workers - 1                       \* up to maxWorkerID
Low == Timestamps * Sequences                       \* timestampAndSequenceMask + 1
Idle == -1

VARIABLES
  clock,     \* the time of day, which may be set back
  up,        \* the servers that run
  workerID,  \* of each server, before the shift
  timestampAndSequence,   \* of each server: its counter
  next,      \* of each handler of each server: the value AddUint64 has returned
  issued,    \* the ids returned, and from where
  reached,   \* of each worker number: the highest value a counter had under it
  overlap    \* a server was started with the number of another, or behind what was reached

vars == <<clock, up, workerID, timestampAndSequence, next, issued, reached, overlap>>

Init ==
  /\ clock \in 0 .. MaxClock /\ up = {}
  /\ workerID = [n \in Nodes |-> 0] /\ timestampAndSequence = [n \in Nodes |-> 0]
  /\ next = [n \in Nodes |-> [g \in Goroutines |-> Idle]]
  /\ issued = {} /\ reached = [w \in WorkerIds |-> 0] /\ overlap = FALSE

Clock ==
  /\ clock' \in (0 .. MaxClock) \ {clock}
  /\ UNCHANGED <<up, workerID, timestampAndSequence, next, issued, reached, overlap>>

\* uuid.Init: the number generated from the MAC address, or at random, stays when the configured
\* one is out of range; main ignores the error
WorkerOf(serverNode, generated) == IF serverNode \in WorkerIds THEN serverNode ELSE generated

\* the package's init, and Init as main calls it
Start(n, serverNode, generated) ==
  LET w == WorkerOf(serverNode, generated)
      t == clock * Sequences
  IN
  /\ n \notin up /\ up' = up \cup {n}
  /\ workerID' = [workerID EXCEPT ![n] = w]
  /\ timestampAndSequence' = [timestampAndSequence EXCEPT ![n] = t]
  /\ overlap' = (overlap \/ t < reached[w] \/ \E m \in up : workerID[m] = w)
  /\ UNCHANGED <<clock, next, issued, reached>>

\* a stop or a crash: what the server held in memory is gone
Stop(n) ==
  /\ n \in up /\ up' = up \ {n}
  /\ workerID' = [workerID EXCEPT ![n] = 0]
  /\ timestampAndSequence' = [timestampAndSequence EXCEPT ![n] = 0]
  /\ next' = [next EXCEPT ![n] = [g \in Goroutines |-> Idle]]
  /\ UNCHANGED <<clock, issued, reached, overlap>>

Taken == {h \in Nodes \X Goroutines : next[h[1]][h[2]] # Idle}

\* NextID up to the atomic addition
Add(n, g) ==
  LET c == timestampAndSequence[n] + 1 IN
  /\ n \in up /\ next[n][g] = Idle /\ Cardinality(issued) + Cardinality(Taken) < MaxIds
  /\ timestampAndSequence' = [timestampAndSequence EXCEPT ![n] = c]
  /\ next' = [next EXCEPT ![n][g] = c]
  /\ reached' = [reached EXCEPT ![workerID[n]] = IF c > @ THEN c ELSE @]
  /\ UNCHANGED <<clock, up, workerID, issued, overlap>>

\* variant: the timestamp is not masked
IdUnmasked(w, c) == w * Low + c

\* the shifted worker number, or-ed with the counter under the mask
Id(w, c) == w * Low + (c % Low)

\* variant: the counter is read again
IssueReread(n, g) ==
  LET c == timestampAndSequence[n] IN
  /\ n \in up /\ next[n][g] # Idle
  /\ issued' = issued \cup {[id |-> Id(workerID[n], c), worker |-> workerID[n], count |-> c,
                             node |-> n, goroutine |-> g]}
  /\ next' = [next EXCEPT ![n][g] = Idle]
  /\ UNCHANGED <<clock, up, workerID, timestampAndSequence, reached, overlap>>

\* the rest of NextID
Issue(n, g) ==
  LET c == next[n][g] IN
  /\ n \in up /\ next[n][g] # Idle
  /\ issued' = issued \cup {[id |-> Id(workerID[n], c), worker |-> workerID[n], count |-> c,
                             node |-> n, goroutine |-> g]}
  /\ next' = [next EXCEPT ![n][g] = Idle]
  /\ UNCHANGED <<clock, up, workerID, timestampAndSequence, reached, overlap>>

Next ==
  \/ Clock
  \/ \E n \in Nodes :
       \/ Stop(n)
       \/ \E serverNode \in -1 .. Workers, generated \in WorkerIds : Start(n, serverNode, generated)
       \/ \E g \in Goroutines : Add(n, g) \/ Issue(n, g)

Spec == Init /\ [][Next]_vars

-----------------------------------------------------------------------------

\* Every variable has its type; the word of a counter never wraps within the bounds.
TypeOK ==
  /\ clock \in 0 .. MaxClock /\ up \subseteq Nodes
  /\ workerID \in [Nodes -> WorkerIds] /\ timestampAndSequence \in [Nodes -> Nat]
  /\ next \in [Nodes -> [Goroutines -> Nat \cup {Idle}]]
  /\ issued \subseteq [id : Nat, worker : WorkerIds, count : Nat, node : Nodes, goroutine : Goroutines]
  /\ reached \in [WorkerIds -> Nat] /\ overlap \in BOOLEAN

\* Two calls of NextID, of any servers and runs, return the same id only when the 53 bits have
\* wrapped between them, or when some server was started with a number in use or with a clock
\* behind what its number had reached: set back, or overtaken by ids taken at more than
\* Sequences a millisecond (id_worker.go:46, 59).
UniqueIds ==
  ~overlap => \A a, b \in issued :
    a # b /\ a.id = b.id => a.count - b.count >= Low \/ b.count - a.count >= Low

\* An id carries the number of its worker and is a positive int64, whatever the clock is:
\* a timestamp of more than 41 bits does not run into the worker number.
WorkerInId == \A a \in issued : a.id \div Low = a.worker /\ a.id < Workers * Low

=============================================================================
