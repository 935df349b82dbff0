# A TLA+ model of seata-golang

seata-golang coordinates distributed transactions. A *transaction manager* (TM, in the
client) begins a global transaction and later commits it or rolls it back; *resource
managers* (RM, in the client) register the branches they take part with; the *transaction
coordinator* (TC, the server) records both and, in phase two, calls the RMs until every
branch has been committed or rolled back. This directory holds a TLA+ model of the
coordinator, of the streams between it and the RMs, of the TM client and of the code they
rest on, the properties these should have, model-checking runs and machine-checked proofs.
Paths in this file are relative to the repository.

| file | what it is |
|---|---|
| `TransactionCoordinator.tla` | the coordinator: TC goroutines, stores, row locks, TMs, RMs, faults |
| `GlobalTransaction.tla` | what the coordinator promises of a global transaction: one decision, all or nothing |
| `TCProperties.tla` | the coordinator's type invariant, safety and liveness properties, inductive invariant, refinement mapping |
| `TCProofs.tla`, `TCIsolationProofs.tla`, `TCSessionProofs.tla`, `TCBranchProofs.tla` | theorems about the coordinator: decisions; write isolation; what is left when a session is gone; no branch is lost, and `GlobalTransaction` is implemented |
| `RowLock.tla`, `RowLockSQL.tla`, `RowLockProofs.tla` | the lock table as promised, as the SQL stores implement it, and the proof that they do |
| `RetryScan.tla` | which sessions the periodic workers come round to, with a query limit |
| `BranchCall.tla` | what a phase-two call promises to its caller |
| `BranchStream.tla`, `BranchStreamProperties.tla` | the streams between TC and RM, goroutine by goroutine; their properties and the refinement of `BranchCall` |
| `BranchStreamProofs.tla` | theorems about the streams, and the proof that they implement `BranchCall` |
| `TMClient.tla`, `TMClientProofs.tla` | the proxy and global transaction of the TM client, its context; theorems |
| `IdWorker.tla`, `IdWorkerProofs.tla` | the identifier generator; theorems |
| `Messages.tla`, `Wire.tla` | the message types of `seata.proto`, and the generated codec |
| `MCTransactionCoordinator.tla`, `MCRowLockSQL.tla`, `MCRetryScan.tla`, `*.cfg` | small instances for TLC |
| `PROJECT.json` | components, runs, mutants, source map, findings, hazards, theorems |

To repeat a run: `tlc -config TCCrash.cfg MCTransactionCoordinator`. The modules without an MC
module are their own: `tlc -config Wire.cfg Wire`, and `BranchStream.cfg` goes with
`BranchStreamProperties`. To check the proofs: `tlapm TCProofs.tla`, and so on.


## 1. Inventory

### Components

**Transaction coordinator** (`pkg/tc/server/transaction_coordinator.go`). No state of its
own apart from stream bookkeeping; everything else is in the store. One goroutine per
request and four workers that wake up on timers:

| operation | what it does to the state |
|---|---|
| `Begin` | insert a session row: status Begin, active |
| `BranchRegister` | read the session, check Active and Begin, acquire row locks (AT only), insert the branch row |
| `BranchReport` | read the session and its branches, overwrite the branch status |
| `Commit` | read; inactivate; free all row locks; if Begin, store Committing, then drive, or store AsyncCommitting and leave the rest to a worker |
| `Rollback` | read; inactivate; if Begin, store RollingBack and drive |
| `doGlobalCommit`, `doGlobalRollback` | call each branch; after a success free its locks and delete its row; look for branches again; store the final status, free the locks, delete the session |
| `timeoutCheck` | for each listed Begin session past its timeout: inactivate, store TimeoutRollingBack |
| `handleRetryRollingBack`, `handleRetryCommitting`, `handleAsyncCommitting` | list sessions by status and connected TM; give up on the ones past the retry limit; drive the others |
| `BranchCommunicate` | one stream per RM: send phase-two messages, receive answers, resolve futures |

Correct when: a decision needs a mandate; a transaction has one decision; no branch is
forgotten; the session outlives its branches; what a TM is told is true; each decided
transaction ends.

**Session holder** (`pkg/tc/holder/session_holder.go`, `pkg/tc/model`). Stateless; turns one
operation into several store calls: a find reads the session row, *then* the branch rows;
`RemoveGlobalTransaction` deletes the session row, *then* the branches of the caller's copy.
Correct when the gaps between these calls do no harm.

**Global session locker** (`pkg/tc/server/global_session_locker.go`). `TryLock` returns true
and `Unlock` returns; it excludes nobody.

**Lock manager and row locks** (`pkg/tc/lock/lock_manager.go`,
`pkg/tc/storage/driver/mysql/mysql.go` 412-502). A table row key → xid. Correct when a row has
one holder, stays held while its branch may be undone, and is not left behind.

**SQL stores** (`pkg/tc/storage/driver/mysql`, `pgsql`). Tables `global_table`,
`branch_table`, `lock_table`; each statement is a transaction of the database; reads return
copies. Errors of reads are logged and come back as nothing found.

**In-memory store** (`pkg/tc/storage/driver/inmemory`). Maps that share pointers with their
callers.

**Branch streams** (`transaction_coordinator.go` 346-367, 569-707,
`pkg/common/message_future.go`, `pkg/client/rm/resource_manager.go` 70-200). At the TC per
application an unbuffered queue and a count of its streams, per message a future with a Done
channel and a timer, per stream a goroutine that sends and one that receives. At the RM one
receive loop, a channel of answers, and a sender goroutine per stream. Correct when a caller
gets the answer to its own call or an error, always comes back, a message is carried out at
most once, and goroutines, futures and counts of broken streams go away.

**TM client** (`pkg/client/tm`, `pkg/client/base`). Per proxied call a `RootContext` with a
local map, a global transaction object with a role and an XID, and what was suspended. Operations: the
proxy's six propagations, Begin, Commit, Rollback with retries, Suspend, Resume. Correct when
only the launcher ends a transaction, according to its method's result, when success means
acknowledged, and when nothing runs in a transaction it was suspended from or that is over.

**RM client and TCC resource manager** (`pkg/client/rm`, `pkg/client/tcc`). Registers
branches, keeps the stream open, dispatches phase-two messages to the user's methods. Correct
when an answer tells what the method did, and a broken stream is replaced.

**Identifier generator** (`pkg/util/uuid/id_worker.go`). A worker number and one atomic
counter made of timestamp and sequence. Correct when no two ids are equal.

**Wire messages** (`pkg/apis/seata.pb.go`). Stateless: Size, Marshal and Unmarshal of 24
message types. Correct when the buffer has the size that is written, what is sent is received,
also with unknown fields in it, and no input makes the decoder stay, overrun or accept a part
of a field.

**Events and metrics** (`pkg/tc/event`, `pkg/tc/metrics`). An unbuffered channel and one
subscriber that counts. Correct when it never keeps a sender waiting for good: `timeoutCheck`
sends from inside its round.

**Configuration, logging, parsers, service stubs, mocks**: see "Not modelled".

### Interaction

TM → TC: unary calls Begin, Commit, Rollback; the TM repeats a request whose reply failed.
RM → TC: unary calls BranchRegister, BranchReport; TC → RM: messages on a stream the RM
opened. TC → store: calls that are atomic one by one. Goroutines of the TC share nothing but
the store and the stream bookkeeping, and each one acts on the copy it has read.

### What is hard

* Several goroutines drive one transaction: two handlers after a repeated request; a handler
  and `retryRollingBack` (the dead limit of `IsRollingBackDead` compares milliseconds with
  seconds, so it elapses early); any of them and `timeoutCheck`. Nothing serialises them.
* Everything is decided on copies, and status updates are unconditional.
* `BranchRegister` inserts a branch long after it has looked at the session.
* A crash leaves a prefix of a sequence of store calls; only statuses that some worker's
  query selects are ever looked at again.
* Failed reads are indistinguishable from empty results.
* A phase-two call that times out may still have been carried out.
* A phase-two call involves five goroutines and as many channels, which may outlive the
  stream or the call they were made for.
* A context of the TM client has two places for the XID, of which nested calls read one, and
  goroutines may use it when its call has returned.

The full list, line by line, is under `hazards` in `PROJECT.json`.


## 2. The model

`TransactionCoordinator` has a process for each goroutine of the TC: the `Handlers`, which
serve Commit and Rollback, and the four workers. A process has a program counter `pc` whose
labels are the store calls of the code, and the locals of its goroutine:

| field | in the code |
|---|---|
| `dec` | commit or rollback: which of the two functions runs |
| `list`, `st`, `open` | the sessions read, with the status and the Active flag of the copy |
| `view`, `failed` | the branch rows read, and those among them with status PhaseOneFailed |
| `x`, `todo`, `cur` | the transaction and the branch at hand, the branches of the walk that are left |
| `goal` | the status about to be written |

The shared state is the store: `status` and `active` (`global_table`), `bs`
(`branch_table`), `lock` (`lock_table`); "None" and `NoXid` stand for a row that is absent.
`reg`, `tm`, `calls` are the progress of the RMs and TMs, `past` the time limits each
transaction has outlived, `online` the live streams, and `told`, `asked`, `acked`, `refused`
a history of replies and phase-two calls which only properties read (no action is enabled or
disabled by it).

| code | actions |
|---|---|
| `Begin`; the proxy's `Implement` | `Begin`; `Decide` |
| `Commit`, `Rollback` | `Request`, `FindBranches`, `CloseSession`, `ReleaseOnCommit`, `RecordDecision`, `DeferCommit`, `AlreadyDecided` |
| `doGlobalCommit`, `doGlobalRollback` | `RefuseSaga`, `DropFailedBranch`, `SendCallback`, `QueueNotReady`, `AnswerDone`, `AnswerRetryable`, `AnswerCannotRetry`, `AnswerError`, `RecordRetry`, `ReleaseBranch`, `RemoveBranchSession`, `EndOfWalk`, `Recheck` |
| ... their end | `FinalStatus`, `FinalUnlock`, `RemoveGlobalSession`, `RemoveLeftBranch` |
| `timeoutCheck` | `Scan`, `PickTimeout`, `CloseSession`, `RecordTimeout` |
| the other workers | `Scan`, `FindBranches`, `SkipRollingBack`, `PickRetry`, then the walk |
| `BranchRegister` | `RegisterFind`, `AcquireLock`, `AddBranchSession` |
| `BranchReport` | `ReportFind`, `ReportWrite` |
| time, streams, crash | `Elapse`, `Connect`, `Disconnect`, `Crash` |
| failed store calls | `RequestError`, `FindBranchesError`, `RecheckError`, `UnlockError`, `WriteError`, `RegisterError` |

Choices worth knowing:

* **Granularity.** One store call is one step. Local computation between two calls is part of
  the step before or after it; local variables are nobody else's, so nothing is lost.
* **Order of branches.** The walk takes the branches in any order: the code iterates over a
  Go map.
* **Commit and rollback** share their actions where the two functions do the same thing, with
  `dec` telling them apart; every difference of the code (asynchronous commit, failed phase
  one, error handling in the walk, timeout statuses) is a condition in the action.
* **Time** is what it enables: `Elapse(x, limit)` marks that the age of `x` has passed
  `limit`, one of the transaction's timeout, the dead limit of `RollingBack`, the retry limit.
  Limits elapse in any order, since each is configured on its own. A session that is past its timeout stays past
  it, as the code computes age from the begin time.
* **A phase-two call** is sent (`SendCallback`) and comes to one of `Outcomes`. `AnswerError`
  covers the timeout, and the history does not claim that the RM did nothing. This is
  `BranchCall` seen from its caller, which `BranchStream` implements: refused
  (`QueueNotReady`), answered by what the RM did for this call, or failed.
* **Crash** drops the goroutines, the streams and the requests in flight; the tables stay.
  TMs and RMs go on. The client of an interrupted registration sees an error.
* **Store errors** take effect as the code handles them: a failed read of a session is "no
  such session", of branches "no branches"; a failed write ends the handler with an error; a
  failed unlock is ignored.
* Definitions named *variant* in a comment (`BeginUnset`, `RecheckSkipped`, ...) are slightly
  wrong forms of the operation defined after them. Nothing uses them; they show that each
  property notices a mistake of that kind.


### The promise

`GlobalTransaction` says what all this is for, in eight actions without processes, rows or
copies. A transaction has a `decision`; a `branch` enters it, or fails in phase one, before the
decision (`Enter`, `FailPhaseOne`); afterwards a branch carries out this decision (`CarryOut`)
and no other, maybe more than once; the transaction ends (`End`) when each branch that entered
and did not fail has done so; only then is the TM told Finished (`TellFinished`). The exception is
a transaction that may be given up (`Pardon`), whose retries have run out or which an RM has
refused for good: it may end as it is. `AllOrNothing` is what follows.

| `GlobalTransaction` | seen in the coordinator | step |
|---|---|---|
| `decision` | `tm` | `Begin`, `Decide` |
| `branch` | `Progress(b)`: entered when `reg[b]` is registered, failed once a report has been found admissible | `AddBranchSession`, `ReportFind` |
| `done` | `acked` | `AnswerDone` |
| `pardoned` | the transactions with `Pardoned(x)` | `Elapse(x, "retry")`, `AnswerCannotRetry` |
| `ended` | those decided and without a session | `RemoveGlobalSession` |
| `finished` | those with Finished in `told` | `Request` that finds no session |

`TCProperties` states with this mapping that the coordinator implements it
(`ImplementsGlobalTransaction`). Every other step is a stutter: closing, walking, writing
statuses, deleting branch rows, crashing and starting again are the coordinator's own affair. The
promise is kept when transactions are decided in time and the store works (section 4). A
transaction that outlives its timeout is rolled back although its TM has not decided, and a
branch may enter while it is.


### The row locks

The coordinator takes `AcquireLock` to be one atomic step. In the SQL stores it is not:
one statement reads the rows of the LockKey, another inserts those that are missing, and no
database transaction holds the two together. `RowLockSQL` models them as they are, one
action per statement, with `skipCheckLock`, with failing statements (a failed SELECT finds
nothing; a failed INSERT may have taken effect all the same, as the comment in `AcquireLock`
says) and with the DELETE of `ReleaseLock`. `RowLock` is the table the coordinator relies
on: `Acquire` takes all rows of a branch or is not enabled, `Release` frees rows of one transaction, also
under a sibling branch that shares them. `RowLockSQL` is shown to implement it with
`holder <- locks` and `granted` the branches whose AcquireLock returned true. An acquisition
takes effect at the INSERT, or at the SELECT when every row is its transaction's own already.

The implementation holds as long as no row of a transaction is released while one of its
branches is between the two statements (`Overlap = FALSE`). The coordinator guarantees that
when the TM decides after its business calls have returned and no timeout elapses. With
`Overlap = TRUE` TLC finds the counterexample in five states: a branch finds row `r` to be its
transaction's own, a sibling's rollback frees `r`, the branch inserts its other rows and is
told that it has them all.


### The retry scan

In the coordinator a worker's list holds every session its query selects. In the stores the
query has `ORDER BY gmt_modified LIMIT queryLimit`. `RetryScan` has that, for `timeoutCheck`
and `retryRollingBack` (the other two workers query in the same way): `order` is the table by
gmt_modified, `round` the list of a worker with the statuses it has read, `past` and `online`
as in the coordinator. A write moves a session to the end; a retry that fails writes nothing
(`if !retrying` in `doGlobalRollback`), so sessions in `Stuck`, whose RM never rolls back,
stay in front; they are there from an earlier run of the TC.

| code | actions |
|---|---|
| `Begin`; `Commit` and `Rollback`, seen from their writes | `Begin`; `Decide`, `HandlerEnds` |
| `timeoutCheck` | `Scan`, `Check`, and blocked on the event channel while `sending` |
| `ProcessGlobalTransactionEvent` | `Receive` |
| `handleRetryRollingBack` | `Scan`, `Pass` (skipped, given up or without success), `RollBack` |
| time, streams | `Elapse`, `Connect`, `Disconnect` |

A slot of `Xids` stands for one transaction after the other; it is used again when no list of a
worker has it any more, since XIDs are not. Rows of one second, the resolution of
gmt_modified, are taken in the order they were written.


### The branch streams

`BranchStream` is the inside of a phase-two call: one application with its RM, several calls
and several streams, one after the other. All channels are unbuffered, so a send and the
matching receive are one step, possible only when both goroutines are there.

| state | in the code |
|---|---|
| `call`, `mid`, `got` | the goroutine in `branchCommit` or `branchRollback`, its message ID, the answer |
| `idGenerator`, `futures` | `tc.idGenerator`, `tc.futures` |
| `handler` | the receive loop of `BranchCommunicate` for each stream, with the future it holds |
| `tcSender`, `tcOut` | the goroutine that takes from the queue and calls `stream.Send` |
| `count`, `raced` | `activeApplications` of the address; whether an update got lost (for the property only) |
| `conn`, `down`, `up` | the stream and the messages on it |
| `rm`, `rmSender`, `rmOut` | the RM's receive loop, and the sender goroutine of each stream |

| code | actions |
|---|---|
| `branchCommit`, `branchRollback` | `HandOff`, `QueueNotReady`, `StoreFuture`, `Timeout`, `Deliver` (the waiter's side) |
| `BranchCommunicate` | `Enter`, `Open`, `Send`, `SendFails`, `Recv`, `Deliver`, `DeleteFuture`, `RecvError`, `ExitLoad`, `ExitStore` |
| the RM's `branchCommunicate` | `Connect`, `Execute`, `Panic`, `HandAnswer`, `HandAnswerLate`, `Reconnect`, `SendAnswer`, `SendAnswerFails`, `LateExits` |
| TCC resource cache, Confirm and Cancel | `RegisterResource`, `Execute`, `Panic` |
| network and processes | `Break`, `TcCrash`, `RmCrash` |

A stream that breaks may still deliver what has arrived, or not. A crash of the TC restarts
the message IDs at 1. The counter is loaded and stored in two steps, as the code does.
Places where a goroutine stays for good are in the model as they are in the code: the TC's
receive loop at `future.Done <- true` when the waiter has timed out (`LoopStuck`), the RM's
loop at `branchMessages <-` when its sender has ended, or gone after a panic (`RmStuck`). The
liveness properties name them as their exceptions; all other goroutines of a broken stream
end, and no call is ever held up.

`BranchStreamProperties` maps `BranchStream` to `BranchCall`: a call is pending from the
hand-off until it is answered or fails; what the RM did is `ran`.


### The TM client

`TMClient` is a chain of synchronous proxied calls. `stack` holds the calls under way, `call`
the context and global transaction object of each. A call gets a `RootContext` of its own
(`NewRootContext`): `value` is `TX_XID` of the embedded `context.Context`, `local` the map
that Bind and Unbind change. How the next call gets its context is its *hop*: *direct*, as
the context the caller was given; *carried*, with the XID the caller has now; *fresh*, an
empty one.

| code | actions |
|---|---|
| `proxy.go` `Implement`, the switch on the propagation | `Call` with `Propagate` |
| `BeginWithTimeoutAndName` | `BeginIgnored` (participant), `Begin`, `BeginFails` |
| the method returns, `Commit` or `Rollback` is chosen | `FinishPlain`, `FinishParticipant`, `FinishLauncher`, `Panic` |
| `Commit`, `Rollback` with their retry loops | `Acknowledged`, `Unacknowledged` |
| `client/tcc/proxy.go` | `Try`, by the method or by a goroutine it has started |

Two traits of the code are visible in it. A direct nested call sees the XID the *caller* was
given, not the caller's suspension: suspending takes the XID out of the local map, and the
nested call reads the embedded context. And `RequiresNew` inside a transaction suspends it but
keeps the role of participant it was created with, so it begins nothing of its own. The
properties say what holds nevertheless.


### The identifier generator

`IdWorker` has servers that start with a configured or generated worker number and the clock
of the day, take ids with any number of goroutines, and stop. `AddUint64` (`Add`) and the
rest of `NextID` (`Issue`) are two steps. The three parts of an id have 10, 41 and 12 bits in
the code and are constants here. `reached` and `overlap` record, for the property only,
whether some server started with a number in use or behind what the number had reached: the
case in which the code cannot keep ids apart.


### Wire messages

`Messages` gives the 24 message types as sequences of field kinds; the fields are numbered
without a gap. `Wire` encodes a message (`Size`, `Marshal`), lets it arrive whole, cut at any
byte, with an unknown field of any wire type put in anywhere, or as arbitrary bytes, and
decodes it: one turn of the loop of `Unmarshal` is `Field`, one turn of the loop of
`skipSeata` is `Skip`. Words have `WordBits` and `HalfBits` bits instead of 64 and 32; groups
of 7 bits, tags and wire types are those of the code. The content of an embedded `Any` is
opaque: its own `Unmarshal` may accept or refuse. A cut at a field boundary decodes as a
message with its last fields unset, since the format has no end marker; so a lost tail can
turn a result code into 0, which is `Failed`.


## 3. Runs

Each run explores every behaviour of one small instance.

| run | instance | properties | shows |
|---|---|---|---|
| `TCCrash` | one transaction, a TCC and an AT branch, 2 handlers, 2 requests, 1 crash; symmetry of handlers | `TypeOK`, `Agreement`, `FinishedReplyIsTrue`, `ImplementsGlobalTransaction`, `SessionOutlivesBranches`, `DecisionIsStable` | two handlers and the workers drive one transaction together, with a crash between any two store calls, and it still is a `GlobalTransaction`: no decision is revised, no branch forgotten, no premature Finished |
| `TCIsolation` | two transactions, an AT branch each, one row | `WriteIsolation`, `NoOrphanLock` | the row stays locked until its owner cannot roll back any more, and is not left to a transaction that is gone |
| `TCTimeout` | TCC and AT branch, timeout and dead limit, streams that break, failing phase one | `IInv`, `NoLostBranch` | no branch is forgotten in the races of `timeoutCheck` with Commit and Rollback; also the inductive invariant of the proofs, `Validity` in it |
| `TCStoreError` | TCC, AT and SAGA branch, one failing store call, late registrations and reports | `Validity` | a failed call may lose work but takes no decision, also where it hides the SAGA branch |
| `TCLive` | TCC and AT branch, retry limit with `rollbackRetryTimeoutUnlockEnable`, fair specification | `NoOrphanLock`, `EventuallyFinished`, `NoOrphanBranch` | every decided transaction is driven to its end, however far the retry limit is, and no branch row stays; giving up removes the transaction together with its locks |
| `RowLock` | two transactions with two branches each, three rows that overlap within and between them, failing statements, one branch with skipCheckLock | `LockInv`, `ImplementsRowLock` | the two statements of AcquireLock behave like one, whatever they interleave with |
| `RetryScan` | three sessions, one of them stuck; `queryLimit` 2, or 1 and a retry limit; a TM that loses its streams; fair specification | `TimeoutIsNoticed`, `RollbackGetsThrough` | the workers come round to every session that can make progress, unless stuck ones fill the query and nothing removes them |
| `BranchStream` | two calls, two streams, one fault (break, crash of either end, panic), fair specification | `AnswerIsOwn`, `NoZombieFuture`, `OneLoopPerCall`, `CountUnlessRaced`, `WaitingIsHeard`, `CallsReturn`, `HandlersEnd`, `StreamIsReplaced`, `ImplementsBranchCall` | callers get the answer of their own call or an error and always come back; goroutines, futures and counts of a broken stream go away, with the exceptions the properties name |
| `TMClient` | three calls, two attempts per request | `DecisionFollowsResult`, `SuccessIsAcknowledged`, `NoForgottenTransaction`, `SuspendedStaysOut`, `UnboundAfterDecision`, `OnlyLauncherDecides` | the launcher alone ends its transaction, as its method's result says; success means acknowledged; nothing runs in a transaction suspended or over, except where the properties say so |
| `IdWorker` | two servers, two goroutines each, two values for each part of an id, restarts | `UniqueIds`, `WorkerInId` | ids are unique unless a server starts in or behind the range of another, or a counter wraps; also for clocks set back and parts that overflow |
| `Wire` | every message type, boundary values in every field, cuts, unknown fields, arbitrary bytes | `SizeIsExact`, `RoundTrip`, `NoPartOfAField`, `InBounds`, `AlwaysAdvances` | the codec is exact, forward compatible, and comes to an end on every input |

`VFinalTimeout` checks a statement of the repository's documentation that the code does not
live up to; TLC's counterexample is the point. `seata.proto:115` says "PHASE 2: Final Status:
will NOT change any more."; but `timeoutCheck` lists a session as Begin, Commit finishes up to
Committed, and `timeoutCheck` overwrites it with TimeoutRollingBack.

### Behaviours that are known

The model shows some more behaviours of the code that a reader may not expect. No run is
kept for them; each can be seen by changing a cfg as the last column says.

| behaviour | where | to see it |
|---|---|---|
| A branch is left behind without a session: `BranchRegister` has read the open session, the whole rollback of a timed out transaction runs, then the branch is inserted. The second query of the code (comment at `transaction_coordinator.go:535`) cannot find it. | `transaction_coordinator.go:778` | `SecondQuerySuffices` in `TCTimeout.cfg` |
| `Commit` answers Committed although an RM has refused for good and the status is CommitFailed. | `transaction_coordinator.go:215` | `CommittedReplyIsTrue` in `TCTimeout.cfg` |
| A failed second query returns an empty list; the session is removed as Committed together with a branch nobody committed. | `mysql.go:372` | `NoLostBranch` in `TCStoreError.cfg` |
| After a crash in Committing no worker's query selects the transaction, which stays so. | `session_holder.go:66`, `transaction_coordinator.go:171` | `CommittingIsDriven` in `TCLive.cfg` with `MaxCrashes = 1` |
| `queryLimit` sessions that cannot be rolled back, and no retry limit: their gmt_modified stays the oldest, and no other rollback is ever retried. | `mysql.go:319`, `transaction_coordinator.go:468` | `RetryScan.cfg` with `queryLimit` 1 in both configurations of `MCRetryScan` |
| A registration that fails after AcquireLock leaves its rows locked when the transaction is over. | `transaction_coordinator.go:767` | `NoOrphanLock` in `TCStoreError.cfg` with `LateRPC = FALSE` |
| A late answer blocks the receive loop of its stream for good, and a panic in Confirm or Cancel ends the RM's loop while its stream stays up. | `transaction_coordinator.go:686`, `resource_manager.go:107` | `HandlersEnd`, `StreamIsReplaced` without `LoopStuck`, `RmStuck` |
| Two streams of one address that open or close at the same time lose an update of the count. | `transaction_coordinator.go:628` | `CountUnlessRaced` without `raced` |

### Bounds, and why they are enough

* One or two transactions, two branches. The code treats transactions independently except
  for row locks (two contenders suffice: `TCIsolation`) and the lists of the workers (one item
  done and one to come: `TCIsolation` again). Two branches give the walk a branch done and one
  to come, mixed types give synchronous and asynchronous commit.
* `MaxCalls`: how often a TM sends its decision; 2 wherever two handlers are present. Each
  branch registers once and reports at most once.
* `MaxCrashes = 1` or 0, `MaxStoreErrors = 1` or 0: single faults, at every point.
* `Deadlines`, `Outcomes`, `Droppable`, `Reporters` switch kinds of faults on per run; the cfg
  files say which. Two combinations are left out of the passing runs because properties are
  really lost there, for the first of the known behaviours. With late registrations *and*
  timeouts, `NoLostBranch` fails: two workers drive the transaction and a branch
  arrives between their second queries. With timeouts, `NoOrphanBranch` fails: a branch is
  inserted after the second query of a rollback nobody asked for.
* `RetryScan`: a query that is full with a stuck session and one other, or with the stuck one,
  and a third session that is waiting, or that a wrong query would let in. The configuration is
  chosen at the start.
* `BranchStream`: with two calls and two streams an answer can be someone else's, a message
  can be taken by the goroutine of an old stream, and two handlers can update the count at the
  same time. `MaxFaults = 1` breaks the first stream in each of the four ways.
* `TMClient`: three calls give a call nested in a nested one, and a call after another;
  `RetryCount = 2` a first and a last attempt.
* `IdWorker`: one bit for each part, so that timestamps overflow and counters wrap after four
  ids; `MaxIds = 2` ids per behaviour, as uniqueness is about two; clocks from 0 to 2.
* `Wire`: words of 16 and 9 bits, so that numbers take up to three bytes and conversions to
  the narrow word cut; messages with at most two fields set, or all; arbitrary input of up to
  four bytes from an alphabet with tags, ends of groups, continued varints and invalid wire types.
* `CHECK_DEADLOCK FALSE` in every cfg but `Wire.cfg`: once all transactions, calls or ids are
  finished and the bounded requests are spent, nothing is left to do; that is the intended end.
  That work in progress does not stop early is what the liveness properties say. The decoder
  of `Wire` takes message after message and must never stop, so there deadlock is checked.

### Fairness

`FairSpec` assumes, and the code justifies:

* weak fairness of each goroutine's own steps: the Go scheduler runs what can run;
* weak fairness of each worker's `Scan`: timers fire again and again;
* weak fairness of `Connect`: the RM client reopens its stream in a loop;
* weak fairness of `Request` and of the RM's registration steps: a TM that has decided sends
  its decision, an RM finishes the call it has begun. `Begin`, `Decide`, `RegisterFind` and
  `ReportFind` are not fair: clients may stop in between, and a property says "once the TM has
  decided";
* weak fairness of `Elapse`: time passes; not up to the retry limit, so that giving up is
  possible but no liveness property rests on it;
* strong fairness of `SendCallback` and `AnswerDone` per process: an RM that is asked again
  and again is reachable and answers success some time. Each attempt may fail, so weak fairness
  would assume nothing. Without it no coordinator could finish anything.

`Crash`, `Disconnect`, store errors and bad answers are never fair.

`BranchStream!FairSpec` assumes weak fairness of every goroutine's steps (of `branchCommit` and
`branchRollback` once the message has gone, of the handlers and senders of each stream, of the
RM's loop) and of `Timeout`: the Go scheduler runs what can run, and timers fire. Whether there
is a call at all, whether a resource is registered and every fault is left open, and so is
which of several answers the RM gives.

`RetryScan!FairSpec` assumes what the coordinator does: time passes, timers fire and goroutines
go on (weak fairness of `Elapse`, `Scan`, `Check`, `Receive`, `Pass \/ RollBack`), and an RM of a
session that is not in `Stuck` succeeds some time if it is asked again and again (strong
fairness of `RollBackOf`).


## 4. Proofs

`TCProofs` proves, for all sets of transactions, branches, rows, applications and handlers
(handlers being distinct from the workers), any topology and any number of requests, crashes
and store errors:

| theorem | statement |
|---|---|
| `Invariance` | `Spec => []IInv` |
| `TypeCorrect` | `Spec => []TypeOK` |
| `ValidityHolds` | `Spec => []Validity`: a branch is asked to commit only if the TM decided to, and to roll back only if the TM decided to or the timeout elapsed |
| `AgreementHolds` | if no timeout can elapse, `Spec => []Agreement`: no transaction has a branch asked to commit and a branch asked to roll back |
| `DecisionStays` | if no timeout can elapse, `Spec => DecisionIsStable`: status rows stay within the decision they record |

The assumptions are those the model declares: `TopologyAssumption`, `HandlersAssumption`,
`BoundsAssumption`; the last two theorems add `"timeout" \notin Deadlines`.

`Validity` is not inductive: the order to a branch comes from the list of a
worker, that list from status rows, and a status row is written by a process acting on an
older copy. `IInv` closes the circle: every commit or rollback *status* has a mandate
(`StatusMandate`); every process is entitled to end everything on its list (`MandateOf`); and
its locals mean what its label says (`LocalOK`): the transaction at hand is on the list, the
walk stays within its branches, the status about to be written belongs to the decision. The
proof that `[Next]_vars` preserves `IInv` has one lemma per group of actions: those that
touch only the locals of one process, those that write a status, those that send a call,
those of the clients and the environment. `AgreementHolds` then follows: with no timeout a
mandate is the TM's decision, and `tm[x]` has one value. `DecisionStays` needs the invariant
before and after a step, and two facts about steps: a TM decides once, and no goroutine writes
Begin.

`RowLockProofs` proves, for all sets of transactions, branches and rows, with statements that
may fail:

| theorem | statement |
|---|---|
| `LockInvariance` | `Spec => []LockInv` |
| `ExclusiveHolds` | `Spec => []Exclusive`: a branch whose AcquireLock succeeded has all its rows until its own transaction releases one |
| `Refinement` | `Spec => RL!Spec`: the SQL row locks implement `RowLock` |

They assume `SQLTopology` and `~Overlap`. `Exclusive` needs a second part to be inductive,
`RestIsOwn`: a branch between its statements still owns the rows it is not going to insert.
The refinement has one lemma per statement, which says which step of `RowLock` it is.

`TCIsolationProofs` proves write isolation for the same parameters, store errors, crashes,
timeouts and late registrations included:

| theorem | statement |
|---|---|
| `IsolationHolds` | `Spec => []WriteIsolation`: the rows an AT branch has changed stay locked by its transaction until its rollback is done, an RM refuses for good, or the TM commits |

Two hypotheses, both about known limits of the code: the branches of one transaction lock
different rows (`OwnRows`; `ReleaseLock` matches row key and xid, so a branch would free a
row its sibling still needs), and pending rollbacks are not given up together with their locks (`NoGiveUp`;
`rollbackRetryTimeoutUnlockEnable` does just that). `WriteIsolation` is not inductive: locks
are freed by processes that act on old copies. `IsolationInv` adds what makes a copy safe to
act on. `RowsOK`: the rows are locked from AcquireLock to the insert of the branch already, so
before any copy can show it. `FreesOK`, for each process: its copy contains only branches that
were entered; a branch it takes for failed in phase one has failed; a branch it is about to
free was acknowledged or failed; after a rollback walk without a refusal nothing is left in the
copy, so the final unlock frees nothing. `FreesOK` is stated over sets that only grow
(`Grows`), so the steps of other processes keep it at once, and the proof needs one lemma for
each step of the process itself.

`TCSessionProofs` asks what is left of a transaction when its session row is gone. Each theorem
has the hypotheses under which the code keeps it:

| theorem | hypotheses | statement |
|---|---|---|
| `FinishedIsTrue` | `StoreWorks` | `Spec => []FinishedReplyIsTrue`: a TM that is told Finished has a transaction that is gone |
| `SessionOutlives` | `InTime`, `StoreWorks` | `Spec => SessionOutlivesBranches`: a session that ended well is deleted after its last branch row |
| `OrphansAreStray` | `InTime`, `StoreWorks`, `FreeOnGiveUp` | a row stays locked by a transaction that is gone only if a crash came between `AcquireLock` and the insert of the branch |
| `NoOrphan` | the same and `MaxCrashes = 0` | `Spec => []NoOrphanLock` |

`StoreWorks` is `MaxStoreErrors = 0`: after an error `FindGlobalTransaction` returns nothing, and
Commit answers Finished. `InTime` says that no transaction outlives its timeout
(`"timeout" \notin Deadlines`) and that the TM decides after its business calls have returned
(`~LateRPC`): otherwise a branch may register while its transaction is being rolled back, and a
session may go before it. `FreeOnGiveUp` says that a rollback given up frees its rows
(`rollbackRetryTimeoutUnlockEnable`) or that none is given up. Crashes are allowed in the first three.
Every hypothesis is needed; TLC finds a counterexample without it:

| without | violated | in |
|---|---|---|
| `StoreWorks` | `FinishedReplyIsTrue` | `TCStoreError.cfg` |
| `InTime`: timeouts | `SessionOutlivesBranches`, `NoOrphanLock` | `TCTimeout.cfg` |
| `InTime`: `LateRPC = TRUE` | `SessionOutlivesBranches`; `NoOrphanLock` | `TCCrash.cfg`; `TCIsolation.cfg` |
| `FreeOnGiveUp` | `NoOrphanLock` | `TCLive.cfg` with `UnlockOnRetryTimeout = FALSE` |
| `MaxCrashes = 0` | `NoOrphanLock` | `TCCrash.cfg` |

None of the properties is inductive, because a process ends a transaction on the strength of a
copy. `EndInv` says what makes the ends safe without looking at the copy: `OpenOK`, a
registration under way keeps its transaction undecided and so in `Begin`; `EndingOK`, whoever is
about to write a status of success does it for a transaction in `Ended`, one that is decided and
has no branch row left, or no session; `SuccessOK`, such a status in the store means the same.
`Ended` only grows, since nothing enters a decided transaction, so each clause survives the steps
of other processes and the proof is by the steps of the process itself; the second look at the
branches (`Recheck`) is what establishes it. `LockInv` adds the row locks: `OwnersOK`, a locked
row belongs to a branch that is about to be inserted or is there; `FreeOK`, a transaction that
commits or is gone holds no row; `ReleasingOK`, whoever has read the branches knows of every row
held by the transactions on its list, and whoever is about to remove a session has freed them.
The rows a crash has cut off from their branch (`Stray`) are left out of `Held`, and that set
only grows; without a crash it is empty.

`TCBranchProofs` proves that no branch is lost, with timeouts, retries that run out, refusals,
broken streams and crashes, and that the coordinator keeps its promise:

| theorem | hypotheses | statement |
|---|---|---|
| `BranchesKept` | `~LateRPC`, `StoreWorks` | `Spec => NoLostBranch`: the row of a branch goes only when its RM has carried out phase two, its phase one has failed, an RM has refused for good or the retries have run out |
| `CoordinatorImplements` | `InTime`, `StoreWorks` | `Spec => ImplementsGlobalTransaction`: every step of the coordinator is a step of `GlobalTransaction` or stutters |
| `AllOrNothing` | the same | `Spec => []Abstract!AllOrNothing`: no transaction is committed by one branch and rolled back by another; one that is gone, or that its TM was told Finished of, was carried out by every branch that did not fail in phase one, or was given up |

Branch rows go in two ways. `RemoveBranchSession` deletes the one just carried out or failed.
`RemoveGlobalTransaction` deletes whatever is left in the copy of its caller, and the caller may
have found the session gone and its walk over, knowing nothing of why. `BranchInv` therefore says
for each process that what it is about to delete may go (`CopyOK`), by four sets that only grow,
so that the steps of other processes keep it: `Entered`, the branches ever inserted; `Excused`,
those with grounds to go; `Leaving`, the transactions decided or out of `Begin`; and `Over`, those
whose session may be gone. A transaction gets into `Over` by running out of retries or by a
refusal (`Pardoned`), which excuses all its branches; by having been decided and having no branch
row left, which stays so because nothing enters it any more; or by being rolled back after a
timeout while its TM has not decided. The last is the hard one, since branches read `Begin` just
before and may be inserted afterwards: it is `Doomed`, no process will ever take it to a commit
status, so everybody who walks it rolls back, and a rollback walk that comes to its end has
dropped nothing (`l.view \cap BranchesOf(l.x) \subseteq l.todo`). `GoneOK` says that a session
that is gone was in `Over`; `DoomedStatus` and `DoomedProcs` show that `Doomed` is for ever.

Both hypotheses of `BranchesKept` are needed. With a store error (`TCStoreError.cfg` with `LateRPC = FALSE`) TLC
finds a branch deleted without grounds, because a failed query of the branches counts as none.
With `LateRPC = TRUE` in `TCTimeout.cfg` it finds one too: a rollback after a timeout finds no
branch and removes the session, a late branch is inserted meanwhile, and `asyncCommitting`, which
listed the session before, reads the branch, goes on without it because its RM is not ready, finds
the session gone and deletes the branch.

The refinement needs to know more at one step, `RemoveGlobalSession`, which is `End`: by then the
process that takes it has forgotten why it may. `PromiseInv` carries the reason. `EndsOK`:
whoever is at one of the last labels works on a transaction in `Closed`, one that is decided and
has no branch row left or is pardoned; `Closed` only grows (`Lasts`), so other processes keep it,
and a process gets there (`Grounds`) by a second look that found no branch, by finding the
session gone already, by a refusal, or by giving up. `ClosedOK`: so is a decided transaction
without a session, whoever removed it. That its branches have done what was decided, and are not
just gone, takes three more parts: `ClearedOK`, the row of an entered branch is gone because its
RM carried out phase two, its phase one failed, or the transaction is pardoned; `ReportOK`, a row
says PhaseOneFailed because the RM has reported it; and `DoneOK`, what an RM has carried out is
what its TM has decided. The proof has one lemma for each group of steps, as in section 2. It
covers also what the run `TCCrash` leaves out to stay small: failures of phase one, retry limits,
RMs that do not answer, any number of transactions. `AllOrNothing` follows from
the same invariant and `FinishedOK`.

Their hypotheses are needed too; TLC finds a step that `GlobalTransaction` does not have when one
is dropped:

| without | the step | in |
|---|---|---|
| `StoreWorks` | a TM is told Finished of a session that could not be read | `TCCrash.cfg` with `MaxStoreErrors = 1` |
| `InTime`: timeouts | a branch is rolled back whose TM has not decided | `TCTimeout.cfg` |
| `InTime`: `LateRPC = TRUE` | a branch enters after the decision | `TCCrash.cfg` |

`BranchStreamProofs` proves, for any number of calls, streams, faults and restarts of the TC and
the RM, all safety properties of the run `BranchStream` and its refinement:

| theorem | statement |
|---|---|
| `Invariance`, `TypeCorrect` | `Spec => []IInv`, `Spec => []TypeOK` |
| `AnswersAreOwn` | `Spec => []AnswerIsOwn`: a call returns the answer to its own message |
| `NoZombies` | `Spec => []NoZombieFuture`: a call that timed out leaves no future behind |
| `OneLoopHeld` | `Spec => []OneLoopPerCall`: a call holds up at most one receive loop |
| `CountHolds` | `Spec => []CountUnlessRaced`: the count of streams is right unless two updates raced |
| `WaitingHeard` | `Spec => WaitingIsHeard`: the answer of a waiting call is never dropped |
| `Refinement` | `Spec => ImplementsBranchCall`: every step is a step of `BranchCall` or stutters |

They assume `StreamAssumption` and `FaultsAssumption`. The invariant follows the packet of a call,
a message that becomes an answer, from the TC's sender through the stream, the RM and the way
back to the receive loop. `OnePacket`: a call has one at most, in one place. `PacketsOK`: what it
says is true, its identifier being the call's and its result what the RM did. `CurrentOK`: of the
calls whose identifier the TC may still meet, no two have the same one; this is the hard part,
because identifiers start again at 1 with every restart of the TC, and rests on `UnusedOK` and
on handlers of an earlier run having ended. `FuturesOK`, `LoopsOK`, `CallsOK` connect the map of
futures and the loops to the calls. Most steps move one packet from one place to the next; one
lemma (`MoveKeeps`) covers them all, and each action has only to show what it moves. The
refinement maps a call to its outcome, with one lemma for each group of actions.

`TMClientProofs` proves, for any number of calls, nestings and retries, what the run `TMClient`
checks: `LauncherDecides`, `DecisionFollows`, `SuccessAcknowledged`, `NoneForgotten`,
`SuspendedOut`, `UnboundAfter`. The invariant `IInv` says what the fields of a call mean at each
point of its progress (`ShapeOK`: a launcher's transaction is its own, a suspended call has no
XID, a deciding call decides as its method's result says), that the stack holds the calls under way in
the order they were made (`StackOK`), and who has asked for what (`JoinedOK`, `AskedOK`,
`BegunOK`). It assumes `RetryAssumption`, `CallsAssumption`, `XidAssumption`: with a retry count
of 0 the code would send nothing and return no error.

`IdWorkerProofs` proves, for any number of servers and goroutines, any widths, restarts and
clocks, `IdsAreUnique` and `WorkerIsInId`, from `BitsAssumption` and `BoundAssumption`. The
invariant says that no pending or issued value is above what its worker number has reached,
that a number is used by one running server unless `overlap`, and that a counter value is
taken once; two ids of one number with different counters then differ modulo 2^53 or are that
far apart, which is the arithmetic part of the module.

Only model-checked: the retry scan; the codec, whose loops are folds over
sequences and need induction over data. Liveness under fairness and `ENABLED` are beyond the
prover and stay with TLC.


## 5. Not modelled

* `GetStatus`, `LockQuery`, `IsLockable` read only and the first two have no caller in the protocol;
  `GlobalReport` is not implemented in the code.
* The syntax of lock keys and application data: the properties do not tell them apart.
* In the coordinator, the query limit of the scans and the two statements of `AcquireLock`
  (`RetryScan` and `RowLockSQL` have them).
* The in-memory store: by its own comment only for testing (`inmemory.go:28`). It hands out
  pointers to its maps, so what a process holds is no copy and the model of the coordinator
  does not apply to it.
* The counters of the metrics and their export. The events sent from goroutines of their own
  delay nobody; the one `timeoutCheck` sends itself is in `RetryScan`.
* In the generated messages: getters, `Equal`, `String`, descriptors, and the content of an `Any`.
* Registration of proxied methods by reflection, the parser of service descriptions,
  configuration, logging, start-up, SQL helpers, service stubs and mocks: no protocol state.


## 6. Plan

The order of the work: the coordinator with its properties and the invariant behind them; the
row locks it takes for atomic; the streams it takes for a call with an outcome; the client
that begins and ends what it drives; identifiers and messages below all of them. What is left:

1. The retry scan and what its query limit does to sessions that are stuck.
2. **Row locks, continued**: lock rows that name their branch, for two branches of one
   transaction on one row and for inserts that fail after the lock.
3. **In-memory store**: its locks are taken and freed row by row, and a refused request frees
   what a sibling holds.
