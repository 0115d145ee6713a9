# Verification of the fugue transaction service

Fugue executes transactions against a multi-version key-value store with
optimistic, timestamp-based concurrency control. This directory holds TLA+ modules that
model the transactions, the store they talk to, the executors that run them, the
requests by which clients talk to executors, and the sources of ids and times; TLC
configurations that check them on small instances; and TLAPS proofs for every size.

Run a check with `tlc -config <Run>.cfg <module>`, a proof with `tlapm <Module>.tla`.

## The system

| Part | State | Operations | Interacts with |
|---|---|---|---|
| `TransactionExecution` (`transaction-execution.cpp`) | stack of operations, read and write set, `status_`, `commit_timestamp_`, `max_commit_timestamp_of_writers_`, `result_` | Begin, Read, Insert, Upsert, Update, Delete, ReadDataStore, Commit, Abort; `MoveForward` | polled by an executor; starts operations; notifies the request through `Result` |
| Transaction operations (`transaction-operation.cpp`) | the entry concerned, the `HandlerResult` of the call in flight | `CallImpl` sends a call, `NextImpl` treats the answer and names the next operation | `Handler`, `TransactionExecution` |
| `LocalState` (`local-state.h`) | pools of read and write set entries | insert, look up from the newest, release, reset | the operations |
| `VersionDb` behind `request::Handler` (interface; the implementation is a service outside the repository) | version list per key, transaction table, read counters | GetVersionList, UploadVersion, CommitVersion, DeleteVersion, UpdateMaxCommitTsAndReread, ReleaseReadCounter, NewTxn, SetCommitTimestamp, UpdateCommitLowerBound, UpdateTxnStatus | shared by all transactions |
| `OperationRequest`, `Result` | finished flag, condition variable, shared result object | SetResult, Notify, Wait, PullResult | client threads and executor |
| `RuntimeTransactionExecutor`, `AllAtOnceTransactionExecutor`, `TransactionTask`, `TransactionRequest` | task slots, request queues | AddRequest, LaunchRequests, Advance, Run | clients, executions |
| `LocalTimeProvider`, `SimpleTxnIDGenerator` | last time, counter; next id | GetTime, SetTime; GenerateID | executions |
| `TxLog`, `TxCheckpoint`, `Kickout`, `KeyIterator`, `DataStore` | - | interfaces, or headers that no source file includes | - |

What makes the system hard: the answers to one transaction's calls come in any
order and interleave with those of all other transactions; there are no blocking
locks, so a reader and a writer of one version settle their order by leaving
timestamps for each other; a commit becomes visible in two halves per written key
after the client has been told; calls can fail between any two steps. Around the
transactions, client threads and an executor's thread share queues, a flag and one
result object per task; tasks are reused by sessions whose requests keep coming; and
ids and times come from counters that wrap around and fall back.

How a commit works: **Upload** puts a dirty version for every queued write (a
version that exists already is a write-write conflict and aborts the transaction).
**SetCommitTs** proposes a timestamp above the readers of the superseded versions
and above the versions read; the transaction table raises it to the lower bound
that conflicting readers have asked for. **Validate** rereads every version that was
only read, leaves the commit timestamp in its `max_commit_ts`, and, if a writer has
locked the version, **pushes** the writer's lower bound beyond its own
timestamp or aborts. Then the transaction table is told, the client is told, and
**post-processing** commits the new versions and closes the old ones (two answers
per version). An abort deletes the uploaded versions and releases the reads.

Properties that make the parts correct:

- transactions: serializability in timestamp order, no lost update, only committed
  data is read by those who commit, a decision is final, every request completes;
- store: a version list is a chain with at most one dirty version, intervals do
  not overlap, no lock survives its owner, read counters balance;
- requests: a client that waits comes back, and what it then reads is the answer to
  its own request;
- executors: a task serves one transaction at a time, every request that is accepted
  is answered, counters agree with tasks, Run stops when and only when all is served;
- ids and times: live transactions have distinct ids, times do not fall behind
  commits that the executor has seen.

## Modules

| Module | What it models |
|---|---|
| `VersionDb` | the store, call by call. Specified from what the operations send and what they do with the answers (external in `PROJECT.json`); entry types and constants are the repository's |
| `LocalState` | read and write set entries and their lookup |
| `TransactionExecution` | all transactions: one action per request, per answered call and per move of an operation |
| `TransactionProperties` | type invariant, safety, action and liveness properties |
| `AtomicStore` | abstract: one current version per key, transactions that commit or abort in one step |
| `TransactionLifecycle` | abstract: an execution as its executor sees it, from request to request |
| `TransactionRefinement` | the mappings under which `TransactionExecution` implements these two |
| `TransactionTask` | task slots, a session's requests, and the part of `Advance` that polls one task |
| `RuntimeTransactionExecutor`, `AllAtOnceTransactionExecutor` | the two executors with their owner and clients; both EXTEND `TransactionTask` |
| `RequestFuture` | abstract: a request that is answered once and whose answer is then seen |
| `OperationRequest` | Wait, Notify, PullResult and the shared `result_`, thread step by thread step |
| `ExecutorServices` | id generator and time provider, as transactions use them |
| `MCTransactions`, `MCThreeTxns`, `MCRuntime`, `MCAllAtOnce`, `MCOperationRequest`, `MCExecutorServices` | instances for TLC |
| `ExecutionProofs` | proofs: the store's calls, types, ownership of versions, finality, what a transaction may rely on, the lifecycle, read counters |
| `VersionChainProofs` | proofs: version lists, locks, committed reads, no `Recover` without a failing call |
| `SerializabilityProofs` | proofs: validated reads, the serial order, `AtomicStore` |
| `TransactionTaskProofs` | lemmas about tasks, for both executors |
| `RuntimeExecutorProofs`, `AllAtOnceProofs` | proofs about the two executors |
| `OperationRequestProofs` | proofs: the handshake and `RequestFuture` |
| `ExecutorServicesProofs` | proofs: ids and times |

`TransactionExecution` EXTENDS `LocalState` EXTENDS `VersionDb`: the store's
operators are conjuncts of the actions of the transactions. The executors see an
execution only through the phases of `TransactionLifecycle`, which run `AllRequests`
shows and `LifecycleImplemented` proves `TransactionExecution` to implement, so their
models need no store.

### State of the transactions

`operation[t]` is the operation at the bottom of `operation_vector_` and `calls[t]`
are the unanswered calls of the operations above it; `"Idle"` is an empty stack,
`"Reset"` an execution before Begin, `"Finished"` one with `is_transaction_finished_`,
`"Recover"` one whose `MoveForward` has thrown. `status`, `commit_timestamp`,
`max_commit_timestamp_of_writers` are the members of these names. `request[t]` is
the key of the read in progress; `result[t]` is `result_` with whether its request
has been notified. `readSet[t]`, `writeSet[t]` are the used slots of the two pools; a
write set entry points to its read set entry by index. `versions[k][n]` is version
`n` of key `k`, `DefaultEntry` when there is none; `txns` the transaction table;
`read_counter[k]` the reads of `k` not released yet.

### Steps of the transactions

A step is an answered handler call together with the `NextImpl` of the operation
that sent it and, where that names a next operation, its `CallImpl` up to the calls it
sends. `NextImpl` reads and writes only its own transaction, so a delay between
the answer and `NextImpl` is not visible to anyone else. Where `CallImpl`
computes something from state that can change, the computation is a step of its
own (`UploadNext` computes the proposed timestamp, `SetCommitTs` is the answer).
The actions carry the names of the operations; `...Error` is the error path,
`...Next` the move of a composite operation when all its answers are in. The answer
of `UpdateReadEntryMaxCommitTs` that needs a push adds a `PushConflict` call.

`Call`s of one composite are answered in any order. `CommitVersion` gives two answers
(`ref_cnt = 2`); the operation looks at the errors when both are in. After `Recover`
nothing of the transaction moves any more, but calls that were sent are still
served by the store.

Abstractions: records, extensions and the copies of `tx_id` and `end_ts` in read set
entries (never read) are left out. `GetTime` returns any element of `Times`, also
equal or smaller ones than before. A call that is answered with an error has had
no effect in the store. One execution serves one transaction (its reuse is in
`TransactionTask`). The
`need_post_processing_` of a *read* set entry is always false in the code, so
`need_release_ = false` at `transaction-operation.cpp:872` is never reached.

`EndTsGap` is a parameter of the store: a superseded version ends at the commit
timestamp of its successor minus the gap. The repository does not say which value the
service uses, and the reread of `transaction-operation.cpp:512` (abort only if
`commit_ts > end_ts`) needs at least 1: with `EndTsGap = 0` TLC finds a reader that
commits at exactly the timestamp of the writer that supersedes what it read
(`SerializableByTimestamp`). The runs use 1. This is a requirement on the service.

### Refinements

`AtomicStore`: the current version of a key is the newest one that is committed on record
or whose writer the transaction table has as committed; its timestamp is then the
writer's. With this mapping the commit of a transaction, all keys at once, is the
answer to `UpdateTxnStatus`; every other step, the two halves of `CommitVersion` and
failing calls included, must map to a stutter. `TransactionLifecycle`: `operation` is
mapped to a phase (`Ending` is post-processing), `result[t].is_finished` is the
notification.

### Executors

`task[i]` is slot `i` of `active_txn_`: `in_use_`, `session_id_`, the queue of its
`TransactionRequest` with `current_`, and the execution as a phase with the request
it serves, its `status_` and whether the store has answered (`called_back`).
`Advance` is one step per polled slot (`poll`): nothing to do, the decision, the end
of the transaction with `Release` and the counters, or idle with or without a next
request. Where a store answers within the call, several of these happen in one poll; the
model then takes them in consecutive rounds. `Served` is the executor's `switch`: which
types call the store, which are answered at once, which are ignored. `Throws` is
`Recover`: the exception passes through `Advance` and `Run`, and `pc = "recover"` is
the end of the executor.

`RuntimeTransactionExecutor`: `request_queue_pool` is the bounded queue, which refuses
requests when it is full (`dropped`; nobody looks at the result of `write`),
`current_request` the Begin that was held back. `LaunchRequests` is one step per request.
Clients add requests at any time; those in `Waits` only when they have the last answer.
`AllAtOnceTransactionExecutor`: `LaunchRequests` is one step per transaction, with the
assertions, the exception and the read behind the last request as values of `pc`
(`Crash`). Its members have no lock, so requests are added only while `Run` does not
run, and `Run` is called after whole transactions; both are the owner's part.

### Requests

One task serves the transactions of several clients in turn. The steps are the accesses
that other threads can see: the flag without the mutex (`WaitFast`), locking, testing,
going to sleep, waking up (also spuriously), the two halves of `PullResult`; for the
executor taking a request (`Result::Reset`), a setter, the locked store of the flag,
unlock, `notify_one`, and for Insert and Upsert the decision after the read has
already notified. `is_finished_` is a plain `bool` read outside the mutex; the model takes
such a read to return the latest value and later reads to be ordered after it. The
language does not promise this; x86 does. `again` marks an Insert or Upsert whose
decision is outstanding; `answer` is a history variable for `RequestFuture`.

### Ids and times

`txn[e][s]` is the transaction in task `s` of executor `e`. `Begin` and every retry of
`NewTxn` draw an id and a time; `SetCommitTs` draws a time, proposes any timestamp not
before it and sets the provider; `CommitTsSet` sets it to what the table answers. `Clock`
is the set of values the system clock may show, in any order. `draws`, `latest` and
`committed` are history variables. `NewTxn` is taken to leave the id as it was sent.

## Runs

| Run | Instance | Shows |
|---|---|---|
| `AllRequests` | 2 transactions, 1 key, all 8 requests, 2 reads and 2 writes each, every call may fail (1.05M states) | `TypeOK`, `NoLostUpdate`, `OwnershipInv`, `VersionChain`, `PinsBalanced`, `OutcomeAgreed`, `ReadsCommitted`, `DecisionIsFinal`, `AnsweredBeforeNext` (implements `TransactionLifecycle`), `ErrorLeavesNoWrite` |
| `TwoKeys` | 2 transactions, 2 keys, Read, Upsert, Commit, Abort, 2 possible times (429k) | `SerializableByTimestamp`, `ReadsCommitted`, `ValidatedReadsHold`, `VersionIntervals`, `NoOrphanLocks`, `RecoverOnlyAfterFailure`, `CommitIsAtomic` (implements `AtomicStore`) |
| `ThreeRoles` | writer, updater and reader on 2 keys (945k) | `ConflictSerializable` |
| `Completes` | 2 transactions, 2 keys, 1 write each, fair executor, decision and post-processing may fail (210k) | `RequestsComplete`, `CommitIsAtomic` when a commit is left half done |
| `Runtime` | a client with 2 adjacent transactions and one that waits, 2 tasks, queue of 2 (181k) | `TypeOK`, `TransactionsKeptApart`, `ActiveTasksCounted`, `EveryOutcomeCounted`, `NeverThrows`, `StoppedOwesOnlyHeldBegin`, `EveryRequestAnswered` |
| `Batch` | 4 transactions of 2 sessions, 2 tasks (8k) | `TypeOK`, `OneTransactionPerTask`, `NeverCrashes`, `StoppedServedAll`, `BatchServed` |
| `Requests` | 2 clients, one task, 4 requests each, fair threads (239k) | `TypeOK`, `PulledIsOwnAnswer` (implements `RequestFuture`), `WaitReturns` |
| `Services` | 2 executors, 2 tasks each, ranges of 2 ids, interval 2, a clock of 2 values (2.1M) | `TypeOK`, `LiveIdsDistinct`, `AfterOwnCommits`, `TimeGoesBackOnlyAtRefresh` |
| `SelfPush` | as `AllRequests`, no failing calls | violates `PushesAnotherTxn`, see Findings |
| `SelfConflict` | as `AllRequests`, no failing calls | violates `UploadConflictsWithAnotherTxn`, see Findings |
| `SessionReuse` | 2 transactions of one session whose client waits, 2 tasks | violates `OneTransactionPerTask`, see Findings |
| `DefaultRecord` | 1 transaction, no data store driver | violates `BatchServed`, see Findings |

Why the bounds are enough to be interesting: two transactions with two reads and two
writes produce every pairwise conflict (write-write, write skew on two keys, dirty
read, a reader that meets a writer before, at and after each of its steps), a key
read twice or written twice, and a transaction that inherits the versions of
another; three transactions are needed for the read-only anomaly, which
`ThreeRoles` has. Two values of `Times` let clocks disagree; timestamps above come from
pushes and `max_commit_ts`. `MaxVersion = 2` is never the reason for a step to be
disabled in these instances: at most two transactions write a key and each adds
one version to what it read. `kMaxTimeStamp` (9 or 99) is above every timestamp reached.
Transactions (and keys) are symmetric except in `Completes`, where
symmetry is not used because the property is a liveness property, and in
`ThreeRoles`, where only the keys are.

For the executors: there are more transactions than tasks (`Runtime`, `Batch`), so
that a Begin is held back and slots are reused; the queue of `Runtime` is small enough
to be full, so that requests are refused, and large enough for both clients to have
requests in it; and transactions end by Commit and by Abort, in any order of the tasks.
A refused request of a client that does not wait leaves a transaction with a hole;
what is said of the tasks then is said of behaviours without such a hole (`Intact`).
`Requests` has a request of every kind of answer and a second transaction in the same task.
In `Services` a generator goes round its range while transactions live, and the counter
reaches its interval. `MaxTime` and `MaxDraws` only end the behaviours.

Every run also checks for deadlock, except `Services`, whose behaviours
end at the bounds. The resting states (`AllEnded`, `Idle`, `Finished`) are the ones where
nothing is left to do or an exception has ended the executor's thread.

**Fairness.** `FairSpec` assumes weak fairness of `Progress(t)`, the steps that an
executor's polling brings about: `Advance` calls `MoveForward` on every active task in
every round, and the store answers. Clients are under no fairness: they may stop
between two requests. In `Completes` the decision and the post-processing may fail,
which ends in `Recover`, but not `NewTxn`, which is retried for as long as it fails.

For the executors, `FairSpec` assumes that the owner calls `Run` again when there is
something to do and that its thread is scheduled (`Executor`), and that the store answers
every call. A client that waits is under no fairness: one that stops in the middle of its
transaction must not harm the others. A client that does not wait finishes what it has
begun, without which its own task would stay occupied; so does the owner of a batch. In `OperationRequest` threads are scheduled, and
`NotifyLock` is strongly fair because a client may wake up spuriously and hold the mutex
for a moment as often as it likes; a mutex lets a waiting thread in eventually.

## Findings

1. *Self-push.* The comment at `transaction-operation.cpp:511` speaks of a version
   "locked by another txn"; line 516 tests for any lock. Read(k) followed by
   Insert(k) or Upsert(k) leaves a read set entry of k that is not marked as updated. Its
   reread finds the transaction's own lock, the transaction pushes itself and,
   being ongoing with a commit timestamp not above its own, always aborts.
2. *Self-conflict.* `handler.h:25-26` takes an existing version for a write-write
   conflict. A second Update or Upsert of a key queues a second entry with the
   same version number (Delete changes the queued entry instead), so the
   transaction's own upload makes its next upload fail, and it always aborts.

   Both cost availability of such transactions, not consistency: the passing runs
   include these request sequences.
3. *Session reuse.* `runtime-transaction-executor.cpp:45` asks that the requests of a
   transaction be next to each other. Even so, and even if the client waits for each
   answer, two successive transactions of one session can go wrong: Commit is answered
   before post-processing, the next Begin gets another slot, and line 91 gives the requests
   that follow to the first slot with this session id, the one that is ending. They are
   never answered. In a batch (`Batch`) the same sequence is served.
4. *Default record.* `all-at-once-transaction-executor.cpp:196` says that without a data
   store driver "we assume a default record"; lines 198-202 set the result up and never
   call `SetFinished`, so the request is not notified.

Limits of the executors that their comments or interfaces leave to the caller, visible in
the models: a full queue drops a request silently (`dropped`); a held-back Begin blocks
everything behind it, so interactive clients must not outnumber the tasks; a Begin
held back when the last task finishes is served only after a further request
(`StoppedOwesOnlyHeldBegin` states exactly this); a batch must fit into the pool and end
with Commit or Abort; an Insert can be seen as a success before it becomes an error.

## Proofs

Every theorem below holds for every value of the constants that meets the named
assumptions: `VersionDbAssumption` and `TransactionExecutionAssumption` (the markers
are not ids or keys, bounds and times are naturals), `ExecutorServicesAssumption` (at
least one executor and no more than ids, a positive interval),
`TransactionTaskAssumption`, `RuntimeAssumption` and `AllAtOnceAssumption` (at least one
task, scripts of requests, capacities that are naturals, one owner of a batch), and
`OperationRequestAssumption` (scripts that start with Begin). TLC evaluates
them in the runs. Nothing is assumed about the number of transactions, keys, versions,
tasks, clients or requests, nor about which calls fail.

Some theorems have a hypothesis of their own:

| Hypothesis | Needed by | Why |
|---|---|---|
| `EndTsGap <= 1` | `VersionChainProofs`, `Protection`, `ValidatedReads`, `CommitsAreAtomic` | with a larger gap a version could be closed at -1, the mark of a dirty version |
| `EndTsGap = 1` | `Serializable`, `ConflictsAreOrdered` | with 0 a reader and the writer that supersedes what it read can commit at one timestamp (see Steps) |
| `[]StampsInRange` | `CommitsAreAtomic` | no commit timestamp beyond `kMaxTimeStamp`, which is the largest that `AtomicStore` has |
| `OneTransactionPerSession` | `KeptApart`, `ThrowsNever`, `StoppedOwes` of the interactive executor | without it they are false: finding 3 |
| `WholeTransactions` | `KeptApart`, `CrashesNever`, `ServedAll` of the batch executor | what the executor asks of its owner; the model checks in `Run` only that the last one is complete |
| `Len(Script[Owner]) <= Capacity` | `CrashesNever` | the pool has no bounds check |
| `Driver`, or no ReadDataStore | `ServedAll` | without it the property is false: finding 4 |

`OneTransactionPerSession` and `WholeTransactions` speak of scripts; TLC evaluates the
first for the script of `Runtime` and the second for all scripts of the batch runs, so both
have instances.

### Transactions

`ExecutionProofs`, in the order of the module:

- *The store.* What each call does to types and to the versions that exist.
  `RestampStep`: commits, closes and rereads keep every version; `DeleteVersionStep`: a
  deletion removes one version and keeps all others.
- `TypeCorrect`: `TypeOK`, action by action. The interesting part is that set entries
  always name real versions although `DefaultEntry` has version -1, and that a queued
  version is positive.
- `Ownership`, `NoUpdateLost`, `DecisionStands`. `NoLostUpdate` is not inductive: it
  speaks of committed transactions only, and a step before the decision could break it.
  `OwnershipInv` is the strengthening. Every entry that is in the store (`Holds`) exists
  there (`HeldExists`) and has one holder (`HeldOnce`); a transaction past Upload that
  will not abort has all its versions in (`AllUploaded`); a transaction deletes only what
  it uploaded, after the table has it as aborted (`DeletesUploaded`); nothing is decided
  before the two decision steps (`Undecided`). An upload succeeds only where no version
  exists, so by `HeldExists` nobody holds it and `HeldOnce` is kept; a deletion removes a
  version of which by `HeldOnce` there is no other holder, so `HeldExists` is kept.
  `StepOf`, `HoldsNothingNew` and `StepFrame` are the frame: what a step of one
  transaction leaves alone. `DecisionIsFinal` follows from `Undecided` and from the fact
  that only undecided transactions write status and result.
- `Execution`, `OutcomesAgree`. `ExecutionInv` is what a transaction may rely on about
  itself: table, client and operation agree (`Outcome`), calls in flight are those of
  the operation that sent them and are sent once (`CallsMatch`), a queued write goes with
  the read whose version it supersedes (`SetsLinked`), nothing is uploaded before Upload
  (`NothingUploaded`), the commit timestamp lies after what was read and is the one in
  the table (`TimestampAfterReads`, `TimestampInTable`), and every read that is not
  released has somebody who will release it (`Releases`). No step of another transaction
  touches any of it but the lower bound in the table (`Frame`).
- `LifecycleImplemented`, `ErrorsLeaveNoWrite`. The refinement of `TransactionLifecycle`
  step by step; `ServedInv` says in which operations a request is unanswered.
- `PinsAreBalanced`. The counter of a key is the number of reads that are pinned
  (`PinsCounted`). Every step keeps the pins of a transaction, adds the one of an answered
  read or drops the one of an answered release (`SamePins`, `AddsPin`, `DropsPin`). A
  read entry is released at one place only: by its write entry if it has one, and by
  `HeldOnce` there is not a second (`OneWriteOfARead`). At any time
  finitely many reads are pinned (`PinsFinite`), so the set of transactions need not be finite.

`VersionChainProofs`: `ChainInv`, on top of ownership and execution, ties the version
lists to the transactions. Versions follow each other without gaps in increasing
timestamps (`NoGaps`, `EntriesWellFormed`); a version that somebody has read is committed
and stays (`ReadsStable`); whoever holds a version owns the entry (`HolderOwns`); every
dirty version and every lock has a write set entry whose transaction will commit, delete
or close it, or has been stopped by a failing call (`DirtyHeld`, `LockHeld`); after the
decision both halves of a write are done or still to do (`CommittedWritten`). None of
these is inductive without the others: a deletion leaves no gap because no read is of a
dirty version, and no read is of a dirty version because a deletion has exactly one owner.
Results: `VersionsChained`, `IntervalsMeet`, `ReadsAreCommitted`, `LocksAnswered`, and with
`NoFailures` in addition `RecoversOnlyAfterFailure`.

`SerializabilityProofs`: `ReadsProtected` is the invariant of validation. A validated read
has the reader's timestamp in the version's `max_commit_ts` or has been settled with the
writer that superseded it (`Protected`, `ClosedByWriter`); and a writer that has uploaded
the next version takes a timestamp above that, or is still to be pushed (`Yields`). It
needs both orders of reread and upload, and that the table never gives out a timestamp
below the lower bound. `ValidatedReads` follows, and with `IntervalsMeet` also
`Serializable`: no committed transaction writes inside the interval another one has read.
A reader may commit at the timestamp of the writer, so `ConflictsAreOrdered` needs a
tie-break to rank the transactions: the order in which the table decided.
`DecisionsOrdered` says that such an order exists in which readers follow writers, because
nobody reads from a transaction that has not committed (`UndecidedUnread`), and what has
been read is frozen at the decision (`CommittedReads`); that the committed transactions
are finitely many is part of it.

`CommitsAreAtomic` is the refinement of `AtomicStore`: which versions count, and since
when, is determined by write sets and timestamps of committed transactions, which are
frozen, so that every step but the decision maps to a stutter (`NewestIsCurrent` and the
lemmas around it), and the decision maps to one `Commit` of all written keys.

### Executors and requests

`TransactionTaskProofs` has no theorem of its own. Its lemmas say what one poll of one task
does, for any `switch` (`Serves`): the task keeps its requests and goes through them in
their order (`Polled`); no request is in two places and those a task is done with are
answered, unless nobody answers a ReadDataStore (`TasksInv`); both counters go with the
tasks (`PolledActive`, `PolledOutcomes`).

`RuntimeExecutorProofs`: `BaseInv` (types, `TasksInv`, counters, every request in at most one
place: `RequestsOnce`) gives `TypeCorrect`, `TasksCounted` and `OutcomesCounted` for any
scripts. `SessionInv` is for clients that use a session for one transaction. All requests
of a client that have left the queue did so in their order (`InOrder`), a session that
has begun has its one task (`TaskOfSession`), which is still in use when the next request of
the session comes (`FrontierKept`); the task ends only after the last one. A refused
request is the last of a client that waits (`RefusedIsLast`), every other one is
answered or in one place where it will be (`Accounted`), and only a Begin is held back
(`HeldIsBegin`). The step that counts is the launch of a request that is no Begin: its
predecessor in the script has left the queue, so it is in a task, that task has the
session, and no other one has. Results: `KeptApart`, `ThrowsNever`, `StoppedOwes`.

`AllAtOnceProofs`: `BaseInv` with `PoolOK` (the pool holds the first requests of the batch,
and only launched ones are in tasks or answered) gives `TypeCorrect`, `TasksCounted` and
`OutcomesCounted` for any batch. `BatchInv` is for whole transactions: each queue is one
transaction, at the end of which a task not in use has come (`TaskOfTransaction`);
`pop_index_` is between transactions and `Run` runs over whole ones (`Boundaries`); the
tasks that `last_index` has passed are in use (`IndexOK`); what has been launched is
answered or ahead of some task (`Accounted`). `LaunchSafe` is the heart of it:
`active_txn_number_` below the number of tasks means a free task (`TasksCounted`) and by
`IndexOK` one that is not behind `last_index`; the transaction begins at a boundary, and
since the last request of the pool is an end, the search for its end stops in the pool
and in its session. Results: `KeptApart`, `CrashesNever`, `ServedAll`.

`OperationRequestProofs`: `RequestInv` says that a client asks for its next request when it has
pulled the last (`Asked`, `Fresh`), so that answers are at most one ahead (`OneAhead`); that
`result_` holds the answer to the request being served until a request of
another transaction resets it (`ResultOf`, `Owned`), also between the answer of the read and
the decision of Insert and Upsert (`Deciding`) and between the halves of `PullResult`
(`HalfPulled`). `TypeCorrect` and `AnswersPulled`, the refinement of `RequestFuture`.

`ExecutorServicesProofs`: `TypeCorrect`, `IdsDistinct`, `OwnCommitsSeen` and
`TimeGoesBackAtRefresh`. `Ranges` is the arithmetic of the factory: the ranges do not
overlap and end within `INT64_MAX`. `LiveIdsDistinct` is not inductive: `IdInv` adds
that within one round ids are as far apart as the calls that drew them, from a
transaction to the generator (`GeneratorAhead`) and from one transaction to another
(`PairsAhead`), and that no two were drawn by one call. `TimeInv`: the provider is at
or after every commit it was told of and has given out nothing beyond
`time_value_ + count_`; both action properties follow from it. The bounds `MaxTime` and
`MaxDraws` are arbitrary, so they restrict nothing.

### Only model-checked

Liveness under fairness (`RequestsComplete`, `EveryRequestAnswered`, `BatchServed`,
`WaitReturns`), which is out of the prover's reach. Every other property of the passing
runs is a theorem. The violations are TLC's as well: a trace is their proof.

## Not modelled

The log (an interface, switched off by `Constant::ENABLE_LOG`), checkpointing, kick-out and
key iterators (headers that no source file includes), data stores (an interface; a read of
one is an answer with or without an error) and the serialization of keys and records.
Of the handler: `CleanStaleVersion`, `CleanStaleTxn`, `GetTxn` and the key iterators, which
no operation calls, and `SendBatch`, which lets the store proceed. Of the requests: the
client's own `RequestProcess` and `dependent_request_`, which nothing reads. The execution
time limit passed to `NewTxn` is the service's business and appears nowhere else. `ShutDown`
is empty in both executors. Several executors over one store are the
interleaving of their transactions, which `TransactionExecution` has; `Services` adds that they
do not share ids.

## Plan

Every safety property and every refinement of the passing runs is proved. What is left:

1. The executors over `TransactionLifecycle`: that a task of `TransactionTask` implements it, so
   that the two halves of the development are joined by a proof and not by a reading.
2. The weaker promises that the executors keep when a session has several transactions.
