# A TLA+ specification of durablepg

durablepg runs workflows whose progress is kept in PostgreSQL. Workers claim due
runs under a lease, execute them operation by operation, and store each result
with a statement that only takes effect while the lease is current. This
directory holds TLA+ modules that model that system, TLC configurations that
check them, and proofs checked by TLAPS. `PROJECT.json` maps every definition to
the lines it models and lists runs, mutants, hazards and theorems.

## 1. The system and its parts

| Part | Code | State | Module |
| --- | --- | --- | --- |
| Workflow definitions, step context | `builder.go`, `types.go` | compiled operations, names, output position | `Workflow`, `Definition` |
| Tables and statements | `migrate.go`, `queries.go` | `workflow_runs`, `step_checkpoints`, `event_log` | `RunStore` |
| The claim statement | `queries.go` (`claimRuns`), `worker.go` (`claimReadyRuns`) | the row chosen and the checkpoints read in the statement's snapshot | `Worker` |
| Claim execution | `worker.go` (`executeClaim`, `drive`, `commitStep`, `parkForSleep`, `waitForEvent`, `failOrRetry`) | one goroutine per claim, with its copy of the cursor, the values and the attempt | `Worker` |
| Events | `worker.go` (`waitForEvent`), `engine.go` (`EmitEvent`) | the advisory lock of each key, the event log | `RunStore`, `Worker`, `EventTx` |
| Heartbeat, lease table | `leases.go`, `worker.go` (`heartbeatLoop`) | confirmed deadline per claim, renewal in flight | `Heartbeat` |
| Dispatcher, notifications, worker lifecycle | `worker.go` (`StartWorker`, `listenLoop`, `dispatchLoop`), `engine.go` (`beginWorker`, `WaitForIdle`) | in-flight count, wake channel, `workerRunning`, `activeClaims` | `Dispatch` |
| Maintenance, retention | `worker.go` (`maintenanceLoop`, `retentionLoop`, `batches`) | the pass and the batch of each loop | `RunStore`, `Worker`, `Maintenance` |
| Producer API, registry | `engine.go` (`Register`, `Enqueue`, `Cancel`) | registered versions, calls in progress | `Producer`, `Worker` |
| Schema migration | `migrate.go` (`ApplySchema`) | `schema_migrations`, advisory lock | `SchemaMigration` |
| The documented lifecycle | `ARCHITECTURE.md`, `types.go` | state, saved values, output | `RunLifecycle` |
| Retry delays, error text, configuration, reads, benchmark | see section 6 | none | not modelled |

How they interact: a producer inserts a run (`ready`). A worker's dispatcher
claims it (`leased`, with a fresh token) and gets the cursor, the attempt counter
and all checkpoints in the same statement. `drive` replays stored values and
executes the rest. Every statement it issues repeats the fence: state `leased`,
this token, lease not expired. A sleep puts the run back to `ready` with a later
due time. A wait takes the key's advisory lock, looks for an event, and either
stores it or parks the run (`waiting_event`). `EmitEvent` takes the same lock,
logs the event and wakes the parked runs. Maintenance returns runs whose lease
expired and wakes runs whose wait timed out. `Cancel` ends a run at any time.

## 2. The modules

**`Workflow`** has the constants and the pure definitions: an operation is a kind
and, for a wait, the key it resolves to. Stored JSON is a step's result, a
received payload or `timed_out`. `Output` is the value at `compileWorkflow`'s
`outputIndex`.

**`RunStore`** has the tables as three variables and one operator per statement of
`queries.go`. `Fence` is the constant of the same name.

**`Worker`** extends it with `claims` (a record per lease token: program counter,
run, index, values, attempt, result in hand), `key_lock`, and `snap` (what each claim
statement in progress has seen of its row). One action per database round trip or
call of user code, except that the claim statement is two:

| Action | Code |
| --- | --- |
| `TakeSnapshot` | the claim statement starts: it chooses a due row and reads its checkpoints |
| `ClaimReadyRun` | it locks the row, repeats its `WHERE` clause, updates and returns it; decoding |
| `SkipRow` | the row is locked or does not match any more, or the statement fails |
| `ReplayValue` | the loop skips an operation that has a value |
| `RunStep`, `CommitResult` | a step function returns; its result is committed |
| `ParkForSleep` | `parkSleep` |
| `LockEventKey`, `LookupEvent`, `DeliverEvent`, `ParkForEvent` | the transaction of `waitForEvent` |
| `FinishRun` | `completeRun` |
| `DriveFails`, `RecordFailure` | `drive` returns an error; `failOrRetry` |
| `LostLease` | a fenced statement finds no row |
| `Abandon` | context cancelled, `failOrRetry` fails, or the process dies |
| `Enqueue`, `Cancel`, `LockForEmit`, `Emit`, `EmitRollsBack` | producers |
| `Recover`, `Promote`, `Prune` | maintenance and retention |
| `ClockTick` | a stored timestamp passes |

A statement's reply may be lost after it took effect: `ack = FALSE`. The claim
then goes on to `failOrRetry`, as `executeClaim` does, against a row that has
changed under it.

The claim statement runs at READ COMMITTED. It returns the latest version of the row, but
the checkpoints of the snapshot it took when it started. In between, other claims may
execute the run, and `Rechecked` says whether the row still matches: a row changed since is
due later than the statement's `now()`, unless an `EmitEvent` made it ready whose own
transaction had begun before (`early`). So a claim can start with the new cursor and old
checkpoints. It then waits again for an event it has received, and a step may lack a value
(section 3). `Claimers` are the statements in progress, one for each row they have chosen.

**`RunLifecycle`** is the abstract specification: the state diagram of
`ARCHITECTURE.md` with the values that are durable, and no leases, claims, locks
or clocks. `Worker` maps to it by `INSTANCE RunLifecycle WITH ...`. It also allows a run to
be parked again on the wait it has been woken from (`WaitAgain`), and to be woken again with
the outcome it has (`again` in `Wake`), since a claim with old checkpoints does that.

**`EventTx`** has the transactions of `EmitEvent` and `waitForEvent` on one key with
their start times: `created_at`, `expires_at` and `waiting_deadline` come from
`now()`, taken before the wait for the lock. Writing and committing are separate
actions. `before[e]` remembers which emissions had returned when `e` began.

**`Heartbeat`** has the lease table of a worker, `heartbeatLoop`, the claim and
renewal statements and the rows they touch. Times are countdowns, so the state
space is finite without a bound on time. `SendClaim`, `ClaimRows` and `InsertClaim`
are the dispatcher; `Sleep`, `WakeForDeadline`, `WakeForRenewal`, `Snapshot`, `Renew`
and `ApplyRenewal` the loop, cut where it calls the table or the database.
`RenewalFails(late)` gives a renewal up; with `late` it is executed afterwards
(`StrayRenewal`). `GiveUpRow` and `RecoverRow` are what other processes do.

**`Dispatch`** has the life of an engine's worker. The dispatcher reads the free
slots (`Dispatch`), claims (`Claim`, `ClaimFails`) and selects (`Poll`, `Wake`,
`BeginDrain`). A claim's deferred function is three actions (`Decrement`, `Signal`,
`Done`). The listener connects, receives and loses its connection. `WaitForIdle` is a
call and a goroutine, which outlives a call that gives up. A new worker may start
while claims of earlier ones are left. A run becomes due anywhere in the order of the claim
statement, in front of older ones too (`BecomesDue`): `WithScheduledAt` accepts a time in
the past, and `next_run_at` is the `now()` of a transaction that may commit late.

**`Maintenance`** has the loops of several workers. A pass runs its jobs in order,
and a job runs batches (`PickBatch`, then `CommitBatch` or `BatchFails`). A batch
takes the oldest overdue rows of its job that no other batch has locked.

**`RowOrder`** has what `Dispatch` and `Maintenance` share of `ORDER BY ... LIMIT`: rows
whose timestamp has passed, the order in which it did, and the oldest of them.

**`Producer`** has `Register`, the two halves of `Enqueue` (the lookup of the version,
the insert) and the two statements of `Cancel`, for several calls at once.

**`SchemaMigration`** has `ApplySchema`: lock, read the history, execute and record
one migration at a time, commit. Callers may support different numbers of
migrations. `Isolation` is the default level of each caller's session.

**`Definition`** goes from the builder's calls through `compileWorkflow` and an
execution to what a `StepContext` returns. Stored JSON is a sequence of tokens, so
that encoding a wait's outcome and decoding it are real functions. The loop of
`compileWorkflow` is a recursive function of the number of iterations. Its initial
predicate, next-state relation and specification are `DefInit`, `DefNext` and `DefSpec`,
so that one module can extend it together with `SchemaMigration`.

**`MCWorker`**, **`MCProducer`** and **`MCSchemaMigration`** define
instances for TLC; the other modules are run as they are. The modules named
`...Proofs` have the proofs.

Operators named `Mutant...` are plausible mistakes in the definition that follows
them. No specification uses them; substituting one shows that a property notices
the mistake.

### Abstractions

- In `Worker` a statement other than the claim is atomic on the latest version of the
  row it locks. A value that `commitStep` finds was stored before its claim got the lease,
  so its snapshot has it; the log is read under the key's lock. The last
  statement of `waitForEvent` and of `EmitEvent` is one action with its `COMMIT`:
  until the commit, the row lock keeps every other writer away and no reader sees
  the change.
- In `Worker`, a timestamp is in the future or in the past. The clock may move any
  timestamp to the past at any moment, so every choice of durations is covered.
  Renewing a lease is then no change (future to future), and a lease that is renewed is one
  that the clock has not moved yet. `Heartbeat` and `EventTx` have numbers instead.
- `now()` is the start of the transaction: `EmitEvent` may wake a waiter whose
  deadline has just passed, and a lookup may find an event that has just expired.
- In `Worker`, the statements of maintenance take a row at a time, in any order;
  the batches are in `Maintenance`. `EmitEvent` wakes all its waiters at once.
- A claim is its lease token. A token may be drawn again once neither a row nor a
  goroutine has it, which `gen_random_uuid` never does. This keeps the set of
  tokens finite and allows at most more behaviours.
- Emissions with the same payload do not overlap: the payload stands for the
  emission that holds the lock.
- Each event key has a lock of its own. Two keys whose `hashtext` collide would
  share one in PostgreSQL, which only makes them wait more.
- A run resolves a wait's key to the same value on every claim: the resolver "must
  be deterministic" (`builder.go`), and it sees the input and stored values only,
  which never change. Which key that is, is a constant of the run.
- In `Worker` any unexpired event may be the latest one; `EventTx` says which one is.
- In `Heartbeat` the clocks of the worker and of PostgreSQL run at the same rate.
  The code compares durations and never exchanges timestamps.
- In `Dispatch`, `Maintenance` and `Producer` a run's execution is reduced to what the
  part can see of it: it is due, it is claimed, it ends.
- `last_error`, `created_at` and `updated_at` are left out.

## 3. The runs

The runs of `Worker` use one event key, two lease tokens (so that a stale claim and its
successor overlap; a third stale claim is refused by the same fence as the second), two
claim statements in progress (so that one takes a run while the other still has its old
snapshot) and at most three operations.

**`worker_one_run`** (`MCWorker.cfg`, 214,624 states). One run `wait, step`, two
attempts, two possible step results. The wait is first so that its outcome is replayed, or
waited for again, and the step runs behind it. Two results let a repeated step return
something else. It shows:

- `OwnerReplaysStoredValues`: whoever holds the lease replays stored values only. It may
  lack the outcome of the wait it is at and values from before a wait, nothing after
  the last wait.
- `FailureBudgets`: a run fails exactly when `attempt` or `lease_failures` reaches
  `max_attempts`.
- `CheckpointsAreFinal`: a stored value is never replaced.
- `ProgressIsFenced`: cursor, attempt and output change only under a live lease,
  and the cursor never moves back.
- `EveryRunEnds`: an inserted run reaches a terminal state, although claims with old
  checkpoints repeat waits.

**`worker_two_runs`** (`MCWorkerShared.cfg`, 543,984 states up to symmetry). Two runs wait
for one key, `step, wait` and `wait, sleep`: one completes in `commitStep`, the other in
`completeRun`. Events are emitted, rolled back, expire and are pruned meanwhile. Both runs
have one attempt, since retries are in `worker_one_run`.

- `OwnerReplaysStoredValues`, here with a step before the wait, whose value a claim may lack.
- `CursorMatchesCheckpoints`: every step and wait behind the cursor has its value, none
  ahead of it has one, and at the cursor only a wait may have one, even while the run
  is parked on it again.
- `NoMissedEvent`: a registered wait that is not overdue has no unexpired event in the log.
- `CompletedRunHasItsOutput`: a claim with old checkpoints repeats a wait, but
  `commitStep` then returns the stored value.
- `ImplementsLifecycle`: the refinement of `RunLifecycle`. A repeated wait is all that can be
  seen of a claim with old checkpoints; values are still saved one by one, in order, and
  never replaced.
- `TerminalIsFinal`: a terminal run never changes, although claims of it go on.

**`event_transactions`** (`MCEventTx.cfg`, 75,866 states). Two emissions and two waits;
transactions begin at time 0 or 1, events are retained for 1 and waits last 1. That is the
smallest instance in which an event has expired when a wait begins, a deadline has passed
when an emission begins, a deadline passes while a transaction waits for the lock, and an
emission that began first commits last. With times up to 2 and durations of 2
(489,336 states), the properties hold as well, but checking liveness takes minutes.

- `NoEventMissed`: a parked run that is not overdue has no retained event.
- `MostRecentEvent`: a lookup never delivers an event when another one is retained
  whose emission began after the first had returned.
- `OutcomeIsFinal`: an event or a timeout, decided once.
- `EveryWaitEnds`.

**`heartbeat`** (`MCHeartbeat.cfg`, 774,987 states). Two claims, so that one is inserted or
ends while the other is renewed; a lease of 3 and an interval of 2, the smallest for which
a deadline comes before the next renewal. Timers fire on time;
statements may fail, be answered late or be executed after they were given up.

- `TypeOK`.
- `ConfirmedDeadlineIsSafe`: the table never believes in a lease longer than PostgreSQL
  does.
- `LatenessIsBounded`: a claim is cancelled within one `LeaseTTL` after its deadline.
- `LostClaimIsCancelled`: a claim that keeps working without its lease is cancelled.

**`heartbeat_healthy`** (`MCHeartbeatHealthy.cfg`, 170,854 states).
`HealthyWorkerKeepsItsLeases`: if statements take at most `Latency`, and both
`2 * Latency + HeartbeatInterval` and `3 * Latency` are below `LeaseTTL`, no lease under
execution expires. The second bound matters where a renewal may take longer than the
interval: with a lease of 8, an interval of 1 and a latency of 3, a claim inserted just
after a renewal was sent is renewed too late. The proof led to it.

**`dispatch`** (`MCDispatch.cfg`, 116,390 states). Two runs of a registered workflow and one
that is not, two slots, a `WaitForIdle` caller, and workers that stop and start again. Two
supported runs are needed for one to be left in the queue while a slot becomes free, and for
each to become due in front of the other or behind it; the third may be in front of both. A
worker starts only after the claims of an earlier one have ended (`MaxOrphans = 0`); with
claims left over, `wait_group_reuse` is the run, and the safety properties are proved.

- `TypeOK`.
- `ConcurrencyIsBounded`: never more claims than `MaxConcurrency`.
- `QuietMeansDone`: a dispatcher that sleeps with a free slot has left no run that was
  announced.
- `IdleMeansIdle`: when `WaitForIdle` returns without an error, nothing runs.
- `DueRunIsClaimed`: a due run is claimed although notifications are lost, runs of other
  workflows are in front of it and others become due behind it. It must not happen for ever
  that runs become due in front of it (`NoMoreInFront`): the order of the claim statement
  would then prefer them.
- `StartWorkerReturns` although claims may never return; `WaitForIdleReturns` if they do.

With a claim left by an earlier worker (`MaxOrphans = 1`, 304,132 states), the properties hold
as well.

**`producer`** (`MCProducer.cfg`, 291,804 states). Two names, two versions, one key, two ids
and two calls. `SameKeySameRun`, `RunIsPinned`, and `CancelIsTruthful` (what `Cancel` has
reported stays true).

**`schema_migration`** (`MCSchemaMigration.cfg`, 1,007 states). Two callers that support one
migration and one that supports three, so that the history grows past what the older
ones know. One of the older ones is at REPEATABLE READ.

- `HistoryIsTrue`: the recorded versions are the installed migrations, without a gap.
- `ConcurrentCallsAreSafe`: a call at READ COMMITTED never repeats a migration.
- `SuccessIsExact`: a call at READ COMMITTED succeeds on exactly its library's schema.
- `EveryCallReturns`.

**`maintenance`** (`MCMaintenance.cfg`, 101,780 states). Two workers, batches of one row, at
most two batches a job, and more expired leases than a batch holds. `TypeOK`;
`BatchOwnsItsRows`: a batch changes only rows that are still overdue and that no other
batch has; `EveryOverdueRowIsHandled`: although leases go on expiring, and although
another job fails for ever or is never done.

**`definitions`** (`MCDefinition.cfg`, 44,149 states). Every definition of up to four
operations over three names and every outcome, payloads that read `"timed_out"`,
`{"received": ...}` or `null` included. `ContextTellsWhatHappened`: what a step reads by
name is what that operation did. `OutputIsTheLastValue`: the run's output is what its last
step or wait stored.

`CHECK_DEADLOCK FALSE` is set where a behaviour ends: a compiled definition has been
executed (`definitions`), the last transaction has ended (`event_transactions`).

### Where the code and its documentation disagree

Two runs check what a comment says, and TLC finds a behaviour of the code that
contradicts it. The traces are short.

| Run | What is said | What happens |
| --- | --- | --- |
| `wait_group_reuse` (`MCDispatchReuse.cfg`) | "Prevent a new worker from adding claims during Wait." (`engine.go:382`) | A `WaitForIdle` whose context ends unlocks `workerMu` while its goroutine is still in `Wait`. A new worker adds claims to the group before that `Wait` has returned, which `sync.WaitGroup` does not allow. |
| `claim_snapshot_values` (`MCWorkerValues.cfg`) | "StepContext exposes workflow input and completed step values." (`types.go:73`) | A slow claim statement returns the latest row with the checkpoints of its older snapshot, so a step is called without the value of a completed one. It takes an `EmitEvent` that began before the claim and committed after another worker had executed the run. |

Three smaller ones follow from the same models and have no run of their own:

- "each claim's context is canceled when its last confirmed deadline passes"
  (`ARCHITECTURE.md:75`). A claim inserted between `expire` and `snapshot`, or during a
  renewal, is not in the bound of that renewal and is cancelled late. `LatenessIsBounded`
  bounds the delay by `LeaseTTL`; a bound of 0 does not hold. Fencing keeps the store
  correct.
- "safe to call concurrently and on every start" (`migrate.go:13`). If a session's default
  is REPEATABLE READ, its snapshot is taken before the lock is granted. Its call may repeat
  a migration, which fails (`MigrateConflicts`), or accept a schema that is too new.
  `ConcurrentCallsAreSafe` and `SuccessIsExact` therefore speak of READ COMMITTED only;
  `HistoryIsTrue` holds at either level. `EmitEvent` and `waitForEvent` ask for READ
  COMMITTED; `ApplySchema` does not.
- "its existing terminal State" (`types.go:58`). A run inserted between the two statements
  of `Cancel` is reported as not cancelled, in state `ready`. `CancelIsTruthful` therefore
  speaks of terminal states only.

### Fairness

In `Worker`, `Fairness` assumes, and the code justifies:

- Weak fairness of choosing a due run (`TakeSnapshot`), of `Recover` and of `Promote`: the
  dispatcher polls and maintenance runs on a ticker, for as long as some worker
  serves the run's queue and version.
- Weak fairness of the end of a claim statement (`StatementEnds`), which may be that it
  skips the row; and strong fairness of `ClaimsRun`: of the statements that go on choosing
  a run, not all find its row locked or fail.
- Weak fairness of the clock on due times, wait deadlines, and leases that nobody
  executes (a lease under execution may be renewed for ever).
- Weak fairness of a claim's own next step (`Proceed`), in particular that a step
  function returns. `ARCHITECTURE.md` says that user code that never returns
  cannot be interrupted; such a run would stay leased. Failing and abandoning
  are possible but never forced.
- Strong fairness of getting an advisory lock, because PostgreSQL queues the
  requests, and weak fairness of the end of `EmitEvent`'s transaction.

Nothing is assumed about replies: every claim reply may be lost. The run then
ends because `lease_failures` grows.

The other modules:

- `EventTx`: time passes, an open transaction goes on, maintenance promotes an overdue
  wait; strong fairness of getting the lock, as above.
- `Heartbeat`: the loop is scheduled, time passes, and a renewal returns once its context
  has ended. No statement needs to succeed. In `PromptSpec` time does not pass while the
  loop is runnable, and in `HealthySpec` nothing fails and it does not pass while a
  statement is overdue either. `FairSpec` adds the fairness to `PromptSpec`.
- `Dispatch`: the ticker fires, a claim statement ends with a reply or an error, the
  drain's timer fires. `BeginDrain` is strongly fair because Go's `select` chooses at
  random among the ready cases. Two assumptions are premises of the properties that need
  them and not part of `FairSpec`: claims return (`ClaimsReturn`), for `DueRunIsClaimed` and
  `WaitForIdleReturns` (with the scheduling of the waiting call and its goroutine); and a
  claim statement that is repeated for ever succeeds again and again with no row locked by
  others, for `DueRunIsClaimed` (which also has `NoMoreInFront` as a premise).
- `SchemaMigration`: a call goes on; strong fairness of the lock queue.
- `Maintenance`: `JobGoesOn(job)` is the premise of `EveryOverdueRowIsHandled` for each job:
  workers are stopped only finitely often, tickers fire and statements end, and the batches
  of this job that hold a given row do not all fail (strong fairness of `Handles`). Nothing
  is assumed of the other jobs. That an old row gets into a batch is not assumed: it is
  what the order of the statement gives.

## 4. The proofs

Each theorem holds for every value of the constants that the named assumptions of its
module allow, and none of the sets of runs, claims, calls or workers need be small. The
pattern is the same throughout: an invariant that contains the property and what its
proof needs of every other actor, one lemma per action (or per statement), and a last
step that combines them. On the instances of the runs, TLC finds these invariants true as
well, except that of `SchemaMigration`, which quantifies over all numbers.

| Module | Theorem | Statement |
| --- | --- | --- |
| `WorkerStepProofs` | `Invariance` | `Spec => []IndInv` |
| | `TypeCorrect` | `Spec => []TypeOK` |
| | `LeaseHolderReplaysStoredValues` | `Spec => []OwnerReplaysStoredValues` |
| | `ProgressIsRecorded` | `Spec => []CursorMatchesCheckpoints` |
| | `OutputIsRecorded` | `Spec => []CompletedRunHasItsOutput` |
| | `EventsAreNotMissed` | `Spec => []NoMissedEvent` |
| | `BudgetsAreExact` | `Spec => []FailureBudgets` |
| | `CheckpointTheorem` | `Spec => CheckpointsAreFinal` |
| | `TerminalTheorem` | `Spec => TerminalIsFinal` |
| | `ProgressTheorem` | `Spec => ProgressIsFenced` |
| | `Refinement` | `Spec => ImplementsLifecycle` |
| `HeartbeatProofs` | `DeadlineIsSafe` | `Spec => []ConfirmedDeadlineIsSafe` |
| | `TypeCorrect` | `Spec => []TypeOK` |
| | `LatenessTheorem` | `PromptSpec => []LatenessIsBounded` |
| | `HealthyTheorem` | `HealthySpec => []HealthyWorkerKeepsItsLeases` |
| `DispatchProofs` | `TypeTheorem` | `Spec => []TypeOK` |
| | `ConcurrencyTheorem` | `Spec => []ConcurrencyIsBounded` |
| | `QuietTheorem` | `Spec => []QuietMeansDone` |
| | `IdleTheorem` | `Spec => []IdleMeansIdle` |
| `MaintenanceProofs` | `TypeTheorem` | `Spec => []TypeOK` |
| | `BatchTheorem` | `Spec => []BatchOwnsItsRows` |
| `ProducerProofs` | `DeduplicationTheorem` | `Spec => []SameKeySameRun` |
| | `CancelTheorem` | `Spec => []CancelIsTruthful` |
| | `VersionTheorem` | `Spec => []RunsAreRegistered` |
| | `PinningTheorem` | `Spec => RunIsPinned` |
| `SetupProofs` | `DefInvariance` | `DefSpec => []DefInv` |
| | `ContextTheorem` | `DefSpec => []ContextTellsWhatHappened` |
| | `OutputTheorem` | `DefSpec => []OutputIsTheLastValue` |
| | `HistoryTheorem` | `Spec => []HistoryIsTrue` |
| | `ConcurrencyTheorem` | `Spec => []ConcurrentCallsAreSafe` |
| | `SuccessTheorem` | `Spec => SuccessIsExact` |
| `EventTxProofs` | `RegistrationTheorem` | `Spec => []NoEventMissed` |
| | `RecencyTheorem` | `Spec => []MostRecentEvent` |
| | `OutcomeTheorem` | `Spec => OutcomeIsFinal` |

### Claim execution: `WorkerProofs`

Assumptions: `WorkflowAssumption`, `NullAssumption`, `RunStoreAssumption` and
`HoldersAssumption` (definitions are not empty, limits are positive, `Null` is not a
value, key, token, run or payload, and tokens are not payloads). The number of claim
statements in progress is arbitrary.

None of the invariants is inductive alone. `CursorMatchesCheckpoints` survives a
commit only if the committing claim is at the cursor, which needs
`OwnerIsAtCursor`; that needs the values it replays to be stored
(`OwnerReplaysStoredValues`); and that needs each token to be in one row
(`TokensAreUnique`). `CompletedRunHasItsOutput` holds after `completeRun` because a claim at
the end lacks at most values from before a wait (`Knows`), and the output operation has no
wait behind it (`OutputIsKnown`). `NoMissedEvent` needs
to know that a claim about to park has seen an empty log (`NothingToDeliver`), which stays
true because it holds the key's lock (`ClaimShape`). `RowShape` ties the lease and wait
columns to the state. `IndInv` is the conjunction, with `SnapshotInv` for the claim
statements.

The module has lemmas on what each statement does to one row (`CursorAdvances` is
the one behind `commitStep` and `parkSleep`), three lemmas that
lift a change of one row or one claim to the whole invariant (`LocalStep`,
`StatementStep`, `OutsideStep`), one lemma per action, and `OtherStepInv`, which combines
them: every step but one of a claim statement keeps `WorkerInv`, which is `IndInv` without
`SnapshotInv`, grouped by run and by claim.

### Its steps, the claim statement and the lifecycle: `WorkerStepProofs`

The action properties follow from one fact per row, `GoodStep`: a step leaves a row and
its values as they are, or the run has not ended, no stored value is lost, and the cursor,
the attempt and the output change under a live lease only. A stored value survives
because `commitStep`, `emitEvent` and `promoteTimedOut` keep what they find
(`ON CONFLICT`), not because a claim knows what is stored.

`SnapshotInv` says of a claim statement that what its snapshot holds is still stored, and
that as long as it may take its row, it holds all that is stored or the row's cursor is on a
wait. The second case arises from an `EmitEvent` that began before the statement
(`RecheckedInv`, `EmitEndsWaits`). That values are never lost, which it needs, is `GoodStep`
again (`SnapshotMoves`). It is what makes the claim safe: a claim that starts on a wait
lacks at most what `Knows` allows (`SnapshotIsKnown`), and any other starts with all there
is. `NextInv` combines the two halves, and `Regroup` says that they are `IndInv`.

`Refinement`: the initial state maps to the initial state of `RunLifecycle`, and under
`IndInv` every action of `Worker` maps to one of its steps or to none. An emission maps to
several runs' steps at once. The lemmas behind it are stated per statement (`Mapped`): where
the cursor's operation has no value, it is the next one to be saved (`CursorIsNext`,
`NextIsToSave`); a lease holder at an operation that has a value is at the cursor, and the
operation is a wait (`StoredIsAtCursor`). Such a wait is the last operation with a value
(`CursorHasEnded`), so parking on it is `WaitAgain`, and waking it is a `Wake` with the run
in `again`; an emission may wake runs of both kinds at once (`MapWake`). `commitStep` of
such a claim keeps the stored outcome, and maps to no step, or to `Complete` at the last
operation.

### The lease keeper: `HeartbeatProofs`

Under `HeartbeatAssumption`. `DeadlineIsSafe` adds to the table's deadlines the two on
their way to it: that of a claim statement, for the rows it returned, and that of a
renewal, for the tokens it returned. Both countdowns started before PostgreSQL set the
lease, and a renewal executed late only lengthens it.

`LatenessTheorem` needs to know how late an open entry can be at each place of the loop
(`Lateness`). Asleep, it was ahead when the timer was set or came in later, at a deadline
of 0 or more, so it is no later than the timer has run. In a renewal the same holds for
the deadline of the renewal's context. `MinOfNats`, that a set of numbers has a least
element, gives the earliest deadline that the code computes with a loop.

`HealthyTheorem` bounds, for every place of the loop, what is left of a confirmed deadline
(`Margins`): a cycle lasts an interval, or a statement where that is longer (`Cycle`), and a
renewal confirms at least `LeaseTTL - Latency`. `Renewals` says that a renewal in flight
has the tokens of all claims but those inserted since.

### The dispatcher: `DispatchProofs`

Under `DispatchAssumption`. `SlotsAreFree` is what `ConcurrencyIsBounded` and
`QuietMeansDone` need between reading the free slots and the claim's return: the slots
read are still free, since only the loop adds claims, and a slot freed meanwhile has
signalled or is about to. A claim that returns as many rows as it asked for may leave
others; then either no slot is free, or that signal is pending. `LockIsHeld` says that
`WaitForIdle` has `workerMu` to itself and that no worker runs meanwhile.

### Maintenance and producers: `MaintenanceProofs`, `ProducerProofs`

`BatchOwnsItsRows` is inductive with `LocksAreHeld` (rows are locked only while a batch's
transaction is open) and the types, from `MaintenanceAssumption`. Both modules that count
rows of a claim or a batch also carry that the rows are finitely many.

In `ProducerProofs`, under `ProducerAssumption`, `KeysAreUnique` is the unique index,
and `RepliesAreTrue` that what a call was told can no longer change: a run keeps its name
and key, and a terminal state is final. `LatestExists`, every registered name has a
greatest version, stands in for an induction over the registrations.

### Definitions, schema and events: `SetupProofs`, `EventTxProofs`

`SetupProofs` has what a program does before it starts a worker. For `Definition`, under
`DefinitionAssumption`, two things need an argument. The first is what the loop of
`compileWorkflow` computes for any number of operations. `OutputIndexIsLast` and
`NamesAreIndices` give a closed form that satisfies the loop's equations, and show that two
solutions agree: otherwise there would be a least iteration where they differ
(`LeastNat`), and they would already differ before it. The second is that encoding loses
nothing: a wrapped payload is longer than the marker of a timeout and can be unwrapped
(`WrappingCanBeUndone`), whatever the payload looks like. The invariant `DefInv` says that
names are unique (`Built`), that the compiled definition belongs to the operations
(`Compiled`), and that each operation behind the index has stored what happened in it
(`Driven`).

The invariant for `SchemaMigration` says that an open transaction past the lock
holds it, and that it is in one of two positions. Either what it has executed and recorded
starts right after the committed history (`Current`), or it is at REPEATABLE READ, has read
an older version and has executed nothing (`Stale`), and its next migration fails. For that
a snapshot must be an earlier history (`SeenInv`).

The invariant of `EventTxProofs` gives the types of the variables, says who holds the
lock, what a run about to park knows of the log, which rows an emission about to commit
has, and that emissions which returned before another began precede it by `created_at`
and `id`.

## 5. Only model-checked

- Liveness, which rests on fairness: `EveryRunEnds`, `EveryWaitEnds`, `LostClaimIsCancelled`,
  `DueRunIsClaimed`, `StartWorkerReturns`, `WaitForIdleReturns`, `EveryCallReturns`,
  `EveryOverdueRowIsHandled`.
- That the modules fit together. `Worker` is the composition of store, claims, events,
  producers and maintenance; the others refine one part of it each and are not formally
  composed with it.

All other properties of the passing runs, every invariant, every action property and
the refinement, are proved.

## 6. Not modelled

- Retry delays: `backoffDuration` and the `LEAST(...)` of `recoverLeases` compute a duration
  from a counter. In `Worker` a due time is in the future or in the past, so every delay is
  covered and no property depends on its length.
- Error text: `sanitizeError` cuts a message at a rune boundary.
- Configuration: defaults and validation in `New`, options, quoting of identifiers, UUIDs.
  What `New` guarantees is assumed where it is used (`HeartbeatAssumption`,
  `DispatchAssumption`).
- `RunStatus` and `RunOutput`, which read one row in one statement.
- The DDL of the migrations, apart from the columns, the unique indexes and the default
  values the statements rely on.
- `cmd/growthbench`, a measuring tool that drives the public API.
- Two waits without a promise in the code: a claim statement that PostgreSQL never
  answers keeps `StartWorker` from returning, since it has no timeout of its own; and a
  second `WaitForIdle`, or a `StartWorker`, blocks on `workerMu` without regard to its
  context.
