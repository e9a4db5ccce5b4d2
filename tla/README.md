# SQR: TLA+ models, checks and proofs

SQR is a collection-management server (TypeScript, Express, PostgreSQL, WebSockets, an optional
Redis/BullMQ tier) with a React client. Its core is a ledger of payments ("collection records") and
the totals, reports and settlements derived from it. Around the ledger stand background jobs (rollup
refresh, backups, imports), protection against repeated requests, sessions, and a cluster of worker
processes that share one database.

This directory holds TLA+ models of the parts of the server where interleavings, crashes and lost
answers decide correctness; TLC configurations that check them on small instances; and TLAPS proofs
of their main safety properties for every value of the constants. `PROJECT.json` maps every definition
to the source lines it stands for and lists the components, runs, mutants, hazards and theorems.

Contents: 1 inventory - 2 plan - 3 conventions - 4 the modules - 5 the runs - 6 findings -
7 the proofs - 8 what is not modelled - 9 how to run it.

## 1. Inventory

Paths are relative to `src/server/`. "Hard" names what makes the component difficult to test.

### 1.1 Modelled

| component | state | operations | hard | properties |
|---|---|---|---|---|
| rollup maintenance (`repositories/collection-record-rollup-{refresh,slice,repair}-utils.ts`) | tables of daily and monthly totals; advisory locks per month key and for the full rebuild | refresh of slices, full rebuild, bounded repair | read-then-upsert in READ COMMITTED; a full rebuild while saves run; lock order | totals equal the ledger; no lock cycle |
| record writes (`collection-record-{create,mutation,purge}-...-utils.ts`, `backups-restore-collection-write-utils.ts`) | `collection_records`; advisory lock per record | create, update, delete, retention purge, restore | candidates listed before they are locked; failure between ledger write and totals | totals equal the ledger; a re-dated payment is not purged |
| rollup refresh queue (`collection-record-rollup-queue-utils.ts`, `services/collection-rollup-refresh-queue.service.ts`, `services/collection-rollup-operations.service.ts`) | one queue row per slice with status, claim token and next attempt; a loop per process | enqueue, claim, refresh, complete, fail, requeue on start, operator's heal, retry and rebuild | stale claims, late completions and failures, crashes, lost answers | no request lost; published totals never go back; every request is served |
| summary reports (`collection-record-read-utils.ts`) | none of their own | ask for pending rows, then read rollup or ledger | two statements, anything in between | a report is no older than its request |
| backup jobs (`repositories/backup-job.repository.ts`, `services/backup-job-queue*.ts`, `internal/background-service-health.ts`) | `backup_jobs`; per process the loop's promise | enqueue, claim, run, complete, fail, prune, start with marking of interrupted jobs | several processes; wake-up of a loop; crashes in the middle; result lost after the work | a restore never runs twice; completed means done; newest history kept; nothing runs for ever |
| mutation idempotency (`repositories/mutation-idempotency.repository.ts`, `routes/imports-idempotency.ts`, `routes/collection/collection-route-handler-factories.ts`) | one row per (scope, actor, key): pending or completed with a response | acquire (prune, insert, look), complete, release, release on a closed connection | retries racing the handler, expiry, lost answers, rows addressed by key rather than by reservation | a mutation is repeated only for a named reason; replays are truthful |
| settlement cycles and receipts (`repositories/collection-settlement-repository-utils.ts`, `collection-manual-settlement-repository-utils.ts`, `collection-receipt-{mutation,validation,lookup}-utils.ts`) | per payment its cycle, classification, manual override, receipt and duplicate flag; advisory locks of cycles and receipt hashes, row locks | recalculation after create, update, delete, purge and receipt changes; manual settle and revoke | statements of several transactions under locks taken in different orders; a record that leaves a cycle | committed classifications fit the committed payments; a receipt counts once; active settlements are justified and pinned; only known deadlocks |
| sessions and WebSockets (`repositories/activity-repository-session-operations.ts`, `services/activity*.ts`, `auth/guards.ts`, `ws/`, `internal/idle-session-sweeper.ts`) | the session's row; per worker the maps of clients and of socket entries; the shared bus | guard, heartbeat, logout, kick, ban, delete, idle sweep; handshake, replacement, close, ping, remote close | a check before an await and the write after it; late close events; lost bus events | an ended session is admitted nowhere and settles; no open socket is lost from the maps |
| AI gate, circuit breaker and AI requests (`internal/aiConcurrencyGate.ts`, `internal/circuitBreaker.ts`, `services/ai-{search,chat}.service.ts`) | slots in all and per role, queue, timers; circuit state, outcomes, half-open places | acquire, wait, time out, hand over, release, stop; execute, succeed, fail, cool down | a slot handed over while a request times out; calls that return in another state than the one that admitted them; calls inside calls | slots are accounted for and never idle beside a waiter; half-open places match their calls; the circuit recovers |
| background imports (`services/import-background-job.service.ts`, `queue/`, `services/imports-service-mutation-operations.ts`) | staged file, cancel marker, queue's jobs, the import's rows | stage, cancel, resume, run, take back, clean up | cancel and resume against the worker; a crash with half an import; two jobs of one file, or a stalled job beside its live first run; statements answered with an error after their effect | one active import of a content; half imports are taken back but in named cases; an upload is lost only in named cases |
| cluster master (`internal/cluster-master-{orchestrator,lifecycle,shutdown}.ts`, `cluster-restart-policy.ts`) | known workers, draining and intended exits, throttle, block, failure window | fork, exit, drain, scale, shut down | exits, channel ends and messages in any order; restarts refused for a time | the minimum is lost only in named cases; never more processes than the cap; a stopping master forks only when an exit overtakes the end of its channel |

### 1.2 Partly modelled

What each modelled component leaves out is in section 8, and with each component in `PROJECT.json`.

### 1.3 Not modelled

Import parsing and search, load prediction, adaptive intelligence, rate limiting, file scanning, PII
encryption, mail, settings, schema bootstrap, request time-outs, connection pool, token revocation,
two-factor replay store, account tokens, orphan cleanup, audit log and the web client. `PROJECT.json`
names each with its reason: input and output without shared state, one conditional statement per
operation, arithmetic over one query's result, or cryptography.

### 1.4 How components interact

- **Database.** Every process writes the same PostgreSQL tables. Statements are READ COMMITTED, so a
  transaction's statements see different snapshots; transaction-level advisory locks (record id,
  rollup key, rebuild, settlement cycle, receipt hash) provide the ordering.
- **Record writes -> rollups.** Create, update, delete and purge refresh the slices they touch within
  their own transaction. The refresh queue serves deferred requests: at this commit the enqueue
  operation is exported by `collection-record-repository-utils.ts` and called only by tests, while the
  worker loop, the operator's calls and the reports run in the server. `RollupQueue` models the queue
  for any transaction that enqueues.
- **Queue -> rollups.** A queue worker's job is the same slice refresh, in a transaction of its own.
- **Reports -> queue and rollups.** A report reads the rollup only if no row is pending for its slices.
- **Routes -> idempotency -> handlers.** A mutating route reserves its key before its handler and
  completes or releases it afterwards; the import routes do so in a middleware that also reacts to
  the connection's `close` and `finish` events, which may come while the handler runs.
- **Cluster -> queues.** Each worker process constructs and starts both queue services; a service
  whose start failed is retried by a timer of `background-service-health.ts`.
- **Restore -> ledger.** A backup job's restore writes the ledger and ends with a full rebuild.
- **Record writes -> settlement and receipts.** The same transactions recalculate the cycles they touch
  and set the saved record's duplicate flag, between their ledger write and their commit.
- **Sessions -> sockets -> bus.** The operation that ends a session closes the sockets of its own worker
  and tells the other workers by the bus, if it had a socket to delete.
- **AI routes -> gate -> breaker.** A request holds a slot of the gate while its handler runs; the handler
  calls the model through the breaker, a search from inside another call of the same breaker.
- **Import routes -> queue -> import worker.** The upload is staged on disk; the worker, another
  process, reads the file and the cancel marker beside it, and writes the same tables as a direct import.
- **Cluster master -> everything in memory.** Its forks and exits are the starts and crashes that
  `RollupQueue`, `BackupJobs`, `SessionLifecycle` and `ImportJobs` take as actions.

## 2. Plan

Order: the component whose error costs most first.

| # | module | composes / refines | runs | theorems |
|---|---|---|---|---|
| 1 | `CollectionRollup`, `CollectionLedger` | implements `CollectionLedger` | `rollup` | types, daily and monthly totals, purge, no lock cycle, refinement |
| 2 | `RollupQueue`, `RollupFreshness` | implements `RollupFreshness`; takes the slice refresh as `CollectionRollup` shows it | `queue` | types, no lost request, reports, refinement |
| 3 | `BackupJobs` | | `backup_jobs`, `backup_wakeup`, `backup_cluster` | types, runs once, completed worked, newest history |
| 4 | `MutationIdempotency` | | `idempotency`, `import_duplicate` | types, repeats paid for, truthful replays |
| 5 | `SettlementCycle` | record locks and private drafts as in 1, with the lock order of all record operations | `settlement` | types, classifications, receipts, justified and pinned settlements, known deadlocks |
| 6 | `SessionLifecycle` | | `sessions` | types, admission, known sockets, survivors |
| 7 | `AiConcurrencyGate`, `CircuitBreaker`, `AiRequests` | `AiRequests` composes the two | `ai` | types and places of the breaker; slots and waiters of the gate |
| 8 | `ImportJobs` | | `imports` | types, half imports are taken back and uploads are kept but in named cases |
| 9 | `ClusterMaster` | | `cluster` | types, the cap and the minimum are kept, when a stopping master may fork |

## 3. Conventions

- One action is one SQL statement, one synchronous piece of JavaScript between two awaits, or one
  transaction when every statement of it is under one lock. Definitions carry the name of the function
  they model where there is one.
- Data is reduced to what properties tell apart: a total is the set of rows that were summed, a
  response is the request it answered, a ledger state is the number of changes made to it.
- A failure is an action: a statement that throws before or after its effect, a connection lost at
  COMMIT, a process that ends. In `RollupQueue`, `BackupJobs` and `MutationIdempotency` faults take from a budget
  `MaxFaults`, so that liveness is "after finitely many faults"; elsewhere they are unbounded.
- "Variant for the checks" marks a definition that is not part of a specification: it is the mutated form
  `PROJECT.json` substitutes to show that a property can fail.
- Modules with theorems use no recursive operators. Constants that stand for "nothing" are model values.

## 4. The modules

### 4.1 `CollectionRollup` and `CollectionLedger`

*Models* `collection-record-rollup-refresh-utils.ts`, the slice and repair utilities, the ledger part
of create, update, delete and purge, and the restore's record insert with its final rebuild.

| state | stands for |
|---|---|
| `rec`, `daily`, `monthly` | the committed rows of the three tables |
| `recW`, `dayW`, `monW` | each transaction's uncommitted writes; a statement sees the committed tables overlaid with them |
| `recLock`, `keyLock` | `pg_advisory_xact_lock` of a record id and of a rollup month key |
| `shared`, `excl` | the rebuild lock: shared by refreshes, exclusive by a rebuild |
| `pc`, `kind`, `target`, `newRow`, `todo`, `keyTodo`, `curDay`, `curMon`, `agg` | the statement a session is at and the local variables it uses |

The transaction of an update reads, as in the code: lock the record (`LockRecord`, in id order for a
purge), read it (`ReadExisting`; a row that is gone, or for a purge no longer expired, is dropped from
the work), write it (`WriteRecord`), take the rebuild lock shared (`LockShared`) and the month keys in
sorted order (`LockKey`, `KeysLocked`), then for each slice one SELECT (`AggregateDay`) and one upsert
or delete (`PutDay`), for each key the same over the daily rows (`AggregateMonth`, `PutMonth`), and
`Commit`. A create has no record to lock. A rebuild takes the rebuild lock exclusively and runs its
four statements; a repair takes keys and runs its two pairs; a restore inserts with ON CONFLICT DO NOTHING,
then rebuilds. `Rollback` may happen at every statement and releases everything.

Amounts, dates and names only matter through the slice they select, and COUNT and SUM through the set
of rows they range over; normalisation of slices (trimming, deduplication) is `Scope` and `SliceOf`.
Receipts, settlement and source snapshots of the same transactions lie outside this module. So do their
locks: `NoLockCycle` speaks of record, rebuild and key locks only.

*Properties.* `DailyExact` and `MonthlyExact`: in every reachable state the committed totals equal the
committed ledger. `PurgeOnlyExpired` (action property): what a purge removes is expired when it commits.
`NoLockCycle`: no group of sessions waits only for each other.

`CollectionLedger` is the promise made to whoever saves, removes or totals payments, in three actions: a session is asked
for an operation, performs it as a whole on the payments of that moment and together with its totals, or gives up.
`ImplementsLedger` maps what was asked to `kind`, to the id a single record's operation names (`target`) and to the row an
update writes; every statement but the last is a stutter. It says what the exact totals do not: an update that commits found
its payment and wrote what it was asked to, a restore overwrote none, and maintenance changed none. Which payments a purge
or a restore takes is left open, within the expired and the absent ones.

### 4.2 `RollupQueue` and `RollupFreshness`

*Models* the queue table (`row`: absent, queued, delayed until its next attempt, or running for a
claimant), the loop of each process (`wpc`, `job`, `snap`), the operator's `AutoHeal`,
`RequeueFailures` and rebuild (`mpc`, `msnap`), and report requests (`rpc`, `rslice`, `rlow`).
The ledger of a slice is a counter of changes (`led`), a rollup the change it accounts for (`roll`).
One refresh is one lock, one read and one commit: `CollectionRollup` is the argument that it may be.

The claim token is `(updated_at, attempt_count)`. A process works on one job at a time and a claim
sets a new `updated_at`, so "the row still carries my token" is "the row is claimed by me for my
present job". `Complete` deletes the row only then, `FailSlice` delays it only then. `RefreshThrows`
and `CompleteThrows` cover failing before and after the effect. `Crash` ends a process, also where a
failing claim ends the loop by an unhandled rejection; `EnsureStarted` is the start that requeues every
claimed row, whoever's it is.

`RollupFreshness` is the promise made to reports, in three actions: a change makes its slices pending,
totals move forward and never past the ledger, and a slice stops being pending only while its total is
current. `ImplementsFreshness` states that the queue implements it with `pending` mapped to the slices
that have a row.

*Properties.* `NoLostRequest`, `ReportsCurrent`, `ImplementsFreshness`, and under fairness `Converges`.

### 4.3 `BackupJobs`

*Models* the table (`status`), each process's service (`pc`: no process, not started, loop at rest, or a
step of the loop), the claim's candidate and lost attempts (`cand`, `tries`), requests between INSERT
and `runQueueLoop` (`waking`), and two history variables: how often an operation was begun (`begun`)
and which work was committed (`worked`).

A claim is a SELECT of the oldest queued job and a conditional UPDATE (`Select`, `Claim`,
`LoseClaim`). The pc value `"empty"` is the state between the last SELECT's evaluation in the database
and the arrival of its answer, when `runLoopPromise` is still set: `Wake` does nothing then, as in the
code. `Operate` is the operation, whose work may commit and whose answer may still be an error
(`OperateThenThrow`); `CompleteThrows` covers a completion or audit entry that throws and is turned
into `failJob`. `Start` marks running rows as failed, as `markRunningJobsFailed` does.
Jobs are numbered by `requestedAt`, which is stamped before the INSERT, so they may arrive out of order.

*Properties.* `RunsOnce`, `CompletedWorked`, `NewestKept`, `NoZombie`; and the two claims that fail,
`QueuedWorkRuns` and `InterruptedOnly` (section 6).

### 4.4 `MutationIdempotency`

*Models* one key and all requests that carry it. `row` is its table row; `pc` where each request is;
`held` an import middleware's view of its reservation; `closing` the imports whose release by a closed
connection is under way; `effects` the committed mutations; `replayed` what was answered from the
table; `lapses` counts the events after which the code lets a mutation run again.

`Prune`, `Insert` and `Look` are the three statements of `acquire`: a row found gone by `Look` is
answered "acquired" although nothing was inserted, as in the code. `Commit`, `HandlerFails` and
`CommitThenThrow` are the handler. `CheckHeld` and `Complete` are two steps because the import
middleware tests its reservation before an await and updates after it. `Close`, `CloseRelease` and
`CloseReleaseThrows` are the connection's events. `Crash` ends a request without any cleanup. An import
without a fingerprint header is refused, a collection request without one is not compared (`Fingerprint`).
Time is left out: any row may expire when a request prunes, within `MaxExpiries`.

*Properties.* `RepeatsPaidFor`: executions beyond the first are at most the lapses, where a lapse is an
expired row, an acquire that found the conflicting row gone, or a release by a request whose mutation was or
may still be committed; in particular a late `complete` or `release`, which address the row by key and
may hit another request's row, cost nothing beyond the lapse that preceded them. `ReplayTruthful`: a
replayed response is that of a committed mutation, and without a lapse of one with the same payload.

### 4.5 `SettlementCycle`

*Models* the transactions of `CollectionRollup` again, now for what they do to settlement cycles and
receipts, and the manual settlement. `rows` are the committed records, `draft` a transaction's uncommitted
writes, `owner` who holds each advisory or row lock, `todo` the statements an operation has still to
execute (`Script`). Before a statement its missing locks (`Needs`) are taken one at a time in the order in
which that statement takes them.

A save writes its record (`Insert`, `Edit`, `Erase`), its receipts under the lock of their hash
(`AttachReceipts`), its own duplicate flag (`Sync`) and the classifications of the cycles it left and
entered (`Recalc`): the eligible payment that crosses TOTAL DUE is `abort_cp`, the others `cp`. `Rollup`
only takes the month's lock. A manual settlement locks its row, then the cycle (`Anchor`, `Facts`,
`Activate`); `Revoke` ends it. The partial unique indexes reject a write (`IndexesHold`). Records are
numbered in payment order, receipts are copies of one file, and dates are not edited.

*Properties.* `ClassificationExact`, `OneCountedReceipt`, `OnlyKnownDeadlocks`, and as action properties
`ActivationJustified` and `AnchorPinned`.

### 4.6 `SessionLifecycle`

*Models* one session: its row (`here`, `active`, `ended`, `fresh` for lastActivityTime within the idle
limit), requests between the guard's statements and their handler, operations that have ended the session
and have still to close its sockets on their worker (`closing`), and per worker the two maps of the socket
runtime (`clients`, `entries`) with the events waiting on the bus. `late` and `slipped` are history: a
request that arrived after the end, a handshake that had read the row before the sockets were closed.

`Heartbeat` sets `isActive` by id whatever has happened since the guard, as the code does; `Admitted` is
why that is harmless. `Register`, `CloseEvent`, `Ping` and `Receive` touch the maps by socket, not by
session. A worker's crash takes its sockets and any of the requests; a lost event is `Lose`.

*Properties.* `AdmittedBeforeEnd`, `NoOrphanSocket`, `OnlySlippedSurvive`, and under fairness
`EndedSettles`. That an end closes the sockets of *other* workers is not a property: the map of clients
publishes a removal only if it had the session's socket (`ws/runtime-manager.ts:65`). A kick, a logout
or a sweep that runs on a worker without one publishes nothing, and the sockets that the session has
elsewhere stay open, while `docs/architecture.md:13` calls the cluster safe because "cross-worker activity
close events use Redis pub/sub". Five steps of the model show it: `Connect`, `ReadRow` and `Register` on one
worker, `Kick` and `CloseSockets` on another.

### 4.7 `AiConcurrencyGate`, `CircuitBreaker` and `AiRequests`

`AiConcurrencyGate` *models* the counters (`inflight`), the leases that are not released (`leased`), the
queue and the microtask that drains it (`draining`). `Drain` serves the queue in one step, each item if the
items ahead leave it a slot in all and of its role. A request between the resolution of its promise and
its handler is `granted`. A microtask may be overtaken by any other step, which is more than Node allows.

`CircuitBreaker` *models* `execute` with overlapping calls. A call admitted by a half-open circuit is a
`probe` until the circuit changes its state, every other one is `plain`: the code has no such mark, and
`PlacesMatchProbes` states that its counter of places agrees with it.

`AiRequests` composes the two: a chat makes one call; a search wraps its computation in a call and asks the
model for an intent and an embedding by further calls inside it, each with a fallback, and outlives its
handler. In a half-open circuit the search takes the only place, its inner calls are rejected, and its
success closes the circuit although the model was never asked. A handler whose client leaves gives back its slot
and goes on, so more handlers than `GlobalLimit` may run: the limit is one of leases.

*Properties.* `SlotsAccounted`, `NoIdleSlot`, `PlacesMatchProbes`, and under fairness `CircuitRecovers`
(`docs/TESTING_STRATEGY.md:188` asks for breaker recovery to be verified).

### 4.8 `ImportJobs`

*Models* the uploads of one content by one user: the staged files and cancel markers on disk, BullMQ's
jobs, each run of a job between its reads and writes, and requests that cancel, resume or withdraw between their
look at the job and their effect. A CSV file is read row by row, with the marker looked up at each row; another
file is read whole.

BullMQ is external. A job whose lock expired is given to a worker once more, and fails if that happens
again (`Stall`); its process may have crashed or only be slow. So `pc`, `out` and `imp` belong to a run, a pair of a
job and whether it is the second run; two runs of one job may overlap, and the end of a run that no longer has the
lock is refused.

An import of which rows are missing is active for its users and for the search for duplicates. It is left
behind in three ways (`broken`): the process crashes while it loads, a statement of the undo fails, or the INSERT
of the import takes effect and is answered with an error. `createImportRecord` is called outside the `try` that
undoes (`imports-service-mutation-operations.ts:140,196`), so that error is rethrown at line 125 and nothing
removes the row. `HalfImportsAreTakenBack` excepts these three and nothing else.

The client's text (`client/src/pages/import/useSingleImportState.ts:184`) promises that the upload is kept.
`UploadLostOnlyToTwins` names the ways in which the content of the uploads is lost all the same (`excused`):

- an import was left behind as above; a later run takes it for a duplicate, reports "duplicate" and removes
  the file;
- two runs share a file: a resumed job stays resumable, so that two jobs are pending, or a stalled job runs beside its
  live first run. One takes the other's import for a duplicate and removes the file that the other has still
  to read (it opens a CSV file twice);
- the queue has an upload's job but its answer is an error: the user is told so, and the file is removed
  while the job waits or runs.

Leaving out any of these exceptions makes TLC find a counterexample; with them it finds none within the bounds, and
section 7 proves it of this model for any. The claim ends where the model does: the sweep of staged files
after seven days (`jobs/cleanup-orphaned-uploads.ts`) and the loss of the queue's own data are outside.

*Properties.* `HalfImportsAreTakenBack`, `UploadLostOnlyToTwins`; `TypeOK` includes that one active import at
most has the content.

### 4.9 `ClusterMaster`

*Models* the master process (its definitions have a prefix, `MasterInit`, `MasterNext`, where another module
uses the plain name): Node's cluster module with the workers it knows (`Forked`: a worker is forgotten when
both its exit and the end of its channel were seen, in either order) and those it lists (`Listed`:
`cluster.workers`, which is what the handlers count), and the master's own marks. `Exit`
is the exit handler with its three outcomes (`PortTaken`, `Expected`, `Unexpected`), `Drain` a
rolling restart, `EvaluateScale` a scaling round with any plan, `ShutdownGracefully` and `ShutdownFatally`
the two ends. Throttle, block and failure window are flags that time takes back at any moment.

Both ends call `cluster.disconnect`, which takes every worker with a channel off the list at once (`cut`), although it
still runs; a worker forked later is listed again. The callback that ends the master is called when next a worker is
taken off and the list is empty, so the master leaves with the first worker that is gone altogether, not the last.

Nothing retries a fork that was throttled (2 s), blocked after a crash loop (60 s), or refused, and without
workers there are no metrics that would plan one. `MinimumKept` excuses these losses and no others: a crash while
restarts are throttled; any exit while they are blocked or given up; a failed fork, at boot, for a crash or for the
minimum; the exit of a drained worker while restarts are throttled after such a failure; and its exit while a
dead worker was still listed and counted. `docs/history/CRASH_LOOP_FIX.md` describes a `setTimeout` that spawns later and says
"Server continues operating even during worker failures"; `cluster-local.ts` says "Pause restart attempts".
A master that stops after a fatal error does not expect the exits of its workers and forks replacements
meanwhile. A graceful stop marks the exits as intended, but its exit handler goes on restoring the minimum
(`cluster-master-lifecycle.ts:208-225`), and the list it counts is empty since the disconnect. If an exit is handled
after the end of the worker's channel, the master is gone before its handler gets to that; if it is
handled before (`overtaken`), the handler counts no worker and forks one. No document or comment claims otherwise.
`StopsForGood` says that this is the only way, and `WorkerCap` that the processes, those off the list included,
stay within the cap all the same.

*Properties.* `MinimumKept`, `WorkerCap`, and as an action property `StopsForGood`. The latter depends on a minimum of
one: with two, the exit handler would also fork while another worker was left on the list.

## 5. The runs

| run | instance | distinct states | result |
|---|---|---|---|
| `rollup` | 2 sessions (symmetric), 2 records, days d1, d2 of one key and d3 of another, 2 amounts, d1 expired, all eight operations | 914,744 | `TypeOK`, `DailyExact`, `MonthlyExact`, `NoLockCycle`, `PurgeOnlyExpired`, `ImplementsLedger` hold; no deadlock |
| `queue` | 2 workers, 1 reader, 2 slices of one key, 2 requests, 1 fault, with fairness | 418,515 | `TypeOK`, `NoLostRequest`, `ReportsCurrent`, `ImplementsFreshness`, `Converges` hold |
| `backup_jobs` | 2 processes, 2 jobs, 2 attempts per claim, 1 job retained, 2 faults, with fairness | 145,615 | `TypeOK`, `RunsOnce`, `CompletedWorked`, `NewestKept`, `NoZombie` hold |
| `backup_wakeup` | 1 process, 2 jobs, no faults, with fairness | | `QueuedWorkRuns` is violated |
| `backup_cluster` | 2 processes, 1 job, no faults | | `InterruptedOnly` is violated |
| `idempotency` | 3 requests (an attempt, its retry, a reuse of the key for another payload), 3 kinds of route, 2 expiries, 2 faults | 1,359,838 | `TypeOK`, `RepeatsPaidFor`, `ReplayTruthful` hold |
| `import_duplicate` | an import of JSON rows and its retry, no expiry, no fault | | `NoDuplicateMutation` is violated |
| `settlement` | 2 sessions (symmetric), 2 records, 2 cycles, amounts below and at TOTAL DUE, 4 operations of seven kinds | 1,502,352 | `TypeOK`, `ClassificationExact`, `OneCountedReceipt`, `OnlyKnownDeadlocks`, `ActivationJustified`, `AnchorPinned` hold |
| `sessions` | 2 workers, 1 request at a time beside kicks, bans, sweeps and deletions, 2 sockets, 1 event waiting per worker, with fairness | 642,776 | `AdmittedBeforeEnd`, `NoOrphanSocket`, `OnlySlippedSurvive`, `EndedSettles` hold; no deadlock |
| `ai` | 4 requests: two users who share one slot, two admins; 2 slots in all, 2 places in the queue; a search, a chat; a window of 2 outcomes, 1 half-open place, with fairness | 438,392 | `SlotsAccounted`, `NoIdleSlot`, `PlacesMatchProbes`, `CircuitRecovers` hold |
| `imports` | a CSV file and another one, 3 runs in all (3 jobs, or 2 of which one stalls; symmetric), 2 workers, 1 request of the user at a time | 4,503,525 | `TypeOK`, `HalfImportsAreTakenBack`, `UploadLostOnlyToTwins` hold |
| `cluster` | 3 workers known at once (symmetric), 1 of them needed and 2 allowed alive, 1 refused fork in a row | 1,696,089 | `MinimumKept`, `WorkerCap`, `StopsForGood` hold |

**Why the bounds are enough.**
- `rollup`: interference over totals needs two transactions, two slices of one month (so that they
  meet in the monthly row only) and a slice of another month (so that an update moves a payment between
  keys and takes two). With two records a purge or update takes more than one record lock. A third
  session adds only waiting, and the proofs cover any number.
- `queue`: a stale claim needs two workers and two requests of one slice; two slices of one key make
  refreshes contend for a lock. One fault is a crash, a failure, a lost answer or a call of the operator
  (heal, retry or rebuild), at any step. With two faults the run has 1.06 million states, shows the same
  and takes too long to be run each time.
- `backup_jobs`: two processes compete for two jobs; with one job retained, pruning has something to
  remove. `MaxTries` is smaller than the code's number of attempts: with two processes and two jobs one
  lost candidate is already followed by each possible next outcome.
- `idempotency`: three requests are needed for the case of a row released and taken over between
  another's INSERT and SELECT; two expiries or faults in one run for a late completion of a row that
  was itself taken over.
- `settlement`: a cycle's classification depends on the order of its payments, which takes two records;
  with two cycles a record leaves one and enters the other, and with two sessions every pair of operations
  overlaps. Four operations allow two creates, a settlement and an operation against it.
- `sessions`: two workers for what one does and the other does not hear of; two sockets for a
  replacement and its late close event. Further requests are the same as the first, reused.
- `ai`: two requests of a role whose only slot is taken, so that one waits which must not hold up those of
  the other role; a search and a chat in flight together, over two rounds of the circuit.
- `imports`: a file, a second run on it (its resumed job or, stalled, its own), and another file of the same
  content; two workers run any two at once. `MaxRuns` counts the jobs queued and those that stall.
- `cluster`: one worker that is leaving, one that replaces it and one more that may crash, also while a stopping
  master has them off its list.

`CHECK_DEADLOCK FALSE` stands where requests, jobs or operations are bounded and the system rightly stops
(`queue`, the `backup_*` runs, `idempotency`, `import_duplicate`, `settlement`, `imports`) and where a server
is stopped for good (`ai`, `cluster`). A session that waits for a lock may always roll back in the models, as
PostgreSQL's deadlock detection makes it do, so lock cycles are found by `NoLockCycle` and
`OnlyKnownDeadlocks` rather than by TLC's deadlock check. `rollup` and `sessions` check for deadlock. Symmetry is used only in runs
without liveness properties.

Each property of a passing run has a mutant in `PROJECT.json`: a plausible bug of a mapped definition
under which TLC finds the property violated, for example refreshing without the key lock, completing a
queue row without comparing its token, purging by id without testing the date again, claiming a
job without the condition on its status, admitting by `isActive` alone, removing a session's sockets
whichever they are, releasing an AI slot once per event, or stopping a cluster without noting that the
exits are intended.

**Fairness.**
- `queue`: weak fairness of a worker's own steps (statements end) and of its `EnsureStarted` after a crash, which assumes
  supervision: a process that ended is started again by the cluster master or, with the master, by the service
  manager (4.9 tells when the master alone does not). Further of a delay passing and of the rebuild's statements. Strong
  fairness of "some worker claims slice s": the loop polls every two seconds and on NOTIFY, and the claim
  orders by `updated_at`, which each claim renews, so a row that stays due is passed by only finitely many
  others. Requests and faults are finite: a slice that is changed for ever may be pending for ever.
  No fairness of `Enqueue`, of faults or of the operator.
- `backup_jobs`, `backup_wakeup`: weak fairness of `Boot` (the same supervision), of `Start` (the health signal's
  timer retries it), of `Wake` (the request's next synchronous step) and of the loop's steps (calls
  return, and operations have time limits). No fairness of `Create`, faults or `StartByRequest`.
- `sessions`: weak fairness of a request's own steps (statements return), of each worker's sweep (a timer
  runs it every minute) and of the row's ageing while no request that may refresh it is under way
  (time passes). No fairness of sockets, of administrators or of the client. Under it `EndedSettles` holds even
  though the client may send requests for ever: those that come after the end are not admitted.
- `ai`: weak fairness of each request's work (a call returns, since it has a time limit; a handler ends) and of
  the cooldown. `CircuitRecovers` has two hypotheses: that from some moment every call succeeds (`Recover`), and that
  requests keep coming to the breaker, for nothing else closes a half-open circuit.

## 6. Findings

- **A backup job may wait for nobody** (`backup_wakeup`; `services/backup-job-queue.service.ts:66`).
  `runQueueLoop` returns the promise of a loop that is still running. If a job is inserted after the
  loop's last SELECT was evaluated and before its answer arrives, the enqueuer finds the promise set,
  then the loop ends. Nothing polls the table, so the job stays queued until another is enqueued or a
  process starts.
- **Starting a process fails other processes' backup jobs** (`backup_cluster`;
  `repositories/backup-job.repository.ts:176`). Each worker of the cluster marks every running job as
  "interrupted by a server restart before completion", also one that a live process is running; the
  job is later overwritten as completed.
- **A retried import may be carried out twice** (`import_duplicate`; `routes/imports-idempotency.ts:171`).
  The connection's `close` event releases the reservation while the import's handler still runs; the
  retry reserves the key again, and both insert their rows. `docs/SYSTEM_ANALYSIS.md:76` says that the
  table "prevents duplicate mutations from network retries".

## 7. The proofs

All safety properties of the runs are proved, invariants, action properties and the refinement; the run shows each on a
small instance, the theorem for every value of the constants.

Assumptions are those named in the modules (`RollupAssumption`, `QueueAssumption`, `BackupAssumption`,
`IdempotencyAssumption`, `SettlementAssumption`, `SessionAssumption`, `GateAssumption` with `CircuitAssumption` and
`AiAssumption`, `ImportAssumption`, `ClusterAssumption`): types of the constants, that the "nothing" values are distinct
from real ones, and that there is a slice, a cycle, a file, and a worker to end a session. Finite sets are required where
an argument counts: the sessions of a database (a connection pool is finite), the records and cycles of the settlement, the
requests of one key, of the gate and of the breaker, the workers of a cluster. Every theorem has the form `Spec => []P`,
`Spec => [][A]_vars` or `Spec => Abstract!Spec`, from an inductive invariant: `Init => IInv`, each action preserves it, and
`IInv` implies the property.

**`CollectionRollupProofs`** - `TypeCorrect`, `DailyCorrect`, `MonthlyCorrect`, `PurgeCorrect`,
`LocksNeverCycle`, `OperationsAreAtomic`.
`DailyExact` alone is not inductive: whether a commit preserves it depends on what the transaction
computed earlier. `IInv` adds `LockDiscipline` (a key lock comes with the shared rebuild lock; none
is held during a rebuild), `OneWriter` (no two uncommitted writes of one ledger row) and, per
transaction, `Ownership` (rows it works on are locked by it or inserted by it), `Buffers` and `Holding`
(which buffers and locks exist at which statement), `Covered` (a slice touched by its ledger writes is
refreshed or still to refresh) and `Current`: what it computed equals what it would compute now. A
commit can disturb another session's `Current` only for a slice whose key both hold, and
`LockDiscipline` says there is none.
`NoLockCycle` speaks of groups of sessions. `Queued` says of each session what it holds: its record locks are below the
next one it wants, and so are its key locks; who holds the rebuild lock shared has its record locks and is at its keys or
beyond, who holds it exclusively waits for nothing more. So a session that is waited for and waits itself waits for a
later lock (`WaitsAhead`), where later means by kind of lock, then by number. In a group in which everybody waits for a
member, the one with the fewest members later than itself waits for one with fewer still.
The refinement needs of each session that it is `Faithful`: what it drafted is what it was asked to write. `BeginAsks` maps a
first statement to `Ask`, `StatementHidden` the others to stutters, `CommitEffect` a commit to `Perform`: `Ownership` says
that the rows are still as the operation found them, `TotalsExact` that the totals follow.

**`RollupQueueProofs`** - `QueueTypeCorrect`, `NoRequestLost`, `ReportsAreCurrent`,
`QueueImplementsFreshness`. `NoLostRequest` would allow a row whose claimant is about to complete with
an old total. `StaleInv` excludes it: a stale slice has a row that will be claimed again (`Renewed`), or
one whose claimant is about to store the present ledger (`Refreshing`); the same is said of stale values
about to be stored by a worker or the rebuild. `LockInv`, `ClaimInv` and `OrderInv` give the
exclusion, the meaning of a claim and the monotony it rests on. The refinement proof maps each action to
`Change`, `Publish`, `Settle` or a stutter.

**`ProcessProofs`** - the processes that serve jobs and workers: `BackupJobs` and `ClusterMaster`.

*Backup jobs*: `BackupTypeCorrect`, `JobsRunOnce`, `CompletedJobsWorked`, `HistoryKeepsNewest`. A waiting row was
never begun (`BegunInv`), a process that won a claim owns a row that left the waiting states for good
(`OwnerInv`), ownership is exclusive (`SoleInv`), and what `completeJob` is about to record was
committed (`WorkInv`). That a restart marks jobs failed rather than queueing them again is what
keeps `OwnerInv`. `NewestKept` counts the finished jobs that are newer than a pruned one: there are finitely many jobs
in the table at any time (`HistoryInv`, though `Job` may be infinite), a step other than a prune only adds finished jobs
(`GrowthKeepsNewest`), and of the jobs a prune removes, the one with the fewest newer finished jobs keeps
all of these, `MaxRetained` at least (`PruneKeepsNewest`).

*Cluster master*: `MasterTypeCorrect`, `StoppedMasterForksNone`, `MinimumIsKept`, `CapIsKept`. `StopsForGood` is not
inductive: why the exit handler of a stopping master forks nothing depends on what it knows of the worker.
`MessagesFirst` (a worker's message that its port is in use comes before the end of its channel) and `ExitsExpected`
(while it stops gracefully and no exit overtook its channel's end, each forked worker whose exit was not handled is
marked as intended) leave only the restoration of the minimum, and with a minimum of one that needs a list without
workers, which is a matter of cardinality (`NoneLeft`); but if the list is empty after a channel's end, the master is
gone. `NoneCut` says that only a stopping master has workers off its list. `MinimumKept` only speaks of moments at which
every exit is handled. `EnoughLeft` says it of every moment, of the forked workers whose exit was not handled: an exit
takes one, and the handler puts one in its place (`OneForOne`), or counts that enough remain, or the loss is one of
those the model names. `CapLeft` bounds the same workers by the cap, whatever the list says of them: a stopping master
only forks in answer to an exit, one for one, and a master that does not stop has them all on its list.

**`MutationIdempotencyProofs`** - `IdempotencyTypeCorrect`, `RepeatsArePaidFor`, `ReplaysAreTruthful`.
`PaidInv` strengthens `RepeatsPaidFor` to `Cardinality(Spent) + Slots <= 1 + lapses`, where `Spent` holds
the requests that have committed, may still commit, or may still delete the key's row, and `Slots` is one while the
key is free: acquiring moves the slot into `Spent`, a release after a failed handler moves it back, and
only a lapse raises the sum. `PrintInv` (without a lapse the row carries the fingerprint of the one
spent request) gives the second half of `ReplayTruthful`.

**`SessionLifecycleProofs`** - `SessionTypeCorrect`, `AdmissionsPrecedeEnd`, `OpenSocketsAreKnown`,
`SurvivorsSlipped`. `IInv` adds to the types `LateInv` (a request that came after the end is still before its
guard's read, and the end is for good), `EndInv` (sockets are closed only for a session that has ended) and `SlipInv`, which
extends `OnlySlippedSurvive` to handshakes that have still to register: a socket that was read as
accepted on a worker whose sockets were closed had been read before. `NoOrphanSocket` is inductive as it
stands: a registration closes the one socket that could be open on its worker, and each removal is of a socket
that is closed by the same step.

**`AiRequestsProofs`** - `CircuitTypeCorrect`, `PlacesAreProbes`, `SlotsAreAccounted`, `NoSlotIsIdle`. `PlacesMatchProbes`
with the types is inductive for
the breaker alone: a change of state forgets the probes together with their places, and outside a half-open
period there are none whose return could take a place back. `CircuitSteps` shows that each step of the requests
is a step of the breaker or leaves it alone, which carries the result over to `Spec`; `GateSteps` does the same for the
gate. `GateInv` says that the queue holds each waiting request once, that the leases are of requests that were
granted a slot or run, that the counters are those of the leases and within the limits, and that a waiter who could have a
slot is about to be served (`draining`). The step that matters is the drain: `ServedAreWithin` takes the last of the
requests it serves of a role, for whom the code has checked that those before it leave a slot, to show that all of them
fit; `OthersFindNone` shows that who is left in the queue found none.

**`ImportJobsProofs`** - `ImportTypeCorrect`, `HalvesAreTakenBack`, `UploadsAreKept`. For the first two `IInv` says
where a run may be with which outcome (`WorkerOK`), that it is of a queued job, and its second one only after a stall
(`StartedOK`), that the run a job waits for has not begun (`WaitingOK`), that files and requests are those of queued
jobs (`StagedInv`) and that one import at most is active (`SoleImport`). `UploadLostOnlyToTwins` needs more, as long as
nothing excuses a loss: a run has the lock of its job and still finds its file once it has read it (`UnexcusedOK`), and
a file has one pending job (`SolePending`), hence one run (`SoleRun`). And there is a `Safe` file, one that no run is
about to remove. A run is about to remove its file only because it saw an import; unexcused, that import is half
loaded by the run of another file, which is then safe (`ImporterSafe`).

**`SettlementCycleProofs`** - `SettlementTypeCorrect`, `ClassificationIsExact`, `ReceiptCountsOnce`,
`ActivationIsJustified`, `AnchorIsPinned`, `DeadlocksAreKnown`. None of the properties is inductive: a commit publishes
what several earlier statements drafted, and other sessions commit between them. `IInv` follows a session through its
statements (`Local`): which locks it has by now (`LocksHeld`), that the cycles it read are still those of its records
(`KeysRead`), that its drafts are what its operation makes of the rows as they are committed now (`Drafted`), and that
what it computed still holds: classifications (`ClassesExact`), duplicate flags (`CountsOnce`), facts of a settlement
(`FactsHold`). `Apart` keeps sessions from each other and `Committed` is what the committed rows satisfy. The bulk of
the proof is `CommitKeepsOthers`: a commit changes only rows whose cycles its session has locked, before and after
(`CommitSpares`), so that another session's cycles keep their members and their payments (`LockedMembers`,
`LockedView`); a receipt counts only by a session that has the hash lock or by a record that had it already. Sums of
amounts stay uninterpreted: only that equal sets of payments have equal sums is used (`SamePayments`), so the result
does not depend on arithmetic, and `CollectedUpTo` is a `SumFunction` rather than a recursion.

For the deadlocks, `LockInv` adds to `IInv` which locks a session may hold while it waits (`Orderly`): a record or an
anchor comes first, then the cycles in their order; a locked row has its cycle locked, except a new record's and the row
that a manual settlement locks as its anchor. Hence who waits for a row outside that statement waits for a settlement that
is out of order (`RowBlocked`), and every session that is not out of order holds only locks below the next it wants
(`HeldBelow`). In a group in which each waits for another and none is out of order, the next locks would rise without
end; the group is finite, and the same count as for `NoLockCycle` refutes it.

**Only model-checked.** Liveness (`Converges`, `NoZombie`, `EndedSettles`, `CircuitRecovers`): outside the
prover's fragment. The findings are counterexamples and need no proof.

## 8. Not modelled, and limits

- Ledger transactions: source snapshots and version checks of records, the backfill of cycles and receipts
  from before this schema, the source rows locked FOR SHARE, edits of a payment's date within a cycle, records with
  several receipt files, and that a purge or an edit may be rejected by the unique indexes of manual settlements.
  `CollectionRollup` leaves out settlement and receipts with their locks, which `SettlementCycle` has; that
  module in turn only takes the rollup's locks. Reports over several slices: each slice's total is current, but
  a sum may mix two ledger states; no claim about sums is made in the source.
- PostgreSQL is taken to implement READ COMMITTED, advisory locks and unique indexes; a statement is
  atomic. Row locks taken by writes are modelled where a restore's insert waits for another session's
  uncommitted row and in `SettlementCycle`, and otherwise subsumed by the advisory locks held around the
  write; `NoLockCycle` does not include them.
- Time: delays, expiries, cooldowns and polling intervals are nondeterministic. Clock differences between
  processes are covered to the extent that jobs may enter out of `requestedAt` order.
- A backup job whose row was inserted but could not be read back (`ReadBackFails`) is modelled; that its
  client sees an error for a job that may still run is left as it is.
- Sessions: login with its limit on sessions, refresh and revocation of tokens, limits on connections and
  messages (they appear as refusals and closes), broadcasts.
- AI: caches, searches that share one computation, query assembly. Handlers whose client left run without a slot:
  the number of handlers, as against that of leases, is not bounded.
- Imports: the other BullMQ queues, the sweep of orphaned staged files, the loss of the queue's own data, parsing. A job
  that stalls is recovered once, which is BullMQ's default and not changed in `queue/runtime.ts`.
- Cluster: the supervisor's readiness gate, broadcasts of control states, metrics and load prediction (a plan is any
  plan). A master that stops after a fatal error forks replacements meanwhile, so `StopsForGood` speaks of
  graceful stops, up to an exit that overtakes the end of its channel; `WorkerCap` speaks of all. `MinimumKept`
  says nothing of a master that stops.
- The components of 1.3. Most have no state that two actors share: a conditional statement per operation,
  arithmetic over the result of one query, or formatting. They make up most of the repository's
  lines, as do the web client, scripts and tests, which is why the map covers little of it.

## 9. Running

In this directory:

    tlc -workers 2 -config MCCollectionRollup.cfg MCCollectionRollup.tla
    tlapm CollectionRollupProofs.tla

and likewise with the other configurations and `*Proofs` modules. Each run takes about two and a half
minutes or less and each proof module a minute and a half or less.
