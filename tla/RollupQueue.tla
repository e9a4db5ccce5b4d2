----------------------------- MODULE RollupQueue -----------------------------
(***************************************************************************)
(* The collection rollup refresh queue: a table with at most one row for   *)
(* each slice, the worker loops of the server processes that claim, refresh*)
(* and complete its rows, the operator's maintenance calls, and the report *)
(* readers that use a slice's rollup only when no row is pending for it.   *)
(*                                                                         *)
(* The ledger of a slice is represented by the number of transactions that *)
(* changed it, a rollup by the change it accounts for.  That the refresh   *)
(* of one slice is exact once its key is locked is CollectionRollup's      *)
(* subject; here it is one read and one commit under the lock.             *)
(*                                                                         *)
(* A claim token (updated_at, attempt_count) is unique to one claim, and a *)
(* worker has one job at a time, so a row's token is represented by the    *)
(* worker whose present job it belongs to.                                 *)
(***************************************************************************)
EXTENDS Naturals, FiniteSets

CONSTANTS
  Worker,      \* server processes that run the refresh queue service
  Reader,      \* report requests
  Slice,       \* (payment date, creator login, staff nickname)
  Key,         \* (month, creator login, staff nickname)
  KeyOf,       \* the key a slice belongs to
  NoWorker,    \* "no worker"
  MaxRequests, \* bound: transactions that request a refresh
  MaxFaults    \* bound: failures, crashes and operator calls together

ASSUME QueueAssumption ==
  /\ Slice # {}
  /\ KeyOf \in [Slice -> Key]
  /\ NoWorker \notin Worker
  /\ MaxRequests \in Nat
  /\ MaxFaults \in Nat

VARIABLES
  led,      \* ledger changes of each slice
  roll,     \* the ledger change each slice's rollup accounts for
  row,      \* the queue row of each slice
  lock,     \* advisory lock of each rollup key
  wpc,      \* where each worker's loop is
  job,      \* the slice each worker is refreshing
  snap,     \* the aggregate each worker read
  mpc,      \* where the operator's full rebuild is
  msnap,    \* the aggregates the rebuild read
  rpc,      \* where each report request is
  rslice,   \* the slice it reports
  rlow,     \* the state of the ledger when it began
  requests, \* refresh requests so far
  faults    \* failures, crashes and operator calls so far

data    == <<led, roll>>
workers == <<wpc, job, snap>>
maint   == <<mpc, msnap>>
readers == <<rpc, rslice, rlow>>
counts  == <<requests, faults>>
vars    == <<data, row, lock, workers, maint, readers, counts>>

(* A row is absent, due, waiting for its next attempt, or claimed.         *)
Absent   == [st |-> "absent", by |-> NoWorker]
Queued   == [st |-> "queued", by |-> NoWorker]
Delayed  == [st |-> "delayed", by |-> NoWorker]
Running(w) == [st |-> "running", by |-> w]

HasPending(s) == row[s].st # "absent"

(* The value of a local variable that is out of scope.                     *)
AnySlice == CHOOSE s \in Slice : TRUE

Init ==
  /\ led = [s \in Slice |-> 0]
  /\ roll = [s \in Slice |-> 0]
  /\ row = [s \in Slice |-> Absent]
  /\ lock = [k \in Key |-> NoWorker]
  /\ wpc = [w \in Worker |-> "down"]
  /\ job = [w \in Worker |-> AnySlice]
  /\ snap = [w \in Worker |-> 0]
  /\ mpc = "idle"
  /\ msnap = [s \in Slice |-> 0]
  /\ rpc = [r \in Reader |-> "idle"]
  /\ rslice = [r \in Reader |-> AnySlice]
  /\ rlow = [r \in Reader |-> 0]
  /\ requests = 0
  /\ faults = 0

Fault ==
  /\ faults < MaxFaults
  /\ faults' = faults + 1
  /\ UNCHANGED requests
-----------------------------------------------------------------------------
(* A transaction that changes the slices C of the ledger and enqueues S.   *)
(* Enqueueing replaces whatever row was there by one that is due.          *)
Enqueue(C, S) ==
  /\ requests < MaxRequests
  /\ requests' = requests + 1
  /\ led' = [s \in Slice |-> IF s \in C THEN led[s] + 1 ELSE led[s]]
  /\ row' = [s \in Slice |-> IF s \in S THEN Queued ELSE row[s]]
  /\ UNCHANGED <<roll, lock, workers, maint, readers, faults>>

(* next_attempt_at has passed.                                             *)
RetryDue(s) ==
  /\ row[s] = Delayed
  /\ row' = [row EXCEPT ![s] = Queued]
  /\ UNCHANGED <<data, lock, workers, maint, readers, counts>>

(* claimNextCollectionRecordDailyRollupRefreshSlice                        *)
Claim(w, s) ==
  /\ wpc[w] = "idle"
  /\ row[s] = Queued
  /\ row' = [row EXCEPT ![s] = Running(w)]
  /\ job' = [job EXCEPT ![w] = s]
  /\ wpc' = [wpc EXCEPT ![w] = "lock"]
  /\ UNCHANGED <<data, lock, snap, maint, readers, counts>>

\* Variant for the checks: aggregate-then-upsert without the key lock.
RefreshUnlocked(w) ==
  /\ wpc[w] = "lock"
  /\ wpc' = [wpc EXCEPT ![w] = "read"]
  /\ UNCHANGED <<data, row, lock, job, snap, maint, readers, counts>>

(* refreshSlice: a transaction that locks the slice's key, aggregates the  *)
(* ledger, and stores and commits the rollups.                             *)
RefreshLock(w) ==
  /\ wpc[w] = "lock"
  /\ mpc = "idle"
  /\ lock[KeyOf[job[w]]] = NoWorker
  /\ lock' = [lock EXCEPT ![KeyOf[job[w]]] = w]
  /\ wpc' = [wpc EXCEPT ![w] = "read"]
  /\ UNCHANGED <<data, row, job, snap, maint, readers, counts>>

RefreshRead(w) ==
  /\ wpc[w] = "read"
  /\ snap' = [snap EXCEPT ![w] = led[job[w]]]
  /\ wpc' = [wpc EXCEPT ![w] = "commit"]
  /\ UNCHANGED <<data, row, lock, job, maint, readers, counts>>

EndTransaction(w) ==
  /\ lock' = [k \in Key |-> IF lock[k] = w THEN NoWorker ELSE lock[k]]
  /\ snap' = [snap EXCEPT ![w] = 0]
Store(w) == roll' = [roll EXCEPT ![job[w]] = snap[w]]

RefreshCommit(w) ==
  /\ wpc[w] = "commit"
  /\ Store(w)
  /\ EndTransaction(w)
  /\ wpc' = [wpc EXCEPT ![w] = "complete"]
  /\ UNCHANGED <<led, row, job, maint, readers, counts>>

(* The transaction throws: rolled back, or committed although the client   *)
(* lost the answer.                                                        *)
RefreshThrows(w) ==
  /\ wpc[w] \in {"lock", "read", "commit"}
  /\ Fault
  /\ \/ wpc[w] = "commit" /\ Store(w)
     \/ UNCHANGED roll
  /\ EndTransaction(w)
  /\ wpc' = [wpc EXCEPT ![w] = "fail"]
  /\ UNCHANGED <<led, row, job, maint, readers>>

\* Variant for the checks: completion by slice alone, without the token.
DeleteAny(w) == row' = [row EXCEPT ![job[w]] = Absent]

(* completeSlice deletes the row if it is still this claim's.              *)
DeleteClaimed(w) ==
  row' = [row EXCEPT ![job[w]] = IF @ = Running(w) THEN Absent ELSE @]

Complete(w) ==
  /\ wpc[w] = "complete"
  /\ DeleteClaimed(w)
  /\ wpc' = [wpc EXCEPT ![w] = "idle"]
  /\ job' = [job EXCEPT ![w] = AnySlice]
  /\ UNCHANGED <<data, lock, snap, maint, readers, counts>>

CompleteThrows(w) ==
  /\ wpc[w] = "complete"
  /\ Fault
  /\ DeleteClaimed(w) \/ UNCHANGED row
  /\ wpc' = [wpc EXCEPT ![w] = "fail"]
  /\ UNCHANGED <<data, lock, job, snap, maint, readers>>

(* failSlice puts the row back, to be retried later, if it is still this   *)
(* claim's.                                                                *)
FailSlice(w) ==
  /\ wpc[w] = "fail"
  /\ row' = [row EXCEPT ![job[w]] = IF @ = Running(w) THEN Delayed ELSE @]
  /\ wpc' = [wpc EXCEPT ![w] = "idle"]
  /\ job' = [job EXCEPT ![w] = AnySlice]
  /\ UNCHANGED <<data, lock, snap, maint, readers, counts>>
-----------------------------------------------------------------------------
(* The process ends: a crash, a shutdown in the middle of a job, or the    *)
(* unhandled rejection of a failing claim or failSlice.                    *)
Crash(w) ==
  /\ wpc[w] # "down"
  /\ Fault
  /\ EndTransaction(w)
  /\ wpc' = [wpc EXCEPT ![w] = "down"]
  /\ job' = [job EXCEPT ![w] = AnySlice]
  /\ UNCHANGED <<data, row, maint, readers>>

\* Variant for the checks: a starting process leaves claimed rows alone.
MarkNothing == UNCHANGED row

\* Variant for the checks: a requeued row keeps the identity of its claim.
MarkRunningKeepsClaim ==
  row' = [s \in Slice |-> IF row[s].st = "running"
                          THEN [row[s] EXCEPT !.st = "queued"] ELSE row[s]]

(* markRunning...Queued: every claimed row, whoever claimed it.            *)
MarkRunningQueued ==
  row' = [s \in Slice |-> IF row[s].st = "running" THEN Queued ELSE row[s]]

(* The service's first start in a new process.                             *)
EnsureStarted(w) ==
  /\ wpc[w] = "down"
  /\ MarkRunningQueued
  /\ wpc' = [wpc EXCEPT ![w] = "idle"]
  /\ UNCHANGED <<data, lock, job, snap, maint, readers, counts>>

(* The operator's calls: auto-heal, retry-failures and rebuild.            *)
AutoHeal ==
  /\ Fault
  /\ MarkRunningQueued
  /\ UNCHANGED <<data, lock, workers, maint, readers>>

RequeueFailures ==
  /\ Fault
  /\ row' = [s \in Slice |-> IF row[s] = Delayed THEN Queued ELSE row[s]]
  /\ UNCHANGED <<data, lock, workers, maint, readers>>

(* The rebuild holds the rebuild lock exclusively, refreshes hold it shared.*)
RebuildLock ==
  /\ mpc = "idle"
  /\ \A k \in Key : lock[k] = NoWorker
  /\ Fault
  /\ mpc' = "read"
  /\ UNCHANGED <<data, row, lock, workers, msnap, readers>>

RebuildRead ==
  /\ mpc = "read"
  /\ msnap' = led
  /\ mpc' = "commit"
  /\ UNCHANGED <<data, row, lock, workers, readers, counts>>

(* The rebuild leaves the queue alone: requests made meanwhile survive.    *)
RebuildEnd ==
  /\ mpc = "commit"
  /\ roll' = msnap \/ UNCHANGED roll
  /\ mpc' = "idle"
  /\ msnap' = [s \in Slice |-> 0]
  /\ UNCHANGED <<led, row, lock, workers, readers, counts>>
-----------------------------------------------------------------------------
(* summarizeCollectionRecords: ask for pending rows, then, in a second     *)
(* statement, read the rollup or else aggregate the ledger itself.         *)
\* Variant for the checks: only unclaimed rows count as pending.
ReportUnclaimed(s) == row[s].st \in {"queued", "delayed"}

ReportPending(s) == HasPending(s)

BeginReport(r, s) ==
  /\ rpc[r] = "idle"
  /\ rpc' = [rpc EXCEPT ![r] = IF ReportPending(s) THEN "ledger" ELSE "rollup"]
  /\ rslice' = [rslice EXCEPT ![r] = s]
  /\ rlow' = [rlow EXCEPT ![r] = led[s]]
  /\ UNCHANGED <<data, row, lock, workers, maint, counts>>

EndReport(r) ==
  /\ rpc[r] # "idle"
  /\ rpc' = [rpc EXCEPT ![r] = "idle"]
  /\ rlow' = [rlow EXCEPT ![r] = 0]
  /\ rslice' = [rslice EXCEPT ![r] = AnySlice]
  /\ UNCHANGED <<data, row, lock, workers, maint, counts>>

WorkerStep(w) ==
  \/ RefreshLock(w) \/ RefreshRead(w) \/ RefreshCommit(w)
  \/ Complete(w) \/ FailSlice(w) \/ EnsureStarted(w)

Next ==
  \/ \E S \in SUBSET Slice : \E C \in SUBSET S : Enqueue(C, S)
  \/ \E s \in Slice : RetryDue(s) \/ \E w \in Worker : Claim(w, s)
  \/ \E w \in Worker : WorkerStep(w)
  \/ \E w \in Worker : RefreshThrows(w) \/ CompleteThrows(w) \/ Crash(w)
  \/ AutoHeal \/ RequeueFailures
  \/ RebuildLock \/ RebuildRead \/ RebuildEnd
  \/ \E r \in Reader : EndReport(r) \/ \E s \in Slice : BeginReport(r, s)

Spec == Init /\ [][Next]_vars

(* The loop polls (every two seconds and on NOTIFY), statements end, ended *)
(* processes are restarted, and retry times pass.  A claim takes the due   *)
(* row with the oldest updated_at and gives it a new one, so a row that    *)
(* stays due is passed by only finitely many claims of others.             *)
Fairness ==
  /\ \A w \in Worker : WF_vars(WorkerStep(w))
  /\ \A s \in Slice : WF_vars(RetryDue(s)) /\ SF_vars(\E w \in Worker : Claim(w, s))
  /\ WF_vars(RebuildRead) /\ WF_vars(RebuildEnd)

FairSpec == Spec /\ Fairness
-----------------------------------------------------------------------------
(* Every variable keeps its type, and a total never runs ahead of the      *)
(* ledger it aggregates.                                                   *)
TypeOK ==
  /\ led \in [Slice -> 0..MaxRequests]
  /\ roll \in [Slice -> 0..MaxRequests]
  /\ row \in [Slice -> {Absent, Queued, Delayed} \cup {Running(w) : w \in Worker}]
  /\ lock \in [Key -> Worker \cup {NoWorker}]
  /\ wpc \in [Worker -> {"down", "idle", "lock", "read", "commit", "complete", "fail"}]
  /\ job \in [Worker -> Slice]
  /\ snap \in [Worker -> 0..MaxRequests]
  /\ mpc \in {"idle", "read", "commit"}
  /\ msnap \in [Slice -> 0..MaxRequests]
  /\ rpc \in [Reader -> {"idle", "rollup", "ledger"}]
  /\ rslice \in [Reader -> Slice]
  /\ rlow \in [Reader -> 0..MaxRequests]
  /\ requests \in 0..MaxRequests
  /\ faults \in 0..MaxFaults
  /\ \A s \in Slice : led[s] <= requests

(* A slice whose rollup is behind the ledger always has a row in the       *)
(* queue: no late completion, failure, restart or rebuild swallows the     *)
(* request of a newer change.                                              *)
NoLostRequest == \A s \in Slice : roll[s] # led[s] => HasPending(s)

(* A report that found nothing pending and is about to read the rollup     *)
(* will report a state of the ledger that is no older than the request.    *)
ReportsCurrent ==
  \A r \in Reader : rpc[r] = "rollup" =>
    rlow[r] <= roll[rslice[r]] /\ roll[rslice[r]] <= led[rslice[r]]

(* Every request is eventually served and leaves the queue, whatever the   *)
(* workers, restarts and operators did meanwhile.                          *)
Converges == \A s \in Slice : HasPending(s) ~> ~HasPending(s)

(* The queue implements RollupFreshness: a row leaves the table only while *)
(* the rollup is current, and published totals never go back.              *)
Fresh == INSTANCE RollupFreshness
           WITH pending <- {s \in Slice : HasPending(s)}
ImplementsFreshness == Fresh!Spec
=============================================================================
