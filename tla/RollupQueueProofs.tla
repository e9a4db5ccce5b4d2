-------------------------- MODULE RollupQueueProofs --------------------------
(* No request of the rollup refresh queue is lost, and the queue           *)
(* implements RollupFreshness, for any number of workers, readers and      *)
(* slices, any key function and any number of faults.                      *)
EXTENDS RollupQueue, TLAPS

(* A key is locked by the one worker between its lock and its commit, and  *)
(* by none while a rebuild runs.                                           *)
LockInv ==
  /\ \A k \in Key : lock[k] # NoWorker =>
       wpc[lock[k]] \in {"read", "commit"} /\ KeyOf[job[lock[k]]] = k
  /\ \A w \in Worker : wpc[w] \in {"read", "commit"} => lock[KeyOf[job[w]]] = w
  /\ mpc # "idle" => \A k \in Key : lock[k] = NoWorker

(* A claimed row is the present job of its claimant, or its claimant died. *)
ClaimInv ==
  \A s \in Slice, w \in Worker :
    row[s] = Running(w) => wpc[w] = "down" \/ (wpc[w] # "idle" /\ job[w] = s)

(* What is about to be stored is newer than what is stored.                *)
OrderInv ==
  /\ \A s \in Slice : roll[s] <= led[s]
  /\ \A w \in Worker : wpc[w] = "commit" =>
       roll[job[w]] <= snap[w] /\ snap[w] <= led[job[w]]
  /\ mpc = "commit" => \A s \in Slice : roll[s] <= msnap[s] /\ msnap[s] <= led[s]

(* The slice's row will be claimed again, or its claimant has yet to lock. *)
Renewed(s) ==
  \/ row[s] \in {Queued, Delayed}
  \/ \E w \in Worker : row[s] = Running(w) /\ wpc[w] \in {"lock", "fail", "down"}

(* The claimant of the slice is about to store the ledger as it is now.    *)
Refreshing(s) ==
  \E w \in Worker :
    /\ row[s] = Running(w)
    /\ wpc[w] = "read" \/ (wpc[w] = "commit" /\ snap[w] = led[s])

(* A stale slice, and a slice for which something stale is about to be     *)
(* stored, will be aggregated again.                                       *)
StaleInv ==
  /\ \A s \in Slice : roll[s] # led[s] => Renewed(s) \/ Refreshing(s)
  /\ \A w \in Worker : wpc[w] = "commit" /\ snap[w] # led[job[w]] => Renewed(job[w])
  /\ mpc = "commit" => \A s \in Slice : msnap[s] # led[s] => Renewed(s)

ReportInv == \A r \in Reader : rpc[r] = "rollup" => rlow[r] <= roll[rslice[r]]

IInv == TypeOK /\ LockInv /\ ClaimInv /\ OrderInv /\ StaleInv /\ ReportInv
-----------------------------------------------------------------------------
(* The four kinds of row differ, and a claimed row names its claimant.     *)
LEMMA RowKinds ==
  /\ Absent # Queued /\ Absent # Delayed /\ Queued # Delayed
  /\ \A w : Running(w) # Absent /\ Running(w) # Queued /\ Running(w) # Delayed
  /\ \A w, v : Running(w) = Running(v) => w = v
BY DEF Absent, Queued, Delayed, Running

(* What the two tests on a row's status mean for a row of the table.       *)
LEMMA RowStatus ==
  ASSUME TypeOK, NEW s \in Slice
  PROVE  /\ HasPending(s) <=> row[s] # Absent
         /\ row[s].st = "running" <=> \E w \in Worker : row[s] = Running(w)
BY DEF TypeOK, HasPending, Absent, Queued, Delayed, Running

(* Requeueing the claimed rows, in terms of the kinds of row.              *)
LEMMA Marked ==
  ASSUME TypeOK, MarkRunningQueued
  PROVE  /\ row' \in [Slice -> {Absent, Queued, Delayed} \cup {Running(w) : w \in Worker}]
         /\ \A s \in Slice :
              row'[s] = IF \E w \in Worker : row[s] = Running(w) THEN Queued ELSE row[s]
<1>1. \A s \in Slice : row[s].st = "running" <=> \E w \in Worker : row[s] = Running(w)
  BY RowStatus
<1>2. row \in [Slice -> {Absent, Queued, Delayed} \cup {Running(w) : w \in Worker}]
  BY DEF TypeOK
<1> QED  BY <1>1, <1>2 DEF MarkRunningQueued

(* A variable out of scope holds some slice.                               *)
LEMMA AnySliceIsSlice == AnySlice \in Slice
BY QueueAssumption DEF AnySlice
-----------------------------------------------------------------------------
(* The initial states satisfy the invariant.                               *)
LEMMA IInvInit ==
  ASSUME Init
  PROVE  IInv
<1>1. TypeOK
  BY QueueAssumption, AnySliceIsSlice DEF Init, TypeOK
<1>2. LockInv /\ ClaimInv /\ OrderInv /\ StaleInv /\ ReportInv
  BY RowKinds, QueueAssumption
  DEF Init, LockInv, ClaimInv, OrderInv, StaleInv, ReportInv
<1> QED  BY <1>1, <1>2 DEF IInv

(* At most one worker is between the lock and the commit of a key, and     *)
(* none is while a rebuild runs.                                           *)
LEMMA Exclusive ==
  ASSUME TypeOK, LockInv,
         NEW w \in Worker, wpc[w] \in {"read", "commit"}
  PROVE  /\ mpc = "idle"
         /\ \A v \in Worker : wpc[v] \in {"read", "commit"}
                            /\ KeyOf[job[v]] = KeyOf[job[w]] => v = w
BY QueueAssumption DEF TypeOK, LockInv

(* A new request makes its slices due; nothing in flight is about them any more.*)
LEMMA EnqueueKeeps ==
  ASSUME IInv, NEW S \in SUBSET Slice, NEW C \in SUBSET S, Enqueue(C, S)
  PROVE  IInv'
<1> USE DEF Enqueue, data, workers, maint, readers, counts
<1>1. TypeOK'  BY RowKinds, QueueAssumption DEF IInv, TypeOK
<1>2. LockInv'  BY RowKinds, QueueAssumption DEF IInv, TypeOK, LockInv
<1>3. ClaimInv'  BY RowKinds, QueueAssumption DEF IInv, TypeOK, ClaimInv
<1>4. OrderInv'  BY RowKinds, QueueAssumption DEF IInv, TypeOK, LockInv, OrderInv
<1>5. StaleInv'  BY RowKinds, QueueAssumption DEF IInv, TypeOK, LockInv, ClaimInv, OrderInv, StaleInv, Renewed, Refreshing
<1>6. ReportInv'  BY RowKinds, QueueAssumption DEF IInv, TypeOK, LockInv, OrderInv, StaleInv, Renewed, Refreshing, ReportInv
<1> QED  BY <1>1, <1>2, <1>3, <1>4, <1>5, <1>6 DEF IInv

(* A delayed row becomes due.                                              *)
LEMMA RetryDueKeeps ==
  ASSUME IInv, NEW s \in Slice, RetryDue(s)
  PROVE  IInv'
<1> USE DEF RetryDue, data, workers, maint, readers, counts
<1>1. TypeOK'  BY RowKinds, QueueAssumption DEF IInv, TypeOK
<1>2. LockInv'  BY RowKinds, QueueAssumption DEF IInv, TypeOK, LockInv
<1>3. ClaimInv'  BY RowKinds, QueueAssumption DEF IInv, TypeOK, ClaimInv
<1>4. OrderInv'  BY RowKinds, QueueAssumption DEF IInv, TypeOK, LockInv, OrderInv
<1>5. StaleInv'  BY RowKinds, QueueAssumption DEF IInv, TypeOK, LockInv, ClaimInv, OrderInv, StaleInv, Renewed, Refreshing
<1>6. ReportInv'  BY RowKinds, QueueAssumption DEF IInv, TypeOK, LockInv, OrderInv, StaleInv, Renewed, Refreshing, ReportInv
<1> QED  BY <1>1, <1>2, <1>3, <1>4, <1>5, <1>6 DEF IInv

(* A claim turns a due row into one that is about to be refreshed.         *)
LEMMA ClaimKeeps ==
  ASSUME IInv, NEW w \in Worker, NEW s \in Slice, Claim(w, s)
  PROVE  IInv'
<1> USE DEF Claim, data, workers, maint, readers, counts
<1>1. TypeOK'  BY RowKinds, QueueAssumption DEF IInv, TypeOK
<1>2. LockInv'  BY RowKinds, QueueAssumption DEF IInv, TypeOK, LockInv
<1>3. ClaimInv'  BY RowKinds, QueueAssumption DEF IInv, TypeOK, ClaimInv
<1>4. OrderInv'  BY RowKinds, QueueAssumption DEF IInv, TypeOK, LockInv, OrderInv
<1>5. StaleInv'  BY RowKinds, QueueAssumption DEF IInv, TypeOK, LockInv, ClaimInv, OrderInv, StaleInv, Renewed, Refreshing
<1>6. ReportInv'  BY RowKinds, QueueAssumption DEF IInv, TypeOK, LockInv, OrderInv, StaleInv, Renewed, Refreshing, ReportInv
<1> QED  BY <1>1, <1>2, <1>3, <1>4, <1>5, <1>6 DEF IInv

(* Locking a key: nobody else is between reading and storing its slices.   *)
LEMMA RefreshLockKeeps ==
  ASSUME IInv, NEW w \in Worker, RefreshLock(w)
  PROVE  IInv'
<1> USE DEF RefreshLock, data, workers, maint, readers, counts
<1>1. TypeOK'  BY RowKinds, QueueAssumption DEF IInv, TypeOK
<1>2. LockInv'  BY RowKinds, QueueAssumption DEF IInv, TypeOK, LockInv
<1>3. ClaimInv'  BY RowKinds, QueueAssumption DEF IInv, TypeOK, ClaimInv
<1>4. OrderInv'  BY RowKinds, QueueAssumption DEF IInv, TypeOK, LockInv, OrderInv
<1>5. StaleInv'  BY RowKinds, QueueAssumption DEF IInv, TypeOK, LockInv, ClaimInv, OrderInv, StaleInv, Renewed, Refreshing
<1>6. ReportInv'  BY RowKinds, QueueAssumption DEF IInv, TypeOK, LockInv, OrderInv, StaleInv, Renewed, Refreshing, ReportInv
<1> QED  BY <1>1, <1>2, <1>3, <1>4, <1>5, <1>6 DEF IInv

(* The aggregate is the ledger as it is now.                               *)
LEMMA RefreshReadKeeps ==
  ASSUME IInv, NEW w \in Worker, RefreshRead(w)
  PROVE  IInv'
<1> USE DEF RefreshRead, data, workers, maint, readers, counts
<1>1. TypeOK'  BY RowKinds, QueueAssumption DEF IInv, TypeOK
<1>2. LockInv'  BY RowKinds, QueueAssumption DEF IInv, TypeOK, LockInv
<1>3. ClaimInv'  BY RowKinds, QueueAssumption DEF IInv, TypeOK, ClaimInv
<1>4. OrderInv'  BY RowKinds, QueueAssumption DEF IInv, TypeOK, LockInv, OrderInv
<1>5. StaleInv'
  <2> DEFINE s == job[w]
  <2>1. wpc[w] = "read" /\ wpc' = [wpc EXCEPT ![w] = "commit"]
        /\ snap' = [snap EXCEPT ![w] = led[s]] /\ mpc = "idle"
        /\ UNCHANGED <<led, roll, row, job, mpc, msnap>>
    BY Exclusive DEF IInv
  <2>2. \A x \in Slice : Renewed(x) => Renewed(x)'
    BY <2>1, RowKinds DEF IInv, TypeOK, Renewed
  <2>3. \A x \in Slice : Refreshing(x) => Refreshing(x)'
    <3> SUFFICES ASSUME NEW x \in Slice, NEW v \in Worker, row[x] = Running(v),
                        wpc[v] = "read" \/ (wpc[v] = "commit" /\ snap[v] = led[x])
                 PROVE  Refreshing(x)'
      BY DEF Refreshing
    <3>1. v = w => job[w] = x
      BY <2>1 DEF IInv, ClaimInv
    <3> QED  BY <2>1, <3>1 DEF IInv, TypeOK, Refreshing
  <2> QED  BY <2>1, <2>2, <2>3 DEF IInv, TypeOK, StaleInv
<1>6. ReportInv'  BY RowKinds, QueueAssumption DEF IInv, TypeOK, LockInv, OrderInv, StaleInv, Renewed, Refreshing, ReportInv
<1> QED  BY <1>1, <1>2, <1>3, <1>4, <1>5, <1>6 DEF IInv

(* What is stored is current, or the slice is renewed.                     *)
LEMMA RefreshCommitKeeps ==
  ASSUME IInv, NEW w \in Worker, RefreshCommit(w)
  PROVE  IInv'
<1> USE DEF RefreshCommit, data, workers, maint, readers, counts, Store, EndTransaction
<1>1. TypeOK'  BY RowKinds, QueueAssumption DEF IInv, TypeOK
<1>2. LockInv'
  <2>1. wpc[w] = "commit" /\ wpc' = [wpc EXCEPT ![w] = "complete"] /\ mpc = "idle"
        /\ lock' = [k \in Key |-> IF lock[k] = w THEN NoWorker ELSE lock[k]]
        /\ UNCHANGED <<job, mpc>>
    BY Exclusive DEF IInv
  <2>2. \A k \in Key : lock'[k] # NoWorker => lock'[k] = lock[k] /\ lock[k] # w
    BY <2>1
  <2>3. \A v \in Worker : wpc'[v] \in {"read", "commit"} => v # w /\ wpc[v] \in {"read", "commit"}
    BY <2>1 DEF IInv, TypeOK
  <2>4. \A v \in Worker : v # w => wpc'[v] = wpc[v]
    BY <2>1 DEF IInv, TypeOK
  <2>5. \A k \in Key : lock[k] # w => lock'[k] = lock[k]
    BY <2>1 DEF IInv, TypeOK
  <2>6. \A k \in Key : lock'[k] # NoWorker =>
          wpc'[lock'[k]] \in {"read", "commit"} /\ KeyOf[job'[lock'[k]]] = k
    BY <2>1, <2>2, <2>4 DEF IInv, TypeOK, LockInv
  <2>7. ASSUME NEW v \in Worker, wpc'[v] \in {"read", "commit"}
        PROVE  lock'[KeyOf[job'[v]]] = v
    <3>1. v # w /\ wpc[v] \in {"read", "commit"} /\ KeyOf[job[v]] \in Key
      BY <2>3, <2>7, QueueAssumption DEF IInv, TypeOK
    <3>2. lock[KeyOf[job[v]]] = v
      BY <3>1 DEF IInv, LockInv
    <3> QED  BY <2>1, <2>5, <3>1, <3>2
  <2> QED  BY <2>1, <2>6, <2>7 DEF LockInv
<1>3. ClaimInv'  BY RowKinds, QueueAssumption DEF IInv, TypeOK, ClaimInv
<1>4. OrderInv'
  <2>1. /\ wpc[w] = "commit" /\ wpc' = [wpc EXCEPT ![w] = "complete"] /\ mpc = "idle"
        /\ roll' = [roll EXCEPT ![job[w]] = snap[w]]
        /\ snap' = [snap EXCEPT ![w] = 0]
        /\ UNCHANGED <<led, job, mpc>>
    BY Exclusive DEF IInv
  <2>2. \A v \in Worker : v # w /\ wpc[v] = "commit" => job[v] # job[w]
    BY <2>1, Exclusive DEF IInv
  <2> QED  BY <2>1, <2>2 DEF IInv, TypeOK, OrderInv
<1>5. StaleInv'
  <2>1. /\ wpc[w] = "commit" /\ wpc' = [wpc EXCEPT ![w] = "complete"] /\ mpc = "idle"
        /\ roll' = [roll EXCEPT ![job[w]] = snap[w]]
        /\ snap' = [snap EXCEPT ![w] = 0]
        /\ UNCHANGED <<led, row, job, mpc>>
    BY Exclusive DEF IInv
  <2>2. \A x \in Slice : Renewed(x) => Renewed(x)'
    BY <2>1, RowKinds DEF IInv, TypeOK, Renewed
  <2>3. \A x \in Slice : x # job[w] /\ Refreshing(x) => Refreshing(x)'
    BY <2>1 DEF IInv, TypeOK, ClaimInv, Refreshing
  <2>4. snap[w] # led[job[w]] => Renewed(job[w])
    BY <2>1 DEF IInv, StaleInv
  <2> QED  BY <2>1, <2>2, <2>3, <2>4 DEF IInv, TypeOK, StaleInv
<1>6. ReportInv'  BY RowKinds, QueueAssumption DEF IInv, TypeOK, LockInv, OrderInv, StaleInv, Renewed, Refreshing, ReportInv
<1> QED  BY <1>1, <1>2, <1>3, <1>4, <1>5, <1>6 DEF IInv

(* A failed refresh keeps its claim until failSlice.                       *)
LEMMA RefreshThrowsKeeps ==
  ASSUME IInv, NEW w \in Worker, RefreshThrows(w)
  PROVE  IInv'
<1> USE DEF RefreshThrows, data, workers, maint, readers, counts, Store, EndTransaction, Fault
<1>1. TypeOK'  BY RowKinds, QueueAssumption DEF IInv, TypeOK
<1>2. LockInv'  BY RowKinds, QueueAssumption DEF IInv, TypeOK, LockInv
<1>3. ClaimInv'  BY RowKinds, QueueAssumption DEF IInv, TypeOK, ClaimInv
<1>4. OrderInv'  BY RowKinds, QueueAssumption DEF IInv, TypeOK, LockInv, OrderInv
<1>5. StaleInv'
  <2>1. /\ wpc[w] \in {"lock", "read", "commit"}
        /\ wpc' = [wpc EXCEPT ![w] = "fail"]
        /\ snap' = [snap EXCEPT ![w] = 0]
        /\ UNCHANGED <<led, row, job, mpc, msnap>>
    OBVIOUS
  <2>2. \A x \in Slice : Renewed(x) => Renewed(x)'
    BY <2>1, RowKinds DEF IInv, TypeOK, Renewed
  <2>3. \A x \in Slice : Refreshing(x) => Refreshing(x)' \/ Renewed(x)'
    BY <2>1 DEF IInv, TypeOK, Renewed, Refreshing
  <2>4. ASSUME NEW x \in Slice, roll'[x] # led[x]
        PROVE  Renewed(x)' \/ Refreshing(x)'
    <3>1. CASE roll'[x] = roll[x]
      BY <2>2, <2>3, <2>4, <3>1 DEF IInv, StaleInv
    <3>2. CASE roll'[x] # roll[x]
      BY <2>2, <2>4, <3>2 DEF IInv, TypeOK, StaleInv
    <3> QED  BY <3>1, <3>2
  <2>5. \A v \in Worker : v # w => wpc'[v] = wpc[v] /\ snap'[v] = snap[v]
    BY <2>1 DEF IInv, TypeOK
  <2> QED  BY <2>1, <2>2, <2>4, <2>5 DEF IInv, TypeOK, StaleInv
<1>6. ReportInv'  BY RowKinds, QueueAssumption DEF IInv, TypeOK, LockInv, OrderInv, StaleInv, Renewed, Refreshing, ReportInv
<1> QED  BY <1>1, <1>2, <1>3, <1>4, <1>5, <1>6 DEF IInv

(* Only a current slice's row is deleted.                                  *)
LEMMA CompleteKeeps ==
  ASSUME IInv, NEW w \in Worker, Complete(w)
  PROVE  IInv'
<1> USE DEF Complete, data, workers, maint, readers, counts, DeleteClaimed
<1>1. TypeOK'  BY RowKinds, QueueAssumption, AnySliceIsSlice DEF IInv, TypeOK
<1>2. LockInv'  BY RowKinds, QueueAssumption DEF IInv, TypeOK, LockInv
<1>3. ClaimInv'  BY RowKinds, QueueAssumption DEF IInv, TypeOK, ClaimInv
<1>4. OrderInv'  BY RowKinds, QueueAssumption DEF IInv, TypeOK, LockInv, OrderInv
<1>5. StaleInv'
  <2>1. /\ wpc[w] = "complete" /\ wpc' = [wpc EXCEPT ![w] = "idle"]
        /\ row' = [row EXCEPT ![job[w]] = IF @ = Running(w) THEN Absent ELSE @]
        /\ job' = [job EXCEPT ![w] = AnySlice]
        /\ UNCHANGED <<led, roll, snap, mpc, msnap>>
    OBVIOUS
  <2>2. row[job[w]] = Running(w) => ~Renewed(job[w]) /\ ~Refreshing(job[w])
    BY <2>1, RowKinds DEF Renewed, Refreshing
  <2>3. ASSUME NEW x \in Slice, Renewed(x)
        PROVE  Renewed(x)'
    <3>1. row'[x] = row[x]
      BY <2>1, <2>2, <2>3 DEF IInv, TypeOK
    <3> QED  BY <2>1, <2>3, <3>1, RowKinds DEF IInv, TypeOK, Renewed
  <2>4. ASSUME NEW x \in Slice, Refreshing(x)
        PROVE  Refreshing(x)'
    <3>1. row'[x] = row[x]
      BY <2>1, <2>2, <2>4 DEF IInv, TypeOK
    <3> QED  BY <2>1, <2>4, <3>1 DEF IInv, TypeOK, Refreshing
  <2>5. \A v \in Worker : wpc'[v] = "commit" => wpc[v] = "commit"
    BY <2>1 DEF IInv, TypeOK
  <2> QED  BY <2>1, <2>3, <2>4, <2>5 DEF IInv, TypeOK, StaleInv
<1>6. ReportInv'  BY RowKinds, QueueAssumption DEF IInv, TypeOK, LockInv, OrderInv, StaleInv, Renewed, Refreshing, ReportInv
<1> QED  BY <1>1, <1>2, <1>3, <1>4, <1>5, <1>6 DEF IInv

(* A completion whose answer is lost.                                      *)
LEMMA CompleteThrowsKeeps ==
  ASSUME IInv, NEW w \in Worker, CompleteThrows(w)
  PROVE  IInv'
<1> USE DEF CompleteThrows, data, workers, maint, readers, counts, DeleteClaimed, Fault
<1>1. TypeOK'  BY RowKinds, QueueAssumption DEF IInv, TypeOK
<1>2. LockInv'  BY RowKinds, QueueAssumption DEF IInv, TypeOK, LockInv
<1>3. ClaimInv'  BY RowKinds, QueueAssumption DEF IInv, TypeOK, ClaimInv
<1>4. OrderInv'  BY RowKinds, QueueAssumption DEF IInv, TypeOK, LockInv, OrderInv
<1>5. StaleInv'  BY RowKinds, QueueAssumption DEF IInv, TypeOK, LockInv, ClaimInv, OrderInv, StaleInv, Renewed, Refreshing
<1>6. ReportInv'  BY RowKinds, QueueAssumption DEF IInv, TypeOK, LockInv, OrderInv, StaleInv, Renewed, Refreshing, ReportInv
<1> QED  BY <1>1, <1>2, <1>3, <1>4, <1>5, <1>6 DEF IInv

(* The row goes back to the queue.                                         *)
LEMMA FailSliceKeeps ==
  ASSUME IInv, NEW w \in Worker, FailSlice(w)
  PROVE  IInv'
<1> USE DEF FailSlice, data, workers, maint, readers, counts
<1>1. TypeOK'  BY RowKinds, QueueAssumption, AnySliceIsSlice DEF IInv, TypeOK
<1>2. LockInv'  BY RowKinds, QueueAssumption DEF IInv, TypeOK, LockInv
<1>3. ClaimInv'  BY RowKinds, QueueAssumption DEF IInv, TypeOK, ClaimInv
<1>4. OrderInv'  BY RowKinds, QueueAssumption DEF IInv, TypeOK, LockInv, OrderInv
<1>5. StaleInv'  BY RowKinds, QueueAssumption DEF IInv, TypeOK, LockInv, ClaimInv, OrderInv, StaleInv, Renewed, Refreshing
<1>6. ReportInv'  BY RowKinds, QueueAssumption DEF IInv, TypeOK, LockInv, OrderInv, StaleInv, Renewed, Refreshing, ReportInv
<1> QED  BY <1>1, <1>2, <1>3, <1>4, <1>5, <1>6 DEF IInv

(* A dead claimant leaves a claimed row behind.                            *)
LEMMA CrashKeeps ==
  ASSUME IInv, NEW w \in Worker, Crash(w)
  PROVE  IInv'
<1> USE DEF Crash, data, workers, maint, readers, counts, EndTransaction, Fault
<1>1. TypeOK'  BY RowKinds, QueueAssumption, AnySliceIsSlice DEF IInv, TypeOK
<1>2. LockInv'  BY RowKinds, QueueAssumption DEF IInv, TypeOK, LockInv
<1>3. ClaimInv'  BY RowKinds, QueueAssumption DEF IInv, TypeOK, ClaimInv
<1>4. OrderInv'  BY RowKinds, QueueAssumption DEF IInv, TypeOK, LockInv, OrderInv
<1>5. StaleInv'  BY RowKinds, QueueAssumption DEF IInv, TypeOK, LockInv, ClaimInv, OrderInv, StaleInv, Renewed, Refreshing
<1>6. ReportInv'  BY RowKinds, QueueAssumption DEF IInv, TypeOK, LockInv, OrderInv, StaleInv, Renewed, Refreshing, ReportInv
<1> QED  BY <1>1, <1>2, <1>3, <1>4, <1>5, <1>6 DEF IInv

(* A starting process makes every claimed row due.                         *)
LEMMA EnsureStartedKeeps ==
  ASSUME IInv, NEW w \in Worker, EnsureStarted(w)
  PROVE  IInv'
<1> USE DEF EnsureStarted, data, workers, maint, readers, counts
<1>1. TypeOK'  BY RowKinds, QueueAssumption, Marked DEF IInv, TypeOK
<1>2. LockInv'  BY RowKinds, QueueAssumption, Marked DEF IInv, TypeOK, LockInv
<1>3. ClaimInv'  BY RowKinds, QueueAssumption, Marked DEF IInv, TypeOK, ClaimInv
<1>4. OrderInv'  BY RowKinds, QueueAssumption, Marked DEF IInv, TypeOK, LockInv, OrderInv
<1>5. StaleInv'  BY RowKinds, QueueAssumption, Marked DEF IInv, TypeOK, LockInv, ClaimInv, OrderInv, StaleInv, Renewed, Refreshing
<1>6. ReportInv'  BY RowKinds, QueueAssumption, Marked DEF IInv, TypeOK, LockInv, OrderInv, StaleInv, Renewed, Refreshing, ReportInv
<1> QED  BY <1>1, <1>2, <1>3, <1>4, <1>5, <1>6 DEF IInv

(* So does the operator's auto-heal.                                       *)
LEMMA AutoHealKeeps ==
  ASSUME IInv, AutoHeal
  PROVE  IInv'
<1> USE DEF AutoHeal, data, workers, maint, readers, counts, Fault
<1>1. TypeOK'  BY RowKinds, QueueAssumption, Marked DEF IInv, TypeOK
<1>2. LockInv'  BY RowKinds, QueueAssumption, Marked DEF IInv, TypeOK, LockInv
<1>3. ClaimInv'  BY RowKinds, QueueAssumption, Marked DEF IInv, TypeOK, ClaimInv
<1>4. OrderInv'  BY RowKinds, QueueAssumption, Marked DEF IInv, TypeOK, LockInv, OrderInv
<1>5. StaleInv'  BY RowKinds, QueueAssumption, Marked DEF IInv, TypeOK, LockInv, ClaimInv, OrderInv, StaleInv, Renewed, Refreshing
<1>6. ReportInv'  BY RowKinds, QueueAssumption, Marked DEF IInv, TypeOK, LockInv, OrderInv, StaleInv, Renewed, Refreshing, ReportInv
<1> QED  BY <1>1, <1>2, <1>3, <1>4, <1>5, <1>6 DEF IInv

(* The operator's retry makes delayed rows due.                            *)
LEMMA RequeueFailuresKeeps ==
  ASSUME IInv, RequeueFailures
  PROVE  IInv'
<1> USE DEF RequeueFailures, data, workers, maint, readers, counts, Fault
<1>1. TypeOK'  BY RowKinds, QueueAssumption DEF IInv, TypeOK
<1>2. LockInv'  BY RowKinds, QueueAssumption DEF IInv, TypeOK, LockInv
<1>3. ClaimInv'  BY RowKinds, QueueAssumption DEF IInv, TypeOK, ClaimInv
<1>4. OrderInv'  BY RowKinds, QueueAssumption DEF IInv, TypeOK, LockInv, OrderInv
<1>5. StaleInv'  BY RowKinds, QueueAssumption DEF IInv, TypeOK, LockInv, ClaimInv, OrderInv, StaleInv, Renewed, Refreshing
<1>6. ReportInv'  BY RowKinds, QueueAssumption DEF IInv, TypeOK, LockInv, OrderInv, StaleInv, Renewed, Refreshing, ReportInv
<1> QED  BY <1>1, <1>2, <1>3, <1>4, <1>5, <1>6 DEF IInv

(* No refresh is between its lock and its commit during a rebuild.         *)
LEMMA RebuildLockKeeps ==
  ASSUME IInv, RebuildLock
  PROVE  IInv'
<1> USE DEF RebuildLock, data, workers, maint, readers, counts, Fault
<1>1. TypeOK'  BY RowKinds, QueueAssumption DEF IInv, TypeOK
<1>2. LockInv'  BY RowKinds, QueueAssumption DEF IInv, TypeOK, LockInv
<1>3. ClaimInv'  BY RowKinds, QueueAssumption DEF IInv, TypeOK, ClaimInv
<1>4. OrderInv'  BY RowKinds, QueueAssumption DEF IInv, TypeOK, LockInv, OrderInv
<1>5. StaleInv'  BY RowKinds, QueueAssumption DEF IInv, TypeOK, LockInv, ClaimInv, OrderInv, StaleInv, Renewed, Refreshing
<1>6. ReportInv'  BY RowKinds, QueueAssumption DEF IInv, TypeOK, LockInv, OrderInv, StaleInv, Renewed, Refreshing, ReportInv
<1> QED  BY <1>1, <1>2, <1>3, <1>4, <1>5, <1>6 DEF IInv

(* The rebuild aggregates the ledger as it is now.                         *)
LEMMA RebuildReadKeeps ==
  ASSUME IInv, RebuildRead
  PROVE  IInv'
<1> USE DEF RebuildRead, data, workers, maint, readers, counts
<1>1. TypeOK'  BY RowKinds, QueueAssumption DEF IInv, TypeOK
<1>2. LockInv'  BY RowKinds, QueueAssumption DEF IInv, TypeOK, LockInv
<1>3. ClaimInv'  BY RowKinds, QueueAssumption DEF IInv, TypeOK, ClaimInv
<1>4. OrderInv'  BY RowKinds, QueueAssumption DEF IInv, TypeOK, LockInv, OrderInv
<1>5. StaleInv'  BY RowKinds, QueueAssumption DEF IInv, TypeOK, LockInv, ClaimInv, OrderInv, StaleInv, Renewed, Refreshing
<1>6. ReportInv'  BY RowKinds, QueueAssumption DEF IInv, TypeOK, LockInv, OrderInv, StaleInv, Renewed, Refreshing, ReportInv
<1> QED  BY <1>1, <1>2, <1>3, <1>4, <1>5, <1>6 DEF IInv

(* What the rebuild stores is current, or the slice is renewed.            *)
LEMMA RebuildEndKeeps ==
  ASSUME IInv, RebuildEnd
  PROVE  IInv'
<1> USE DEF RebuildEnd, data, workers, maint, readers, counts
<1>1. TypeOK'  BY RowKinds, QueueAssumption DEF IInv, TypeOK
<1>2. LockInv'  BY RowKinds, QueueAssumption DEF IInv, TypeOK, LockInv
<1>3. ClaimInv'  BY RowKinds, QueueAssumption DEF IInv, TypeOK, ClaimInv
<1>4. OrderInv'  BY RowKinds, QueueAssumption DEF IInv, TypeOK, LockInv, OrderInv
<1>5. StaleInv'  BY RowKinds, QueueAssumption DEF IInv, TypeOK, LockInv, ClaimInv, OrderInv, StaleInv, Renewed, Refreshing
<1>6. ReportInv'  BY RowKinds, QueueAssumption DEF IInv, TypeOK, LockInv, OrderInv, StaleInv, Renewed, Refreshing, ReportInv
<1> QED  BY <1>1, <1>2, <1>3, <1>4, <1>5, <1>6 DEF IInv

(* A report of a slice with no pending row starts from a current rollup.   *)
LEMMA BeginReportKeeps ==
  ASSUME IInv, NEW r \in Reader, NEW s \in Slice, BeginReport(r, s)
  PROVE  IInv'
<1> USE DEF BeginReport, data, workers, maint, readers, counts, ReportPending
<1>1. TypeOK'  BY RowKinds, QueueAssumption, RowStatus DEF IInv, TypeOK
<1>2. LockInv'  BY RowKinds, QueueAssumption, RowStatus DEF IInv, TypeOK, LockInv
<1>3. ClaimInv'  BY RowKinds, QueueAssumption, RowStatus DEF IInv, TypeOK, ClaimInv
<1>4. OrderInv'  BY RowKinds, QueueAssumption, RowStatus DEF IInv, TypeOK, LockInv, OrderInv
<1>5. StaleInv'  BY RowKinds, QueueAssumption, RowStatus DEF IInv, TypeOK, LockInv, ClaimInv, OrderInv, StaleInv, Renewed, Refreshing
<1>6. ReportInv'  BY RowKinds, QueueAssumption, RowStatus DEF IInv, TypeOK, LockInv, OrderInv, StaleInv, Renewed, Refreshing, ReportInv
<1> QED  BY <1>1, <1>2, <1>3, <1>4, <1>5, <1>6 DEF IInv

(* The end of a report.                                                    *)
LEMMA EndReportKeeps ==
  ASSUME IInv, NEW r \in Reader, EndReport(r)
  PROVE  IInv'
<1> USE DEF EndReport, data, workers, maint, readers, counts
<1>1. TypeOK'  BY RowKinds, QueueAssumption, AnySliceIsSlice DEF IInv, TypeOK
<1>2. LockInv'  BY RowKinds, QueueAssumption DEF IInv, TypeOK, LockInv
<1>3. ClaimInv'  BY RowKinds, QueueAssumption DEF IInv, TypeOK, ClaimInv
<1>4. OrderInv'  BY RowKinds, QueueAssumption DEF IInv, TypeOK, LockInv, OrderInv
<1>5. StaleInv'  BY RowKinds, QueueAssumption DEF IInv, TypeOK, LockInv, ClaimInv, OrderInv, StaleInv, Renewed, Refreshing
<1>6. ReportInv'  BY RowKinds, QueueAssumption DEF IInv, TypeOK, LockInv, OrderInv, StaleInv, Renewed, Refreshing, ReportInv
<1> QED  BY <1>1, <1>2, <1>3, <1>4, <1>5, <1>6 DEF IInv
-----------------------------------------------------------------------------
(* Every step keeps the invariant.                                         *)
LEMMA IInvNext ==
  ASSUME IInv, [Next]_vars
  PROVE  IInv'
<1>1. CASE UNCHANGED vars
  BY <1>1 DEF IInv, TypeOK, LockInv, ClaimInv, OrderInv, StaleInv, ReportInv,
     Renewed, Refreshing, vars, data, workers, maint, readers, counts
<1>2. CASE Next
  <2>1. CASE \E S \in SUBSET Slice : \E C \in SUBSET S : Enqueue(C, S)
    BY <2>1, EnqueueKeeps
  <2>2. CASE \E s \in Slice : RetryDue(s) \/ \E w \in Worker : Claim(w, s)
    BY <2>2, RetryDueKeeps, ClaimKeeps
  <2>3. CASE \E w \in Worker : WorkerStep(w)
    BY <2>3, RefreshLockKeeps, RefreshReadKeeps, RefreshCommitKeeps,
       CompleteKeeps, FailSliceKeeps, EnsureStartedKeeps DEF WorkerStep
  <2>4. CASE \E w \in Worker : RefreshThrows(w) \/ CompleteThrows(w) \/ Crash(w)
    BY <2>4, RefreshThrowsKeeps, CompleteThrowsKeeps, CrashKeeps
  <2>5. CASE AutoHeal \/ RequeueFailures
    BY <2>5, AutoHealKeeps, RequeueFailuresKeeps
  <2>6. CASE RebuildLock \/ RebuildRead \/ RebuildEnd
    BY <2>6, RebuildLockKeeps, RebuildReadKeeps, RebuildEndKeeps
  <2>7. CASE \E r \in Reader : EndReport(r) \/ \E s \in Slice : BeginReport(r, s)
    BY <2>7, EndReportKeeps, BeginReportKeeps
  <2> QED  BY <1>2, <2>1, <2>2, <2>3, <2>4, <2>5, <2>6, <2>7 DEF Next
<1> QED  BY <1>1, <1>2

LEMMA IInvAlways == Spec => []IInv
<1>1. Init => IInv  BY IInvInit
<1>2. IInv /\ [Next]_vars => IInv'  BY IInvNext
<1> QED  BY <1>1, <1>2, PTL DEF Spec

(* Every reachable state of the queue, its workers and its readers is well *)
(* typed, whatever their number.                                           *)
THEOREM QueueTypeCorrect == Spec => []TypeOK
<1>1. IInv => TypeOK  BY DEF IInv
<1> QED  BY <1>1, IInvAlways, PTL

(* A slice whose rollup is behind the ledger is always in the queue,       *)
(* whatever completions, failures, restarts and rebuilds interleave.       *)
THEOREM NoRequestLost == Spec => []NoLostRequest
<1>1. IInv => NoLostRequest
  BY RowKinds, RowStatus DEF IInv, StaleInv, NoLostRequest, Renewed, Refreshing
<1> QED  BY <1>1, IInvAlways, PTL

(* A report read from a rollup is never older than its request.            *)
THEOREM ReportsAreCurrent == Spec => []ReportsCurrent
<1>1. IInv => ReportsCurrent
  BY DEF IInv, TypeOK, OrderInv, ReportInv, ReportsCurrent
<1> QED  BY <1>1, IInvAlways, PTL
-----------------------------------------------------------------------------
Pend == {s \in Slice : HasPending(s)}

(* A step that neither empties nor fills a row leaves pending alone.       *)
LEMMA PendUnchanged ==
  ASSUME TypeOK, TypeOK', \A s \in Slice : row'[s] = Absent <=> row[s] = Absent
  PROVE  Pend' = Pend
<1>1. \A s \in Slice : HasPending(s) <=> row[s] # Absent
  BY RowStatus
<1>2. \A s \in Slice : HasPending(s)' <=> row'[s] # Absent
  <2> SUFFICES ASSUME NEW s \in Slice PROVE HasPending(s)' <=> row'[s] # Absent
    OBVIOUS
  <2> QED  BY DEF TypeOK, HasPending, Absent, Queued, Delayed, Running
<1> QED  BY <1>1, <1>2 DEF Pend

(* Steps that store nothing and delete nothing are invisible.              *)
LEMMA QuietSteps ==
  ASSUME IInv, IInv',
         \/ \E s \in Slice : RetryDue(s) \/ \E w \in Worker : Claim(w, s)
         \/ \E w \in Worker : RefreshLock(w) \/ RefreshRead(w) \/ FailSlice(w)
                             \/ EnsureStarted(w) \/ Crash(w)
         \/ AutoHeal \/ RequeueFailures \/ RebuildLock \/ RebuildRead
         \/ \E r \in Reader : EndReport(r) \/ \E s \in Slice : BeginReport(r, s)
  PROVE  UNCHANGED <<led, roll, Pend>>
<1> TypeOK /\ TypeOK'  BY DEF IInv
<1>1. UNCHANGED <<led, roll>>
  BY DEF RetryDue, Claim, RefreshLock, RefreshRead, FailSlice, EnsureStarted, Crash,
     AutoHeal, RequeueFailures, RebuildLock, RebuildRead, EndReport, BeginReport, data
<1>2. CASE MarkRunningQueued
  BY <1>2, Marked, RowKinds, PendUnchanged, <1>1
<1>3. CASE ~MarkRunningQueued
  <2>1. \A s \in Slice : row'[s] = Absent <=> row[s] = Absent
    BY <1>3, RowKinds
    DEF TypeOK, RetryDue, Claim, RefreshLock, RefreshRead, FailSlice, EnsureStarted, Crash,
        AutoHeal, RequeueFailures, RebuildLock, RebuildRead, EndReport, BeginReport
  <2> QED  BY <2>1, PendUnchanged, <1>1
<1> QED  BY <1>2, <1>3

(* A step that stores an aggregate publishes it.                           *)
LEMMA StoringSteps ==
  ASSUME IInv, IInv',
         RebuildEnd \/ \E w \in Worker : RefreshCommit(w) \/ RefreshThrows(w)
  PROVE  Fresh!Publish
<1> TypeOK /\ TypeOK'  BY DEF IInv
<1>1. UNCHANGED <<led, row>>
  BY DEF RebuildEnd, RefreshCommit, RefreshThrows
<1>2. Pend' = Pend
  BY <1>1, PendUnchanged
<1>3. \A s \in Slice : roll'[s] <= led[s]
  BY <1>1 DEF IInv, OrderInv
<1>4. \A s \in Slice : roll[s] <= roll'[s]
  BY DEF IInv, TypeOK, OrderInv, RebuildEnd, RefreshCommit, RefreshThrows, Store
<1>5. roll' \in [Slice -> Nat]
  BY QueueAssumption DEF TypeOK
<1> QED  BY <1>1, <1>2, <1>3, <1>4, <1>5 DEF Fresh!Publish, Pend

(* Only a current slice stops being pending.                               *)
LEMMA CompletionSteps ==
  ASSUME IInv, IInv', NEW w \in Worker, Complete(w) \/ CompleteThrows(w)
  PROVE  Fresh!Settle(job[w]) \/ UNCHANGED <<led, roll, Pend>>
<1> TypeOK /\ TypeOK'  BY DEF IInv
<1>1. /\ wpc[w] = "complete" /\ UNCHANGED <<led, roll>>
      /\ DeleteClaimed(w) \/ UNCHANGED row
  BY DEF Complete, CompleteThrows, data
<1>2. CASE row' # row
  <2>1. /\ row[job[w]] = Running(w)
        /\ row' = [row EXCEPT ![job[w]] = Absent]
        /\ job[w] \in Slice
    BY <1>1, <1>2 DEF TypeOK, DeleteClaimed
  <2>2. roll[job[w]] = led[job[w]]
    BY <1>1, <2>1, RowKinds DEF IInv, StaleInv, Renewed, Refreshing
  <2>3. \A s \in Slice : HasPending(s) <=> row[s] # Absent
    BY RowStatus
  <2>4. \A s \in Slice : HasPending(s)' <=> (HasPending(s) /\ s # job[w])
    BY <2>1, <2>3 DEF TypeOK, HasPending, Absent
  <2>5. job[w] \in Pend
    BY <2>1, <2>3, RowKinds DEF Pend
  <2>6. Pend' = Pend \ {job[w]}
    BY <2>1, <2>4 DEF Pend
  <2> QED  BY <1>1, <2>2, <2>5, <2>6 DEF Fresh!Settle, Pend
<1>3. CASE row' = row
  BY <1>1, <1>3, PendUnchanged
<1> QED  BY <1>2, <1>3

(* The queue, with its rows as the pending slices, only makes steps that   *)
(* RollupFreshness allows: no row disappears from a stale slice and no     *)
(* published total goes back.                                              *)
THEOREM QueueImplementsFreshness == Spec => ImplementsFreshness
<1>1. Init => Fresh!Init
  <2> SUFFICES ASSUME Init PROVE Fresh!Init
    OBVIOUS
  <2> QED  BY DEF Init, Fresh!Init, HasPending, Absent
<1>2. IInv /\ IInv' /\ [Next]_vars => [Fresh!Next]_<<led, roll, Pend>>
  <2> SUFFICES ASSUME IInv, IInv', [Next]_vars, ~UNCHANGED <<led, roll, Pend>>
               PROVE  Fresh!Next
    OBVIOUS
  <2>1. ASSUME NEW S \in SUBSET Slice, NEW C \in SUBSET S, Enqueue(C, S)
        PROVE  Fresh!Next
    <3>1. \A s \in Slice : HasPending(s)' <=> (HasPending(s) \/ s \in S)
      BY <2>1 DEF IInv, TypeOK, Enqueue, HasPending, Queued
    <3>2. Pend' = Pend \cup S
      BY <3>1 DEF Pend
    <3>3. Fresh!Change(C, S)
      BY <2>1, <3>2 DEF Enqueue, Fresh!Change, Pend
    <3> QED  BY <3>3 DEF Fresh!Next
  <2>2. ASSUME NEW w \in Worker, Complete(w) \/ CompleteThrows(w)
        PROVE  Fresh!Next
    BY <2>2, CompletionSteps DEF Fresh!Next, IInv, TypeOK
  <2>3. CASE RebuildEnd \/ \E w \in Worker : RefreshCommit(w) \/ RefreshThrows(w)
    BY <2>3, StoringSteps DEF Fresh!Next
  <2>4. ~UNCHANGED vars
    BY DEF vars, data, Pend, HasPending
  <2> QED  BY <2>1, <2>2, <2>3, <2>4, QuietSteps DEF Next, WorkerStep
<1> QED  BY <1>1, <1>2, IInvAlways, PTL DEF Spec, ImplementsFreshness, Fresh!Spec, Pend
=============================================================================
