---------------------------- MODULE ProcessProofs ----------------------------
(***************************************************************************)
(* Proofs about what outlives a request: the queue of backup jobs that the *)
(* server's processes run, and the master that keeps these processes.      *)
(*                                                                         *)
(* Of the jobs, for any processes, jobs and bounds: their types, that a job*)
(* is run at most once, that a completed job has committed its work, and   *)
(* that the newest are kept.  Of the master, for any workers and bounds:   *)
(* its types, that it keeps its minimum of workers but for the losses that *)
(* the model names and never exceeds its cap, and, with a minimum of one   *)
(* worker as cluster-local.ts has it, that a gracefully stopping master    *)
(* forks none but in answer to an exit that overtook its channel's end.    *)
(***************************************************************************)
EXTENDS BackupJobs, ClusterMaster, FiniteSetTheorems, WellFoundedInduction, TLAPS

(* A process that was given a job by its claim and has not settled it.     *)
Owner(p, j) == pc[p] \in {"operate", "complete", "fail"} /\ cand[p] = j

(* Only a row still in the table's waiting states can be claimed, and such *)
(* a job was never begun and is owned by nobody.                           *)
BegunInv ==
  \A j \in Job :
    /\ begun[j] <= 1
    /\ status[j] \in {"absent", "queued"} => begun[j] = 0
OwnerInv ==
  \A p \in Proc, j \in Job :
    Owner(p, j) => status[j] \notin {"absent", "queued"}
SoleInv ==
  \A p, q \in Proc, j \in Job : Owner(p, j) /\ Owner(q, j) => p = q
(* What completeJob is about to record is true.                            *)
WorkInv == \A p \in Proc : pc[p] = "complete" => cand[p] \in worked

IInv ==
  TypeOK /\ BegunInv /\ OwnerInv /\ SoleInv /\ WorkInv /\ CompletedWorked

-----------------------------------------------------------------------------
LEMMA InitIInv == Init => IInv
BY BackupAssumption
DEF Init, IInv, TypeOK, BegunInv, OwnerInv, SoleInv, WorkInv, CompletedWorked,
    Owner, Status, Steps, Finished

(* Starting, crashing and stopping give no process a job.                  *)
LEMMA LifeKeeps ==
  ASSUME IInv, NEW p \in Proc,
         Boot(p) \/ Start(p) \/ StartByRequest(p) \/ Crash(p)
  PROVE  IInv'
<1> USE BackupAssumption DEF IInv, Owner, Goto, Finished
<1>1. CASE Boot(p)
  BY <1>1 DEF Boot, TypeOK, BegunInv, OwnerInv, SoleInv, WorkInv, CompletedWorked, Status, Steps
<1>2. CASE Crash(p)
  BY <1>2 DEF Crash, Fault, Up, TypeOK, BegunInv, OwnerInv, SoleInv, WorkInv, CompletedWorked, Status, Steps
<1>3. CASE StartByRequest(p)
  <2> USE <1>3 DEF StartByRequest, EnsureStarted, MarkRunningFailed, Started, Steps
  <2>1. TypeOK'
    BY DEF TypeOK, Status
  <2>2. BegunInv' /\ OwnerInv' /\ SoleInv' /\ WorkInv' /\ CompletedWorked'
    BY DEF TypeOK, BegunInv, OwnerInv, SoleInv, WorkInv, CompletedWorked
  <2> QED BY <2>1, <2>2
<1>4. CASE Start(p)
  <2> USE <1>4 DEF Start, EnsureStarted, MarkRunningFailed, Started, Steps
  <2>1. TypeOK'
    BY DEF TypeOK, Status
  <2>2. BegunInv' /\ OwnerInv' /\ SoleInv' /\ WorkInv' /\ CompletedWorked'
    BY DEF TypeOK, BegunInv, OwnerInv, SoleInv, WorkInv, CompletedWorked
  <2> QED BY <2>1, <2>2
<1> QED BY <1>1, <1>2, <1>3, <1>4

(* A new row was absent, so nobody owns its job.                           *)
LEMMA RequestKeeps ==
  ASSUME IInv, NEW p \in Proc, NEW j \in Job,
         Create(p, j) \/ Wake(p, j) \/ ReadBackFails(p, j)
  PROVE  IInv'
<1> USE BackupAssumption DEF IInv, Owner, Goto, Finished
<1>1. CASE Create(p, j)
  BY <1>1 DEF Create, TypeOK, BegunInv, OwnerInv, SoleInv, WorkInv, CompletedWorked, Status, Steps
<1>2. CASE Wake(p, j)
  BY <1>2 DEF Wake, TypeOK, BegunInv, OwnerInv, SoleInv, WorkInv, CompletedWorked, Status, Steps
<1>3. CASE ReadBackFails(p, j)
  BY <1>3 DEF ReadBackFails, Fault, TypeOK, BegunInv, OwnerInv, SoleInv, WorkInv, CompletedWorked, Status, Steps
<1> QED BY <1>1, <1>2, <1>3

(* Claiming: the conditional UPDATE finds only a job nobody owns.          *)
LEMMA ClaimKeeps ==
  ASSUME IInv, NEW p \in Proc,
         Select(p) \/ Claim(p) \/ LoseClaim(p) \/ Rest(p)
  PROVE  IInv'
<1> USE BackupAssumption DEF IInv, Owner, Goto, Finished
<1>1. CASE Select(p)
  BY <1>1 DEF Select, QueuedJobs, TypeOK, BegunInv, OwnerInv, SoleInv, WorkInv, CompletedWorked, Status, Steps
<1>2. CASE Claim(p)
  <2> USE <1>2 DEF Claim, Claimable, Steps
  <2>1. cand[p] \in Job
    BY DEF TypeOK
  <2>2. TypeOK'
    <3>1. pc' \in [Proc -> {"down", "off", "rest"} \cup Steps]
      BY DEF TypeOK
    <3>2. \A q \in Proc : cand'[q] \in Job <=>
            pc'[q] \in {"update", "operate", "complete", "fail", "prune"}
      BY DEF TypeOK
    <3>3. status' \in [Job -> Status] /\ begun' \in [Job -> Nat]
      <4>1. status \in [Job -> Status] /\ begun \in [Job -> Nat]
        BY DEF TypeOK
      <4>2. status' = [status EXCEPT ![cand[p]] = "running"]
        OBVIOUS
      <4>3. begun' = [begun EXCEPT ![cand[p]] = begun[cand[p]] + 1]
        OBVIOUS
      <4>4. status' \in [Job -> Status]
        BY ONLY <2>1, <4>1, <4>2 DEF Status
      <4>5. begun' \in [Job -> Nat]
        BY ONLY <2>1, <4>1, <4>3
      <4> QED BY <4>4, <4>5
    <3>4. tries' \in [Proc -> 0 .. MaxTries - 1]
      BY DEF TypeOK
    <3> QED BY <3>1, <3>2, <3>3, <3>4 DEF TypeOK
  <2>3. BegunInv'
    BY <2>1 DEF TypeOK, BegunInv
  <2>4. OwnerInv'
    BY <2>1 DEF TypeOK, OwnerInv
  <2>5. SoleInv'
    BY <2>1 DEF TypeOK, OwnerInv, SoleInv
  <2>6. WorkInv' /\ CompletedWorked'
    BY <2>1 DEF TypeOK, WorkInv, CompletedWorked
  <2> QED BY <2>2, <2>3, <2>4, <2>5, <2>6
<1>3. CASE LoseClaim(p)
  <2> USE <1>3 DEF LoseClaim, LastTry, Steps
  <2>1. TypeOK'
    BY DEF TypeOK
  <2>2. BegunInv' /\ OwnerInv' /\ SoleInv' /\ WorkInv' /\ CompletedWorked'
    BY DEF TypeOK, BegunInv, OwnerInv, SoleInv, WorkInv, CompletedWorked
  <2> QED BY <2>1, <2>2
<1>4. CASE Rest(p)
  BY <1>4 DEF Rest, TypeOK, BegunInv, OwnerInv, SoleInv, WorkInv, CompletedWorked, Status, Steps
<1> QED BY <1>1, <1>2, <1>3, <1>4

(* Running and settling: the owner records what the operation did.         *)
LEMMA SettleKeeps ==
  ASSUME IInv, NEW p \in Proc,
         \/ \E committed \in BOOLEAN : Operate(p, committed)
         \/ OperateThenThrow(p) \/ CompleteJob(p) \/ CompleteThrows(p)
         \/ FailJob(p) \/ Prune(p)
  PROVE  IInv'
<1> USE BackupAssumption DEF IInv, Owner, Goto, Finished, Steps
<1>0. pc[p] \in {"operate", "complete", "fail", "prune"} => cand[p] \in Job
  BY DEF TypeOK
<1>1. ASSUME NEW committed \in BOOLEAN, Operate(p, committed) PROVE IInv'
  <2> USE <1>0, <1>1 DEF Operate, Response
  <2>1. TypeOK'
    BY DEF TypeOK
  <2>2. BegunInv' /\ OwnerInv' /\ SoleInv' /\ WorkInv' /\ CompletedWorked'
    BY DEF TypeOK, BegunInv, OwnerInv, SoleInv, WorkInv, CompletedWorked
  <2> QED BY <2>1, <2>2
<1>2. CASE OperateThenThrow(p)
  <2> USE <1>0, <1>2 DEF OperateThenThrow, Fault
  <2>1. TypeOK'
    <3>1. pc' \in [Proc -> {"down", "off", "rest"} \cup Steps]
      BY DEF TypeOK
    <3>2. \A q \in Proc : cand'[q] \in Job <=>
            pc'[q] \in {"update", "operate", "complete", "fail", "prune"}
      BY DEF TypeOK
    <3>3. worked' \in SUBSET Job
      BY DEF TypeOK
    <3>4. faults' \in 0 .. MaxFaults
      BY DEF TypeOK
    <3> QED BY <3>1, <3>2, <3>3, <3>4 DEF TypeOK
  <2>2. BegunInv' /\ OwnerInv' /\ SoleInv' /\ WorkInv' /\ CompletedWorked'
    BY DEF TypeOK, BegunInv, OwnerInv, SoleInv, WorkInv, CompletedWorked
  <2> QED BY <2>1, <2>2
<1>3. CASE CompleteJob(p)
  <2> USE <1>0, <1>3 DEF CompleteJob, Settle
  <2>1. TypeOK'
    BY DEF TypeOK, Status
  <2>2. BegunInv' /\ OwnerInv' /\ SoleInv' /\ WorkInv' /\ CompletedWorked'
    BY DEF TypeOK, BegunInv, OwnerInv, SoleInv, WorkInv, CompletedWorked
  <2> QED BY <2>1, <2>2
<1>4. CASE CompleteThrows(p)
  <2> USE <1>0, <1>4 DEF CompleteThrows, Settle, Fault
  <2>1. TypeOK'
    BY DEF TypeOK, Status
  <2>2. BegunInv' /\ OwnerInv' /\ SoleInv' /\ WorkInv' /\ CompletedWorked'
    BY DEF TypeOK, BegunInv, OwnerInv, SoleInv, WorkInv, CompletedWorked
  <2> QED BY <2>1, <2>2
<1>5. CASE FailJob(p)
  <2> USE <1>0, <1>5 DEF FailJob, Settle
  <2>1. TypeOK'
    BY DEF TypeOK, Status
  <2>2. BegunInv' /\ OwnerInv' /\ SoleInv' /\ WorkInv' /\ CompletedWorked'
    BY DEF TypeOK, BegunInv, OwnerInv, SoleInv, WorkInv, CompletedWorked
  <2> QED BY <2>1, <2>2
<1>6. CASE Prune(p)
  <2> USE <1>0, <1>6 DEF Prune
  <2>1. TypeOK'
    BY DEF TypeOK, Status
  <2>2. BegunInv' /\ OwnerInv' /\ SoleInv' /\ WorkInv' /\ CompletedWorked'
    BY DEF TypeOK, BegunInv, OwnerInv, SoleInv, WorkInv, CompletedWorked
  <2> QED BY <2>1, <2>2
<1> QED BY <1>1, <1>2, <1>3, <1>4, <1>5, <1>6
-----------------------------------------------------------------------------
LEMMA StepKeeps == IInv /\ [Next]_vars => IInv'
<1> SUFFICES ASSUME IInv, [Next]_vars PROVE IInv'
  OBVIOUS
<1>1. CASE UNCHANGED vars
  BY <1>1
  DEF vars, IInv, TypeOK, BegunInv, OwnerInv, SoleInv, WorkInv, CompletedWorked, Owner
<1>2. CASE Next
  BY <1>2, LifeKeeps, RequestKeeps, ClaimKeeps, SettleKeeps DEF Next, Step
<1> QED BY <1>1, <1>2

LEMMA AlwaysIInv == Spec => []IInv
BY InitIInv, StepKeeps, PTL DEF Spec

(* The queue is well typed; in particular a loop holds a candidate exactly *)
(* while it claims, runs, settles or prunes one, and a claim never makes   *)
(* more than MaxTries attempts.                                            *)
THEOREM BackupTypeCorrect == Spec => []TypeOK
<1>1. IInv => TypeOK
  BY DEF IInv
<1> QED BY <1>1, AlwaysIInv, PTL

(* No job's operation is ever begun twice, nor run by two processes,       *)
(* however many processes compete, crash and restart.                      *)
THEOREM JobsRunOnce == Spec => []RunsOnce
<1>1. IInv => RunsOnce
  BY DEF IInv, TypeOK, BegunInv, SoleInv, RunsOnce, Owner
<1> QED BY <1>1, AlwaysIInv, PTL

(* A job shown as completed has committed its work.                        *)
THEOREM CompletedJobsWorked == Spec => []CompletedWorked
<1>1. IInv => CompletedWorked
  BY DEF IInv
<1> QED BY <1>1, AlwaysIInv, PTL
-----------------------------------------------------------------------------
(* The history of finished jobs.  Finitely many jobs are in the table, and *)
(* it loses none but by a prune.                                           *)
Known == {j \in Job : status[j] # "absent"}

HistoryInv == TypeOK /\ IsFiniteSet(Known) /\ NewestKept

Newer(j) == {k \in FinishedJobs : k > j}

(* A set of numbers that is not empty has a least one.                     *)
LEMMA LeastNat ==
  ASSUME NEW S \in SUBSET Nat, S # {}
  PROVE  \E n \in S : \A m \in S : n <= m
<1> DEFINE R == OpToRel(<, Nat)
<1>1. IsWellFoundedOn(R, Nat)
  BY NatLessThanWellFounded
<1>2. \A m, n \in Nat : m < n => <<m, n>> \in R
  BY DEF OpToRel
<1> HIDE DEF R
<1>3. \E n \in S : \A m \in S : ~ (<<m, n>> \in R)
  BY <1>1, WFMin
<1>4. PICK n \in S : \A m \in S : ~ (<<m, n>> \in R)
  BY <1>3
<1>5. \A m \in S : ~ (m < n)
  <2> SUFFICES ASSUME NEW m \in S PROVE ~ (m < n)
    OBVIOUS
  <2>1. m \in Nat /\ n \in Nat
    OBVIOUS
  <2> QED BY <2>1, <1>2, <1>4, Zenon
<1> QED BY <1>5

LEMMA NewerFinite ==
  ASSUME IsFiniteSet(Known), NEW j
  PROVE  IsFiniteSet(Newer(j)) /\ Cardinality(Newer(j)) \in Nat
<1>1. Newer(j) \in SUBSET Known
  BY DEF Newer, FinishedJobs, Known, Finished
<1> QED BY <1>1, FS_Subset, FS_CardinalityType

(* What a step does to the table: at most one job is new, and either no job*)
(* leaves the history or the step is a prune.                              *)
Grows ==
  \A j \in Job : /\ status'[j] = "pruned" => status[j] = "pruned"
                 /\ status[j] \in Finished => status'[j] \in Finished
Prunes == status' = [j \in Job |-> IF j \in Removable THEN "pruned" ELSE status[j]]

LEMMA TableStep ==
  ASSUME TypeOK, [Next]_vars
  PROVE  (\E x : Known' \subseteq Known \cup {x}) /\ (Grows \/ Prunes)
<1> USE DEF Known, Grows, Finished
<1>0. status \in [Job -> Status]
  BY DEF TypeOK
<1>1. CASE UNCHANGED status
  BY <1>1
<1>2. CASE MarkRunningFailed
  BY <1>2 DEF MarkRunningFailed
<1>3. ASSUME NEW p \in Proc, NEW j \in Job, Create(p, j)
      PROVE  (\E x : Known' \subseteq Known \cup {x}) /\ Grows
  <2>1. Known' \subseteq Known \cup {j}
    BY <1>0, <1>3 DEF Create
  <2>2. Grows
    BY <1>0, <1>3 DEF Create
  <2> QED BY <2>1, <2>2
<1>4. ASSUME NEW p \in Proc, Claim(p)
      PROVE  (\E x : Known' \subseteq Known \cup {x}) /\ Grows
  BY <1>0, <1>4 DEF Claim, Claimable
<1>5. ASSUME NEW j, NEW st \in Finished, Settle(j, st)
      PROVE  (\E x : Known' \subseteq Known \cup {x}) /\ Grows
  <2>1. Known' \subseteq Known \cup {j}
    BY <1>0, <1>5 DEF Settle
  <2>2. Grows
    BY <1>0, <1>5 DEF Settle
  <2> QED BY <2>1, <2>2
<1>6. ASSUME NEW p \in Proc, Prune(p)
      PROVE  (\E x : Known' \subseteq Known \cup {x}) /\ Prunes
  BY <1>0, <1>6 DEF Prune, Prunes, Removable, FinishedJobs
<1>7. CASE UNCHANGED vars
  BY <1>1, <1>7 DEF vars
<1>8. ASSUME NEW p \in Proc, Boot(p) \/ Start(p) \/ StartByRequest(p) \/ Crash(p)
      PROVE  UNCHANGED status \/ MarkRunningFailed
  BY <1>8 DEF Boot, Start, StartByRequest, Crash, EnsureStarted
<1>9. ASSUME NEW p \in Proc, NEW j \in Job, Wake(p, j) \/ ReadBackFails(p, j)
      PROVE  UNCHANGED status
  BY <1>9 DEF Wake, ReadBackFails
<1>10. ASSUME NEW p \in Proc, Step(p)
       PROVE  \/ UNCHANGED status \/ Claim(p) \/ Prune(p)
              \/ \E st \in Finished : Settle(cand[p], st)
  <2>1. CASE Select(p) \/ LoseClaim(p) \/ Rest(p) \/ (\E committed \in BOOLEAN : Operate(p, committed)) \/ OperateThenThrow(p)
    BY <2>1 DEF Select, LoseClaim, Rest, Operate, OperateThenThrow
  <2>2. CASE CompleteJob(p) \/ CompleteThrows(p) \/ FailJob(p)
    BY <2>2 DEF CompleteJob, CompleteThrows, FailJob
  <2> QED BY <1>10, <2>1, <2>2 DEF Step
<1> QED BY <1>1, <1>2, <1>3, <1>4, <1>5, <1>6, <1>7, <1>8, <1>9, <1>10 DEF Next

(* As long as no finished job leaves, a pruned one keeps its newer ones.   *)
LEMMA GrowthKeepsNewest ==
  ASSUME NewestKept, IsFiniteSet(Known'), Grows
  PROVE  NewestKept'
<1> SUFFICES ASSUME NEW j \in Job, status'[j] = "pruned"
             PROVE  Cardinality(Newer(j)') >= MaxRetained
  BY DEF NewestKept, Newer
<1>1. Newer(j) \in SUBSET Newer(j)'
  BY DEF Newer, FinishedJobs, Grows
<1>2. Newer(j)' \in SUBSET Known'
  BY DEF Newer, FinishedJobs, Known, Finished
<1>3. IsFiniteSet(Newer(j)')
  BY <1>2, FS_Subset
<1>4. /\ Cardinality(Newer(j)) <= Cardinality(Newer(j)')
      /\ Cardinality(Newer(j)) \in Nat /\ Cardinality(Newer(j)') \in Nat
  BY <1>1, <1>3, FS_Subset, FS_CardinalityType
<1>5. Cardinality(Newer(j)) >= MaxRetained
  BY DEF NewestKept, Grows, Newer
<1> QED BY <1>4, <1>5, BackupAssumption

(* A prune removes only jobs older than the newest of those it removes, and*)
(* the jobs newer than that one stay.                                      *)
LEMMA PruneKeepsNewest ==
  ASSUME HistoryInv, IsFiniteSet(Known'), Prunes
  PROVE  NewestKept'
<1> SUFFICES ASSUME NEW j \in Job, status'[j] = "pruned"
             PROVE  Cardinality(Newer(j)') >= MaxRetained
  BY DEF NewestKept, Newer
<1>0. \A k \in Job : Newer(k) = {i \in FinishedJobs : i > k}
  BY DEF Newer
<1>1. Cardinality(Newer(j)) >= MaxRetained
  BY <1>0 DEF HistoryInv, NewestKept, Prunes, Removable
<1>2. FinishedJobs' = FinishedJobs \ Removable
  BY DEF FinishedJobs, Prunes, Removable, Finished
<1>3. IsFiniteSet(Newer(j)') /\ Cardinality(Newer(j)') \in Nat
  <2>1. Newer(j)' \in SUBSET Known'
    BY DEF Newer, FinishedJobs, Known, Finished
  <2> QED BY <2>1, FS_Subset, FS_CardinalityType
<1>4. \A k \in Job : IsFiniteSet(Newer(k)) /\ Cardinality(Newer(k)) \in Nat
  BY NewerFinite DEF HistoryInv
<1>5. CASE Newer(j) \cap Removable = {}
  <2>1. Newer(j) \subseteq Newer(j)'
    BY <1>2, <1>5 DEF Newer
  <2>2. Cardinality(Newer(j)) <= Cardinality(Newer(j)')
    BY <1>3, <2>1, FS_Subset
  <2> QED BY <1>1, <1>3, <1>4, <2>2, BackupAssumption
<1>6. CASE Newer(j) \cap Removable # {}
  <2> DEFINE Counts == {Cardinality(Newer(k)) : k \in Newer(j) \cap Removable}
  <2>1. Counts \in SUBSET Nat /\ Counts # {}
    BY <1>4, <1>6 DEF Newer, FinishedJobs
  <2>2. PICK n \in Counts : \A c \in Counts : n <= c
    BY <2>1, LeastNat
  <2>3. PICK m \in Newer(j) \cap Removable : n = Cardinality(Newer(m))
    BY <2>2
  <2>4. m \in Job /\ m \in Nat /\ j \in Nat /\ m > j
    BY BackupAssumption DEF Newer, FinishedJobs
  <2>5. ASSUME NEW k \in Newer(m), k \in Removable
        PROVE  FALSE
    <3>1. k \in Job /\ k \in Nat /\ k > m
      BY BackupAssumption DEF Newer, FinishedJobs
    <3>2. k \in Newer(j) /\ k > j
      BY <2>4, <3>1 DEF Newer
    <3>3. Newer(k) \in SUBSET Newer(m) /\ k \notin Newer(k)
      <4>1. \A i \in FinishedJobs : i \in Nat
        BY BackupAssumption DEF FinishedJobs
      <4>2. \A i \in FinishedJobs : i > k => i > m
        BY <2>4, <3>1, <4>1
      <4>3. Newer(k) \in SUBSET Newer(m)
        BY <4>2 DEF Newer
      <4>4. ~ (k > k)
        BY <3>1
      <4> QED BY <4>3, <4>4 DEF Newer
    <3>4. Cardinality(Newer(k)) # Cardinality(Newer(m)) /\ Cardinality(Newer(k)) <= Cardinality(Newer(m))
      BY <1>4, <2>4, <3>3, FS_Subset
    <3>5. Cardinality(Newer(m)) <= Cardinality(Newer(k))
      BY <2>2, <2>3, <2>5, <3>2
    <3> QED BY <1>4, <2>4, <3>1, <3>4, <3>5
  <2>6. Newer(m) \subseteq Newer(j)'
    <3>1. Newer(m) \subseteq FinishedJobs'
      BY <1>2, <2>5 DEF Newer
    <3>2. \A k \in Newer(m) : k > j
      BY <2>4, BackupAssumption DEF Newer, FinishedJobs
    <3> QED BY <3>1, <3>2 DEF Newer
  <2>7. Cardinality(Newer(m)) <= Cardinality(Newer(j)')
    BY <1>3, <2>6, FS_Subset
  <2>8. Cardinality(Newer(m)) >= MaxRetained
    BY <1>0, <2>3, <2>4 DEF Removable
  <2> QED BY <1>3, <1>4, <2>4, <2>7, <2>8, BackupAssumption
<1> QED BY <1>5, <1>6

LEMMA InitHistory == Init => HistoryInv
<1> SUFFICES ASSUME Init PROVE HistoryInv
  OBVIOUS
<1>1. TypeOK
  BY InitIInv DEF IInv
<1>2. Known = {}
  BY DEF Init, Known
<1>3. NewestKept
  BY DEF Init, NewestKept
<1> QED BY <1>1, <1>2, <1>3, FS_EmptySet DEF HistoryInv

LEMMA HistoryStep == HistoryInv /\ TypeOK' /\ [Next]_vars => HistoryInv'
<1> SUFFICES ASSUME HistoryInv, TypeOK', [Next]_vars PROVE HistoryInv'
  OBVIOUS
<1>1. (\E x : Known' \subseteq Known \cup {x}) /\ (Grows \/ Prunes)
  BY TableStep DEF HistoryInv
<1>2. PICK x : Known' \in SUBSET (Known \cup {x})
  BY <1>1
<1>3. IsFiniteSet(Known \cup {x})
  BY FS_AddElement DEF HistoryInv
<1>4. IsFiniteSet(Known')
  BY <1>2, <1>3, FS_Subset
<1>5. NewestKept'
  BY <1>1, <1>4, GrowthKeepsNewest, PruneKeepsNewest DEF HistoryInv
<1> QED BY <1>4, <1>5 DEF HistoryInv

(* A prune never takes one of the newest MaxRetained finished jobs, however*)
(* many processes prune and settle jobs out of order.                      *)
THEOREM HistoryKeepsNewest == Spec => []NewestKept
<1>1. HistoryInv => NewestKept
  BY DEF HistoryInv
<1> QED BY <1>1, BackupTypeCorrect, InitHistory, HistoryStep, PTL DEF Spec
-----------------------------------------------------------------------------
(* A worker's messages arrive before the end of its channel.               *)
MessagesFirst == closed \cap told = {}

(* The list is cut short by a stopping master only.                        *)
NoneCut == ~graceful /\ ~failing => cut = {}

(* A gracefully stopping master expects the exits that are still to come,  *)
(* as it adds no worker while no exit overtakes the end of its channel.    *)
ExitsExpected ==
  MinWorkers = 1 /\ graceful /\ ~failing /\ ~overtaken => Forked \ exited \subseteq intentional

MasterInv == MasterTypeOK /\ MessagesFirst /\ NoneCut /\ ExitsExpected

(* What StopsForGood asks of a step.                                       *)
StaysStopped == graceful /\ ~failing' /\ ~overtaken' => Running' \subseteq Running

Typed == proc \in [Worker -> {"none", "up", "dead"}]
-----------------------------------------------------------------------------
(* What is known after the workers of S are forgotten and new are forked.  *)
LEMMA PoolForked ==
  ASSUME Typed, NEW S \in SUBSET Worker, NEW new \in SUBSET Spare, Pool(S, new)
  PROVE  /\ proc' \in [Worker -> {"none", "up", "dead"}]
         /\ Forked' = (Forked \ S) \cup new
         /\ Running' \subseteq Running \cup new
         /\ closed' = closed \ S
         /\ cut' = cut \ S
BY DEF Typed, Pool, Forked, Spare, Running

(* With a minimum of one, capacity is short only when no worker is left.   *)
LEMMA NoneLeft ==
  ASSUME MinWorkers = 1, NEW left \in SUBSET Worker, BelowMinimum(left)
  PROVE  left = {}
<1>1. IsFiniteSet(left)
  BY ClusterAssumption, FS_Subset
<1>2. Cardinality(left) \in Nat /\ Cardinality(left) < 1
  BY <1>1, FS_CardinalityType DEF BelowMinimum
<1>3. Cardinality(left) = 0
  BY <1>2
<1> QED BY <1>1, <1>3, FS_EmptySet

LEMMA InitMaster == MasterInit => MasterInv
<1> SUFFICES ASSUME MasterInit PROVE MasterInv
  OBVIOUS
<1>1. PICK S \in SUBSET Worker :
        /\ proc = [w \in Worker |-> IF w \in S THEN "up" ELSE "none"]
        /\ excused = (Cardinality(S) < MinWorkers)
  BY DEF MasterInit
<1>2. excused \in BOOLEAN
  BY <1>1
<1>3. proc \in [Worker -> {"none", "up", "dead"}] /\ crashes \in 0..MaxAttempts + 1
  BY <1>1, ClusterAssumption DEF MasterInit
<1>4. MasterTypeOK
  BY <1>2, <1>3 DEF MasterInit, MasterTypeOK
<1> QED BY <1>4 DEF MasterInit, MasterInv, MessagesFirst, NoneCut, ExitsExpected

(* The flag excused stays a flag.                                          *)
LEMMA LostIsFlag ==
  ASSUME NEW why, Lost(why)
  PROVE  excused' \in BOOLEAN
BY DEF Lost

(* The steps of the workers and of the clock, the messages and the ends of *)
(* channels.                                                               *)
LEMMA WorkerKeeps ==
  ASSUME MasterInv, NEW w \in Worker, End(w) \/ Report(w) \/ Receive(w) \/ Close(w)
  PROVE  MasterInv' /\ Running' \subseteq Running
<1> USE DEF MasterInv, MasterTypeOK, MessagesFirst, NoneCut, ExitsExpected, Forked, Listed, Running, events, marks, limits, ending
<1>1. CASE End(w)
  BY <1>1 DEF End
<1>2. CASE Report(w)
  BY <1>2 DEF Report
<1>3. CASE Receive(w)
  BY <1>3 DEF Receive
<1>4. CASE Close(w)
  <2>1. CASE w \in exited
    BY <1>4, <2>1 DEF Close, Pool
  <2>2. CASE w \notin exited
    BY <1>4, <2>2 DEF Close
  <2> QED BY <2>1, <2>2
<1> QED BY <1>1, <1>2, <1>3, <1>4

LEMMA TimeKeeps ==
  ASSUME MasterInv, TimePasses
  PROVE  MasterInv' /\ Running' \subseteq Running
<1> USE DEF MasterInv, MasterTypeOK, MessagesFirst, NoneCut, ExitsExpected, Forked, Listed, Running, events, marks, limits, ending
<1>1. crashes' \in 0..MaxAttempts + 1
  BY ClusterAssumption DEF TimePasses
<1> QED BY <1>1 DEF TimePasses

(* A shutdown, and the draining that a worker asks for, fork nothing.      *)
LEMMA ShutdownKeeps ==
  ASSUME MasterInv, MemoryPressure \/ ShutdownGracefully \/ ShutdownFatally \/ ForceExit
  PROVE  MasterInv' /\ Running' \subseteq Running
<1> USE DEF MasterInv, MasterTypeOK, MessagesFirst, NoneCut, ExitsExpected, Forked, Listed, Running, events, marks, limits, ending
<1>1. CASE MemoryPressure
  BY <1>1 DEF MemoryPressure, Drain
<1>2. CASE ShutdownGracefully
  BY <1>2 DEF ShutdownGracefully, Disconnect
<1>3. CASE ShutdownFatally
  BY <1>3 DEF ShutdownFatally, Disconnect
<1>4. CASE ForceExit
  BY <1>4 DEF ForceExit
<1> QED BY <1>1, <1>2, <1>3, <1>4

(* A scaling round may fork, which a stopping master does not begin.       *)
LEMMA ScaleKeeps ==
  ASSUME MasterInv, EvaluateScale
  PROVE  MasterInv' /\ ~graceful
<1>0. Typed
  BY DEF MasterInv, MasterTypeOK, Typed
<1>1. PICK new \in {{}} \cup {{n} : n \in Spare} :
        Pool({}, new) /\ (Drain(Listed \cup new) \/ UNCHANGED marks)
  BY DEF EvaluateScale
<1>2. new \in SUBSET Spare
  BY <1>1
<1>3. /\ proc' \in [Worker -> {"none", "up", "dead"}]
      /\ Forked' = (Forked \ {}) \cup new
      /\ closed' = closed \ {} /\ cut' = cut \ {}
  BY <1>0, <1>1, <1>2, PoolForked
<1> USE DEF MasterInv, MasterTypeOK, MessagesFirst, NoneCut, ExitsExpected, marks, limits
<1>4. /\ draining' \subseteq Forked' /\ intentional' \subseteq Forked'
      /\ rolling' \in BOOLEAN
  BY <1>1, <1>3 DEF Drain, Listed
<1>5. excused' \in BOOLEAN
  BY LostIsFlag DEF EvaluateScale
<1>6. MasterTypeOK'
  BY <1>3, <1>4, <1>5 DEF EvaluateScale
<1> QED BY <1>3, <1>6 DEF EvaluateScale

(* What the three kinds of exits write besides the pool.                   *)
LEMMA ExitWrites ==
  ASSUME MasterInv, NEW w \in Worker, NEW S \in SUBSET {w}, NEW new \in SUBSET Spare,
         \/ PortTaken(S, new)
         \/ w \in intentional /\ Expected(w, S, new)
         \/ w \notin intentional /\ Unexpected(w, S, new)
  PROVE  /\ crashes' \in 0..MaxAttempts + 1 /\ excused' \in BOOLEAN
         /\ throttled' \in BOOLEAN /\ blocked' \in BOOLEAN
         /\ intentional \ {w} \subseteq intentional' /\ intentional' \subseteq intentional \ S
<1>1. crashes \in 0..MaxAttempts + 1 /\ throttled \in BOOLEAN /\ blocked \in BOOLEAN
  BY DEF MasterInv, MasterTypeOK
<1>2. excused' \in BOOLEAN
  BY DEF PortTaken, Expected, Unexpected, Lost
<1>3. CASE PortTaken(S, new)
  BY <1>1, <1>2, <1>3 DEF PortTaken
<1>4. CASE w \in intentional /\ Expected(w, S, new)
  BY <1>1, <1>2, <1>4 DEF Expected
<1>5. CASE w \notin intentional /\ Unexpected(w, S, new)
  <2>1. crashes' \in 0..MaxAttempts + 1
    BY <1>1, <1>5, ClusterAssumption DEF Unexpected, CrashLoop
  <2>2. throttled' \in BOOLEAN /\ blocked' \in BOOLEAN
    BY <1>1, <1>5 DEF Unexpected
  <2>3. intentional' = intentional
    BY <1>5 DEF Unexpected
  <2> QED BY <1>2, <1>5, <2>1, <2>2, <2>3
<1> QED BY <1>3, <1>4, <1>5

(* An exit is handled: while the master stops gracefully it is expected,   *)
(* and a worker is forked for it only if the list is empty, when the master*)
(* is gone too, if the channel ended first.                                *)
LEMMA ExitKeeps ==
  ASSUME MasterInv, NEW w \in Worker, Exit(w)
  PROVE  MasterInv' /\ (MinWorkers = 1 => StaysStopped)
<1>0. Typed
  BY DEF MasterInv, MasterTypeOK, Typed
<1>1. PICK S \in {closed \cap {w}}, new \in {{}} \cup {{n} : n \in Spare} :
       /\ Pool(S, new)
       /\ exited' = (exited \cup {w}) \ S
       /\ draining' = draining \ {w}
       /\ portTaken' = portTaken \ {w}
       /\ gone' = (S # {} /\ Listed \ S = {} /\ (graceful \/ failing))
       /\ overtaken' = (overtaken \/ (graceful /\ S = {}))
       /\ IF w \in portTaken THEN PortTaken(S, new)
          ELSE /\ gone' => new = {}
               /\ IF w \in intentional THEN Expected(w, S, new) ELSE Unexpected(w, S, new)
               /\ UNCHANGED <<locked, failing, rolling>>
       /\ UNCHANGED <<told, graceful>>
  BY DEF Exit
<1>2. new \in SUBSET Spare /\ S \in SUBSET {w} /\ S \in SUBSET Worker /\ S \subseteq closed
  BY <1>1
<1>3. /\ proc' \in [Worker -> {"none", "up", "dead"}]
      /\ Forked' = (Forked \ S) \cup new
      /\ Running' \subseteq Running \cup new
      /\ closed' = closed \ S
      /\ cut' = cut \ S
  BY <1>0, <1>1, <1>2, PoolForked
<1>4. /\ crashes' \in 0..MaxAttempts + 1 /\ excused' \in BOOLEAN
      /\ throttled' \in BOOLEAN /\ blocked' \in BOOLEAN
      /\ intentional \ {w} \subseteq intentional' /\ intentional' \subseteq intentional \ S
  BY <1>1, <1>2, ExitWrites
<1>5. w \in Forked /\ w \notin exited
  BY DEF Exit, Forked
<1>6. locked' \in BOOLEAN /\ failing' \in BOOLEAN /\ rolling' \in BOOLEAN /\ gone' \in BOOLEAN
      /\ overtaken' \in BOOLEAN /\ (~failing' => ~failing) /\ (~overtaken' => ~overtaken)
  BY <1>1 DEF MasterInv, MasterTypeOK, PortTaken
<1>7. MasterTypeOK'
  BY <1>1, <1>2, <1>3, <1>4, <1>5, <1>6 DEF MasterInv, MasterTypeOK, MessagesFirst
<1>8. ASSUME MinWorkers = 1, graceful, ~failing', ~overtaken', new # {}
      PROVE  FALSE
  <2>1. w \in intentional /\ S # {}
    BY <1>1, <1>5, <1>6, <1>8 DEF MasterInv, ExitsExpected
  <2>2. gone' = (Listed \ S = {}) /\ ~gone' /\ Expected(w, S, new)
    BY <1>1, <1>8, <2>1 DEF PortTaken
  <2>3. BelowMinimum(Listed \ S)
    BY <1>8, <2>2 DEF Expected
  <2>4. Listed \ S # {}
    BY <2>2
  <2>5. Listed \ S \in SUBSET Worker
    BY DEF Listed, Forked
  <2> QED BY <1>8, <2>3, <2>4, <2>5, NoneLeft
<1>9. ExitsExpected'
  <2>1. ASSUME MinWorkers = 1, graceful', ~failing', ~overtaken'
        PROVE  Forked' \ exited' \subseteq intentional'
    <3>1. graceful /\ new = {} /\ Forked \ exited \subseteq intentional
      BY <1>1, <1>6, <1>8, <2>1 DEF MasterInv, ExitsExpected
    <3> QED BY <1>1, <1>2, <1>3, <1>4, <3>1
  <2> QED BY <2>1 DEF ExitsExpected
<1>10. StaysStopped \/ MinWorkers # 1
  BY <1>3, <1>8 DEF StaysStopped
<1>11. NoneCut'
  BY <1>1, <1>3, <1>6 DEF MasterInv, NoneCut
<1>12. MessagesFirst'
  BY <1>1, <1>3 DEF MasterInv, MessagesFirst
<1> QED BY <1>7, <1>9, <1>10, <1>11, <1>12 DEF MasterInv
-----------------------------------------------------------------------------
LEMMA MasterStepKeeps ==
  ASSUME MasterInv, [MasterNext]_masterVars
  PROVE  MasterInv' /\ (MinWorkers = 1 => StaysStopped)
<1>1. CASE UNCHANGED masterVars
  <2> USE <1>1 DEF masterVars, events, marks, limits, ending, MasterInv, Forked
  <2>1. MasterTypeOK'
    BY DEF MasterTypeOK
  <2>2. MessagesFirst' /\ NoneCut' /\ ExitsExpected'
    BY DEF MessagesFirst, NoneCut, ExitsExpected
  <2>3. StaysStopped
    BY DEF StaysStopped, Running
  <2> QED BY <2>1, <2>2, <2>3
<1>2. ASSUME NEW w \in Worker, End(w) \/ Report(w) \/ Receive(w) \/ Close(w)
      PROVE  MasterInv' /\ Running' \subseteq Running
  BY <1>2, WorkerKeeps
<1>3. ASSUME NEW w \in Worker, Exit(w)
      PROVE  MasterInv' /\ (MinWorkers = 1 => StaysStopped)
  BY <1>3, ExitKeeps
<1> QED BY <1>1, <1>2, <1>3, TimeKeeps, ShutdownKeeps, ScaleKeeps DEF MasterNext, StaysStopped

LEMMA MasterInvariant == MasterSpec => []MasterInv
<1> QED BY InitMaster, MasterStepKeeps, PTL DEF MasterSpec

(* Every reachable state of the master is well typed.                      *)
THEOREM MasterTypeCorrect == MasterSpec => []MasterTypeOK
<1>1. MasterInv => MasterTypeOK
  BY DEF MasterInv
<1> QED BY <1>1, MasterInvariant, PTL

(* With a minimum of one worker, a gracefully stopping master forks none   *)
(* until it handles an exit before the end of the worker's channel.        *)
THEOREM StoppedMasterForksNone ==
  ASSUME MinWorkers = 1
  PROVE  MasterSpec => StopsForGood
<1>1. MasterInv /\ [MasterNext]_masterVars =>
        [graceful /\ ~failing' /\ ~overtaken' => Running' \subseteq Running]_masterVars
  BY MasterStepKeeps DEF StaysStopped
<1> QED BY <1>1, MasterInvariant, PTL DEF MasterSpec, StopsForGood
-----------------------------------------------------------------------------
(* The workers that the master has not handled the exit of.  While it does *)
(* not stop they are enough, or a loss excuses it: what MinimumKept says   *)
(* of the moments at which all exits are handled, for every moment.        *)
Left == Forked \ exited

ExitedDead == \A w \in exited : proc[w] = "dead"
EnoughLeft == ~graceful /\ ~failing => Cardinality(Left) >= MinWorkers \/ excused

CapLeft    == Cardinality(Left) <= MaxWorkers

CapacityInv == MasterTypeOK /\ NoneCut /\ ExitedDead /\ EnoughLeft /\ CapLeft

LEMMA LeftFinite ==
  /\ IsFiniteSet(Left) /\ Cardinality(Left) \in Nat
  /\ IsFiniteSet(Running) /\ Cardinality(Running) \in Nat
BY ClusterAssumption, FS_Subset, FS_CardinalityType DEF Left, Forked, Running

LEMMA RunningLeft ==
  ASSUME ExitedDead
  PROVE  Running \in SUBSET Left
BY DEF ExitedDead, Running, Left, Forked

(* A step that leaves the workers and the excuse alone, and stops no stop. *)
LEMMA SameLeft ==
  ASSUME EnoughLeft, CapLeft, Left' = Left, excused' = excused,
         graceful => graceful', failing => failing'
  PROVE  EnoughLeft' /\ CapLeft'
BY DEF EnoughLeft, CapLeft

(* A step that takes stock keeps enough workers if it does so without a    *)
(* new reason for a loss.                                                  *)
LEMMA StockKeeps ==
  ASSUME ExitedDead', NEW why \in BOOLEAN, Lost(why), excused \in BOOLEAN,
         ~graceful' /\ ~failing' /\ excused = FALSE /\ why = FALSE => Cardinality(Left') >= MinWorkers
  PROVE  EnoughLeft'
<1>1. CASE excused = FALSE /\ why = FALSE
  BY <1>1 DEF EnoughLeft
<1>2. CASE ~(excused = FALSE /\ why = FALSE)
  <2>1. excused' \/ ~(Cardinality(Running') < MinWorkers)
    BY <1>2 DEF Lost
  <2>2. Running' \in SUBSET Left'
    BY DEF ExitedDead, Running, Left, Forked
  <2>3. /\ IsFiniteSet(Left') /\ Cardinality(Left') \in Nat
        /\ IsFiniteSet(Running') /\ Cardinality(Running') \in Nat
    BY ClusterAssumption, FS_Subset, FS_CardinalityType DEF Left, Forked, Running
  <2>4. Cardinality(Running') <= Cardinality(Left')
    BY <2>2, <2>3, FS_Subset
  <2>5. excused' \/ Cardinality(Left') >= MinWorkers
    BY <2>1, <2>3, <2>4, ClusterAssumption
  <2> QED BY <2>5 DEF EnoughLeft
<1> QED BY <1>1, <1>2

(* One worker takes the place of another.                                  *)
LEMMA OneForOne ==
  ASSUME NEW w \in Left, NEW n, n \notin Left, Left' = (Left \ {w}) \cup {n}
  PROVE  Cardinality(Left') = Cardinality(Left)
<1>1. IsFiniteSet(Left \ {w}) /\ Cardinality(Left \ {w}) = Cardinality(Left) - 1
  BY LeftFinite, FS_RemoveElement
<1>2. Cardinality((Left \ {w}) \cup {n}) = Cardinality(Left \ {w}) + 1
  BY <1>1, FS_AddElement
<1> QED BY <1>1, <1>2, LeftFinite

LEMMA WorkerKeepsCapacity ==
  ASSUME CapacityInv, NEW w \in Worker, End(w) \/ Report(w) \/ Receive(w) \/ Close(w)
  PROVE  ExitedDead' /\ EnoughLeft' /\ CapLeft'
<1> USE DEF CapacityInv, MasterTypeOK, ExitedDead, Left, Forked, events, marks, limits, ending
<1>1. CASE End(w)
  <2>1. Left' = Left /\ ExitedDead'
    BY <1>1 DEF End
  <2> QED BY <1>1, <2>1, SameLeft DEF End
<1>2. CASE Report(w)
  BY <1>2, SameLeft DEF Report
<1>3. CASE Receive(w)
  BY <1>3, SameLeft DEF Receive
<1>4. CASE Close(w) /\ w \in exited
  <2>1. Left' = Left /\ ExitedDead'
    BY <1>4 DEF Close, Pool
  <2> QED BY <1>4, <2>1, SameLeft DEF Close
<1>5. CASE Close(w) /\ w \notin exited
  <2>1. Left' = Left /\ ExitedDead'
    BY <1>5 DEF Close
  <2> QED BY <1>5, <2>1, SameLeft DEF Close
<1> QED BY <1>1, <1>2, <1>3, <1>4, <1>5

LEMMA OthersKeepCapacity ==
  ASSUME CapacityInv,
         TimePasses \/ MemoryPressure \/ ShutdownGracefully \/ ShutdownFatally \/ ForceExit
  PROVE  ExitedDead' /\ EnoughLeft' /\ CapLeft'
<1>1. UNCHANGED <<proc, exited, excused>> /\ (graceful => graceful') /\ (failing => failing')
  BY DEF TimePasses, MemoryPressure, ShutdownGracefully, ShutdownFatally, ForceExit,
         events, limits, ending
<1>2. Left' = Left /\ ExitedDead'
  BY <1>1 DEF CapacityInv, ExitedDead, Left, Forked
<1> QED BY <1>1, <1>2, SameLeft DEF CapacityInv

LEMMA ScaleKeepsCapacity ==
  ASSUME CapacityInv, EvaluateScale
  PROVE  ExitedDead' /\ EnoughLeft' /\ CapLeft'
<1>0. Typed /\ excused \in BOOLEAN
  BY DEF CapacityInv, MasterTypeOK, Typed
<1>1. PICK new \in {{}} \cup {{n} : n \in Spare} :
        Pool({}, new) /\ (new # {} => Cardinality(Listed) < MaxWorkers)
  BY DEF EvaluateScale
<1>2. new \in SUBSET Spare
  BY <1>1
<1>3. Forked' = Forked \cup new
  <2>1. Forked' = (Forked \ {}) \cup new
    BY <1>0, <1>1, <1>2, PoolForked
  <2> QED BY <2>1
<1>4. exited' = exited /\ Lost(FALSE) /\ UNCHANGED <<graceful, failing>>
  BY DEF EvaluateScale
<1>5. ExitedDead'
  BY <1>1, <1>2, <1>4 DEF CapacityInv, MasterTypeOK, ExitedDead, Pool, Spare, Forked
<1>6. Left \in SUBSET Left'
  BY <1>3, <1>4 DEF Left
<1>7. IsFiniteSet(Left') /\ Cardinality(Left') \in Nat
  BY ClusterAssumption, FS_Subset, FS_CardinalityType DEF Left, Forked
<1>8. Cardinality(Left) <= Cardinality(Left')
  BY <1>6, <1>7, FS_Subset
<1>9. ~graceful' /\ ~failing' /\ excused = FALSE => Cardinality(Left') >= MinWorkers
  BY <1>4, <1>7, <1>8, LeftFinite, ClusterAssumption DEF CapacityInv, EnoughLeft
<1>10. CapLeft'
  <2>1. CASE new = {}
    BY <1>3, <1>4, <2>1 DEF CapacityInv, CapLeft, Left
  <2>2. CASE new # {}
    <3>1. PICK n \in Spare : new = {n}
      BY <1>1, <2>2
    <3>2. Listed = Forked /\ Left \in SUBSET Forked /\ n \notin Left
      BY <1>4 DEF CapacityInv, NoneCut, EvaluateScale, Listed, Left, Spare
    <3>3. IsFiniteSet(Forked) /\ Cardinality(Forked) \in Nat
      BY ClusterAssumption, FS_Subset, FS_CardinalityType DEF Forked
    <3>4. Cardinality(Left) <= Cardinality(Forked) /\ Cardinality(Forked) < MaxWorkers
      BY <1>1, <2>2, <3>2, <3>3, FS_Subset
    <3>5. Left' \in SUBSET (Left \cup {n})
      BY <1>3, <1>4, <3>1 DEF Left
    <3>6. IsFiniteSet(Left \cup {n}) /\ Cardinality(Left \cup {n}) = Cardinality(Left) + 1
      BY <3>2, LeftFinite, FS_AddElement
    <3>7. Cardinality(Left') <= Cardinality(Left) + 1
      BY <3>5, <3>6, FS_Subset
    <3> QED BY <1>7, <3>3, <3>4, <3>7, LeftFinite, ClusterAssumption DEF CapLeft
  <2> QED BY <2>1, <2>2
<1> QED BY <1>0, <1>4, <1>5, <1>9, <1>10, StockKeeps

(* An exit is made good by a new worker, or named as a loss, or leaves the *)
(* minimum of workers.                                                     *)
LEMMA ExitKeepsCapacity ==
  ASSUME CapacityInv, NEW w \in Worker, Exit(w)
  PROVE  ExitedDead' /\ EnoughLeft' /\ CapLeft'
<1>0. Typed /\ excused \in BOOLEAN /\ blocked \in BOOLEAN /\ locked \in BOOLEAN
      /\ exited \subseteq Forked
  BY DEF CapacityInv, MasterTypeOK, Typed
<1>1. PICK S \in {closed \cap {w}}, new \in {{}} \cup {{n} : n \in Spare} :
       /\ Pool(S, new)
       /\ exited' = (exited \cup {w}) \ S
       /\ PortTaken(S, new) \/ Expected(w, S, new) \/ Unexpected(w, S, new)
       /\ PortTaken(S, new) \/ UNCHANGED failing
       /\ UNCHANGED graceful
  BY DEF Exit
<1>2. new \in SUBSET Spare /\ S \in SUBSET {w} /\ S \in SUBSET Worker
  BY <1>1
<1>3. Forked' = (Forked \ S) \cup new
  BY <1>0, <1>1, <1>2, PoolForked
<1>4. proc[w] = "dead" /\ w \in Left
  BY DEF Exit, Left, Forked
<1>5. ExitedDead'
  BY <1>0, <1>1, <1>2, <1>4 DEF CapacityInv, ExitedDead, Pool, Spare, Forked
<1>6. Left' = (Left \ {w}) \cup new
  <2>1. new \cap exited = {} /\ w \notin exited /\ w \notin new
    BY <1>0, <1>2, <1>4 DEF Spare, Left
  <2>2. S = {} \/ S = {w}
    BY <1>1
  <2>3. CASE S = {}
    BY <1>1, <1>3, <2>1, <2>3 DEF Left
  <2>4. CASE S = {w}
    BY <1>1, <1>3, <2>1, <2>4 DEF Left
  <2> QED BY <2>2, <2>3, <2>4
<1>7. ASSUME new # {}
      PROVE  Cardinality(Left') = Cardinality(Left)
  <2>1. PICK n \in Spare : new = {n}
    BY <1>1, <1>7
  <2>2. n \notin Left
    BY DEF Spare, Left
  <2> QED BY <1>4, <1>6, <2>1, <2>2, OneForOne
<1>11. CapLeft'
  <2>1. CASE new = {}
    <3>1. Left' \in SUBSET Left
      BY <1>6, <2>1
    <3>2. IsFiniteSet(Left') /\ Cardinality(Left') \in Nat
      BY ClusterAssumption, FS_Subset, FS_CardinalityType DEF Left, Forked
    <3>3. Cardinality(Left') <= Cardinality(Left)
      BY <3>1, LeftFinite, FS_Subset
    <3> QED BY <3>2, <3>3, LeftFinite, ClusterAssumption DEF CapacityInv, CapLeft
  <2>2. CASE new # {}
    BY <1>7, <2>2 DEF CapacityInv, CapLeft
  <2> QED BY <2>1, <2>2
<1>8. CASE PortTaken(S, new)
  BY <1>0, <1>5, <1>8, <1>11, StockKeeps DEF PortTaken
<1>9. CASE Unexpected(w, S, new) /\ UNCHANGED failing
  <2>1. ~graceful' /\ ~failing' /\ excused = FALSE /\ (new = {}) = FALSE => Cardinality(Left') >= MinWorkers
    BY <1>1, <1>7, <1>9 DEF CapacityInv, EnoughLeft
  <2>2. Lost(new = {}) /\ (new = {}) \in BOOLEAN
    BY <1>9 DEF Unexpected
  <2> QED BY <1>0, <1>5, <1>11, <2>1, <2>2, StockKeeps
<1>10. CASE Expected(w, S, new) /\ UNCHANGED failing
  <2> DEFINE why == \/ blocked \/ locked \/ (exited \cup {w}) \ S # {}
                    \/ (BelowMinimum(Listed \ S) /\ new = {})
  <2>1. Lost(why) /\ why \in BOOLEAN
    BY <1>10, <1>0 DEF Expected
  <2>2. ASSUME ~graceful', ~failing', excused = FALSE, why = FALSE
        PROVE  Cardinality(Left') >= MinWorkers
    <3>1. CASE new # {}
      BY <1>1, <1>7, <1>10, <2>2, <3>1 DEF CapacityInv, EnoughLeft
    <3>2. CASE new = {}
      <4>1. ~BelowMinimum(Listed \ S) /\ blocked = FALSE /\ locked = FALSE
        BY <1>0, <2>2, <3>2
      <4>2. ~(Cardinality(Listed \ S) < MinWorkers)
        BY <4>1 DEF BelowMinimum
      <4>3. Left' = Listed \ S
        <5>1. Listed = Forked
          BY <1>1, <1>10, <2>2 DEF CapacityInv, NoneCut, Listed
        <5> QED BY <1>1, <1>3, <2>2, <3>2, <5>1 DEF Left
      <4>4. Cardinality(Left') \in Nat
        BY ClusterAssumption, FS_Subset, FS_CardinalityType DEF Left, Forked
      <4> QED BY <4>2, <4>3, <4>4, ClusterAssumption
    <3> QED BY <3>1, <3>2
  <2> HIDE DEF why
  <2> QED BY <1>0, <1>5, <1>11, <2>1, <2>2, StockKeeps
<1> QED BY <1>1, <1>8, <1>9, <1>10

LEMMA InitCapacity == MasterInit => CapacityInv
<1> SUFFICES ASSUME MasterInit PROVE CapacityInv
  OBVIOUS
<1>1. MasterTypeOK /\ NoneCut
  BY InitMaster DEF MasterInv
<1>2. PICK S \in SUBSET Worker :
        /\ Cardinality(S) <= InitialWorkers
        /\ proc = [w \in Worker |-> IF w \in S THEN "up" ELSE "none"]
        /\ excused = (Cardinality(S) < MinWorkers)
  BY DEF MasterInit
<1>3. Left = S
  BY <1>2 DEF MasterInit, Left, Forked
<1>4. EnoughLeft
  <2>1. excused \/ ~(Cardinality(S) < MinWorkers)
    BY <1>2, Zenon
  <2> QED BY <1>3, <2>1, LeftFinite, ClusterAssumption DEF EnoughLeft
<1>5. CapLeft
  BY <1>2, <1>3, LeftFinite, ClusterAssumption DEF CapLeft
<1> QED BY <1>1, <1>4, <1>5 DEF CapacityInv, ExitedDead, MasterInit

LEMMA CapacityStep ==
  ASSUME CapacityInv, MasterTypeOK', NoneCut', [MasterNext]_masterVars
  PROVE  CapacityInv'
<1>1. CASE UNCHANGED masterVars
  BY <1>1 DEF masterVars, events, ending, CapacityInv, ExitedDead, EnoughLeft, CapLeft, Left, Forked
<1>2. ASSUME NEW w \in Worker, End(w) \/ Report(w) \/ Receive(w) \/ Close(w)
      PROVE  CapacityInv'
  BY <1>2, WorkerKeepsCapacity DEF CapacityInv
<1>3. ASSUME NEW w \in Worker, Exit(w)
      PROVE  CapacityInv'
  BY <1>3, ExitKeepsCapacity DEF CapacityInv
<1> QED BY <1>1, <1>2, <1>3, OthersKeepCapacity, ScaleKeepsCapacity DEF CapacityInv, MasterNext

LEMMA CapacityInvariant == MasterSpec => []CapacityInv
<1>1. MasterInv => MasterTypeOK /\ NoneCut
  BY DEF MasterInv
<1> QED BY <1>1, MasterInvariant, InitCapacity, CapacityStep, PTL DEF MasterSpec

(* When every exit is handled the master has at least its minimum of       *)
(* workers, but for the losses the model names, for any workers and bounds.*)
THEOREM MinimumIsKept == MasterSpec => []MinimumKept
<1>1. CapacityInv => MinimumKept
  <2> SUFFICES ASSUME CapacityInv, ~graceful, ~failing,
                      {w \in Worker : proc[w] = "dead"} \subseteq exited
               PROVE  Cardinality(Running) >= MinWorkers \/ excused
    BY DEF MinimumKept
  <2>1. Left = Running
    BY DEF CapacityInv, MasterTypeOK, ExitedDead, Left, Forked, Running
  <2> QED BY <2>1 DEF CapacityInv, EnoughLeft
<1> QED BY <1>1, CapacityInvariant, PTL

(* There are never more worker processes than the cap, for any workers and *)
(* bounds, although a stopping master takes running workers off its list.  *)
THEOREM CapIsKept == MasterSpec => []WorkerCap
<1>1. CapacityInv => WorkerCap
  <2> SUFFICES ASSUME CapacityInv PROVE WorkerCap
    OBVIOUS
  <2>1. Running \in SUBSET Left
    BY RunningLeft DEF CapacityInv
  <2>2. Cardinality(Running) <= Cardinality(Left)
    BY <2>1, LeftFinite, FS_Subset
  <2> QED BY <2>2, LeftFinite, ClusterAssumption DEF CapacityInv, CapLeft, WorkerCap
<1> QED BY <1>1, CapacityInvariant, PTL
=============================================================================
