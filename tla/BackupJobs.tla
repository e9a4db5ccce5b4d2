----------------------------- MODULE BackupJobs ------------------------------
(***************************************************************************)
(* The backup job queue: the table backup_jobs and, in each server process,*)
(* a BackupJobQueueService whose loop claims queued jobs, runs their       *)
(* operation (create or restore a backup), records the result and prunes   *)
(* the history.                                                            *)
(*                                                                         *)
(* A job is a number: jobs are numbered in the order of their requestedAt, *)
(* which a process stamps before its INSERT, so they may enter the table in*)
(* another order.  What an operation does is one bit, whether its work was *)
(* committed.                                                              *)
(***************************************************************************)
EXTENDS Naturals, FiniteSets

CONSTANTS
  Proc,        \* server processes
  Job,         \* backup jobs
  NoJob,       \* "no job"
  MaxTries,    \* attempts of one claim to win a candidate
  MaxRetained, \* finished jobs that pruning keeps
  MaxFaults    \* bound: failed calls and crashes together

ASSUME BackupAssumption ==
  /\ Job \subseteq Nat
  /\ NoJob \notin Job
  /\ MaxTries \in Nat \ {0}
  /\ MaxRetained \in Nat \ {0}
  /\ MaxFaults \in Nat

VARIABLES
  status,  \* status of each job's row, "absent" before INSERT, "pruned" after DELETE
  pc,      \* where each process's service and its loop are
  starting, \* processes whose call of start has not succeeded yet
  cand,    \* the job each loop selected, then claimed
  tries,   \* candidates the present claim has lost
  waking,  \* jobs each process inserted without having called runQueueLoop yet
  begun,   \* how often each job's operation was begun
  worked,  \* jobs whose operation committed its work
  faults   \* failed calls and crashes so far

vars == <<status, pc, starting, cand, tries, waking, begun, worked, faults>>

Finished == {"completed", "failed"}
Status   == {"absent", "queued", "running", "pruned"} \cup Finished

(* down: no process.  off: not started.  rest: runLoopPromise is null.  The*)
(* others are the steps of a loop; "empty" is a claim whose last SELECT    *)
(* found no row and whose answer has not arrived yet.                      *)
Steps == {"select", "update", "empty", "operate", "complete", "fail", "prune"}

Up(p)      == pc[p] # "down"
Started(p) == pc[p] \in {"rest"} \cup Steps

Init ==
  /\ status = [j \in Job |-> "absent"]
  /\ pc = [p \in Proc |-> "down"]
  /\ starting = {}
  /\ cand = [p \in Proc |-> NoJob]
  /\ tries = [p \in Proc |-> 0]
  /\ waking = [p \in Proc |-> {}]
  /\ begun = [j \in Job |-> 0]
  /\ worked = {}
  /\ faults = 0

Goto(p, l) == pc' = [pc EXCEPT ![p] = l]
Fault      == faults < MaxFaults /\ faults' = faults + 1
-----------------------------------------------------------------------------
(* Starting, stopping, and adding jobs.                                    *)

\* Variant for the checks: interrupted jobs keep their status.
MarkNoneFailed == UNCHANGED status

(* markRunningJobsFailed: every running row, whoever runs it.              *)
MarkRunningFailed ==
  status' = [j \in Job |-> IF status[j] = "running" THEN "failed" ELSE status[j]]

Boot(p) ==
  /\ pc[p] = "down"
  /\ Goto(p, "off")
  /\ starting' = starting \cup {p}
  /\ UNCHANGED <<status, cand, tries, waking, begun, worked, faults>>

(* ensureStarted, called by start, by enqueue and by getJob.               *)
EnsureStarted(p) ==
  \/ pc[p] = "off" /\ MarkRunningFailed
  \/ Started(p) /\ UNCHANGED status

(* start, which runs the loop unless one is running; one that throws leaves*)
(* the service off and is tried again by the health signal's timer.        *)
Start(p) ==
  /\ p \in starting
  /\ EnsureStarted(p)
  /\ Goto(p, IF pc[p] \in {"off", "rest"} THEN "select" ELSE pc[p])
  /\ starting' = starting \ {p}
  /\ UNCHANGED <<cand, tries, waking, begun, worked, faults>>

(* A request (enqueue, getJob) comes before start has succeeded.           *)
StartByRequest(p) ==
  /\ pc[p] = "off"
  /\ EnsureStarted(p)
  /\ Goto(p, "rest")
  /\ UNCHANGED <<starting, cand, tries, waking, begun, worked, faults>>

(* createJob's INSERT.                                                     *)
Create(p, j) ==
  /\ Started(p)
  /\ status[j] = "absent"
  /\ status' = [status EXCEPT ![j] = "queued"]
  /\ waking' = [waking EXCEPT ![p] = @ \cup {j}]
  /\ UNCHANGED <<pc, starting, cand, tries, begun, worked, faults>>

(* The end of enqueue: runQueueLoop starts a loop unless one is running.   *)
Wake(p, j) ==
  /\ j \in waking[p]
  /\ waking' = [waking EXCEPT ![p] = @ \ {j}]
  /\ Goto(p, IF pc[p] = "rest" THEN "select" ELSE pc[p])
  /\ UNCHANGED <<status, starting, cand, tries, begun, worked, faults>>

(* createJob cannot read the inserted row back: enqueue throws.            *)
ReadBackFails(p, j) ==
  /\ Fault
  /\ j \in waking[p]
  /\ waking' = [waking EXCEPT ![p] = @ \ {j}]
  /\ UNCHANGED <<status, pc, starting, cand, tries, begun, worked>>

(* The process ends: a crash, a shutdown, or a rejection of the loop's     *)
(* promise (claim, prune or failJob threw), which nothing handles.         *)
Crash(p) ==
  /\ Fault
  /\ Up(p)
  /\ Goto(p, "down")
  /\ starting' = starting \ {p}
  /\ cand' = [cand EXCEPT ![p] = NoJob]
  /\ tries' = [tries EXCEPT ![p] = 0]
  /\ waking' = [waking EXCEPT ![p] = {}]
  /\ UNCHANGED <<status, begun, worked>>
-----------------------------------------------------------------------------
(* The loop.                                                               *)

QueuedJobs == {j \in Job : status[j] = "queued"}

(* claimNextQueuedJob: the SELECT of one attempt.                          *)
Select(p) ==
  /\ pc[p] = "select"
  /\ \/ /\ QueuedJobs = {}
        /\ Goto(p, "empty")
        /\ cand' = cand
     \/ \E j \in QueuedJobs :
          /\ \A k \in QueuedJobs : j <= k
          /\ Goto(p, "update")
          /\ cand' = [cand EXCEPT ![p] = j]
  /\ UNCHANGED <<status, starting, tries, waking, begun, worked, faults>>

\* Variant for the checks: UPDATE ... WHERE id = candidate only.
ClaimableAny(j) == status[j] # "pruned"
(* UPDATE ... WHERE id = candidate AND status = 'queued' finds a row.      *)
Claimable(j) == status[j] = "queued"

Claim(p) ==
  /\ pc[p] = "update"
  /\ Claimable(cand[p])
  /\ status' = [status EXCEPT ![cand[p]] = "running"]
  /\ begun' = [begun EXCEPT ![cand[p]] = @ + 1]
  /\ tries' = [tries EXCEPT ![p] = 0]
  /\ Goto(p, "operate")
  /\ UNCHANGED <<starting, cand, waking, worked, faults>>

\* Variant for the checks: one attempt too many.
LastTryLate(p) == tries[p] >= MaxTries
LastTry(p) == tries[p] + 1 >= MaxTries

(* Another process won the candidate; the last attempt gives up.           *)
LoseClaim(p) ==
  /\ pc[p] = "update"
  /\ ~Claimable(cand[p])
  /\ cand' = [cand EXCEPT ![p] = NoJob]
  /\ \/ /\ ~LastTry(p)
        /\ tries' = [tries EXCEPT ![p] = @ + 1]
        /\ Goto(p, "select")
     \/ /\ LastTry(p)
        /\ tries' = [tries EXCEPT ![p] = 0]
        /\ Goto(p, "empty")
  /\ UNCHANGED <<status, starting, waking, begun, worked, faults>>

(* The loop breaks and its promise is cleared.                             *)
Rest(p) ==
  /\ pc[p] = "empty"
  /\ Goto(p, "rest")
  /\ tries' = [tries EXCEPT ![p] = 0]
  /\ UNCHANGED <<status, starting, cand, waking, begun, worked, faults>>

\* Variant for the checks: a response is a success whatever its status code.
ResponseAlwaysOk(committed) == "complete"
(* statusCode >= 400 or an exception goes to failJob.                      *)
Response(committed) == IF committed THEN "complete" ELSE "fail"

(* executeJobByType commits its work and answers, or does neither.         *)
Operate(p, committed) ==
  /\ pc[p] = "operate"
  /\ worked' = IF committed THEN worked \cup {cand[p]} ELSE worked
  /\ Goto(p, Response(committed))
  /\ UNCHANGED <<status, starting, cand, tries, waking, begun, faults>>

(* The work is committed and what follows it (the audit log) throws.       *)
OperateThenThrow(p) ==
  /\ Fault
  /\ pc[p] = "operate"
  /\ worked' = worked \cup {cand[p]}
  /\ Goto(p, "fail")
  /\ UNCHANGED <<status, starting, cand, tries, waking, begun>>

(* UPDATE ... WHERE id = job: it does not look at the status.              *)
Settle(j, st) ==
  status' = [status EXCEPT ![j] = IF @ = "pruned" THEN @ ELSE st]

CompleteJob(p) ==
  /\ pc[p] = "complete"
  /\ Settle(cand[p], "completed")
  /\ Goto(p, "prune")
  /\ UNCHANGED <<starting, cand, tries, waking, begun, worked, faults>>

(* completeJob throws, before or after its UPDATE: failJob is called.      *)
CompleteThrows(p) ==
  /\ Fault
  /\ pc[p] = "complete"
  /\ UNCHANGED status \/ Settle(cand[p], "completed")
  /\ Goto(p, "fail")
  /\ UNCHANGED <<starting, cand, tries, waking, begun, worked>>

FailJob(p) ==
  /\ pc[p] = "fail"
  /\ Settle(cand[p], "failed")
  /\ Goto(p, "prune")
  /\ UNCHANGED <<starting, cand, tries, waking, begun, worked, faults>>

(* Finished jobs with at least MaxRetained newer finished jobs.            *)
FinishedJobs == {j \in Job : status[j] \in Finished}

\* Variant for the checks: the history is ordered oldest first.
RemovableOldestKept ==
  {j \in FinishedJobs : Cardinality({k \in FinishedJobs : k < j}) >= MaxRetained}
Removable ==
  {j \in FinishedJobs : Cardinality({k \in FinishedJobs : k > j}) >= MaxRetained}

(* pruneHistory (what its SELECT finds stays removable until its DELETE).  *)
Prune(p) ==
  /\ pc[p] = "prune"
  /\ status' = [j \in Job |-> IF j \in Removable THEN "pruned" ELSE status[j]]
  /\ cand' = [cand EXCEPT ![p] = NoJob]
  /\ Goto(p, "select")
  /\ UNCHANGED <<starting, tries, waking, begun, worked, faults>>
-----------------------------------------------------------------------------
Step(p) ==
  \/ Select(p) \/ Claim(p) \/ LoseClaim(p) \/ Rest(p)
  \/ \E committed \in BOOLEAN : Operate(p, committed)
  \/ OperateThenThrow(p)
  \/ CompleteJob(p) \/ CompleteThrows(p) \/ FailJob(p) \/ Prune(p)

Next ==
  \E p \in Proc :
    \/ Boot(p) \/ Start(p) \/ StartByRequest(p) \/ Crash(p)
    \/ \E j \in Job : Create(p, j) \/ Wake(p, j) \/ ReadBackFails(p, j)
    \/ Step(p)

Spec == Init /\ [][Next]_vars

(* The supervisor restarts processes, the health signal's timer retries    *)
(* start, and calls return.  Operations end (they have time limits).       *)
FairSpec ==
  /\ Spec
  /\ \A p \in Proc :
       /\ WF_vars(Boot(p)) /\ WF_vars(Start(p)) /\ WF_vars(Step(p))
       /\ \A j \in Job : WF_vars(Wake(p, j))
-----------------------------------------------------------------------------
TypeOK ==
  /\ status \in [Job -> Status]
  /\ pc \in [Proc -> {"down", "off", "rest"} \cup Steps]
  /\ starting \in SUBSET Proc
  /\ cand \in [Proc -> Job \cup {NoJob}]
  /\ \A p \in Proc :
       cand[p] \in Job <=>
         pc[p] \in {"update", "operate", "complete", "fail", "prune"}
  /\ tries \in [Proc -> 0 .. MaxTries - 1]
  /\ waking \in [Proc -> SUBSET Job]
  /\ begun \in [Job -> Nat]
  /\ worked \in SUBSET Job
  /\ faults \in 0 .. MaxFaults

(* A job's operation is begun at most once, by one process, whatever       *)
(* processes compete for it, crash and restart: a restore is never run     *)
(* twice.  claimNextQueuedJob's conditional UPDATE and a restart that fails*)
(* interrupted jobs instead of queueing them again are to ensure this.     *)
RunsOnce ==
  /\ \A j \in Job : begun[j] <= 1
  /\ \A p, q \in Proc :
       /\ {pc[p], pc[q]} \subseteq {"operate", "complete", "fail"}
       /\ cand[p] = cand[q]
       => p = q

(* A job shown as completed has committed its work, whatever crashes, lost *)
(* answers and restarts happened.  (The converse is not promised: work may *)
(* be committed and the job be shown as failed.)                           *)
CompletedWorked == \A j \in Job : status[j] = "completed" => j \in worked

(* pruneHistory never takes one of the newest MaxRetained finished jobs,   *)
(* though several processes prune and settle jobs out of order.            *)
NewestKept ==
  \A j \in Job : status[j] = "pruned" =>
    Cardinality({k \in FinishedJobs : k > j}) >= MaxRetained

(* No job is shown as running for ever: its process settles it, or a       *)
(* process that starts later marks it failed.                              *)
NoZombie == \A j \in Job : status[j] = "running" ~> status[j] # "running"

(* Every queued job is eventually run: the queue "completes queued work"   *)
(* (title of the service's first test).                                    *)
QueuedWorkRuns == \A j \in Job : status[j] = "queued" ~> status[j] # "queued"

(* A job marked "interrupted by a server restart before completion" (the   *)
(* message markRunningJobsFailed writes) is not one a process is running.  *)
InterruptedOnly ==
  \A p \in Proc : pc[p] = "operate" => status[cand[p]] = "running"
=============================================================================
