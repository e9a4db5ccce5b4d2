----------------------------- MODULE ImportJobs -----------------------------
(***************************************************************************)
(* Imports of large files in the background: an upload is staged as a file *)
(* and a job is queued for it; a worker loads the rows; the user cancels   *)
(* by a marker beside the file, and resumes a job that was cancelled or    *)
(* failed by a new job for the same file.                                  *)
(*                                                                         *)
(* All uploads are of one user and of the same content, so the unique      *)
(* index on active imports and the search for duplicates concern them all. *)
(* A step is one statement, one access to a file or one call of the queue; *)
(* a statement may be answered with an error although it took effect.      *)
(* The queue is BullMQ: a job that does not renew its lock, as its process *)
(* crashed or is only slow, is given to a worker once more, and fails if   *)
(* that happens again.  A slow run goes on, but its end is not accepted.   *)
(***************************************************************************)
EXTENDS Naturals, FiniteSets

CONSTANTS
  File,     \* staged files
  Csv,      \* those that are read row by row
  Job,      \* the jobs that may be queued
  Request,  \* HTTP requests of the user in progress at once
  Workers,  \* processes that run jobs
  MaxRuns   \* bound: jobs that are ever queued and those of them that stall

ASSUME ImportAssumption ==
  /\ File # {}
  /\ IsFiniteSet(Job)
  /\ Csv \subseteq File
  /\ Workers \in Nat \ {0} /\ MaxRuns \in Nat

VARIABLES
  present,  \* the staged files that exist
  marked,   \* the files with a cancellation marker
  job,      \* the jobs, as the queue knows them
  pc,       \* where each run of a job is
  out,      \* how each run will end
  imp,      \* the active import that each run created: "half" or "all" of it
  req,      \* the user's requests that cancel, resume or withdraw
  broken,   \* history: runs that left their import half loaded
  excused   \* history: was the content ever imported to the end, was an
            \* import left half loaded, were two runs to read one file, or was
            \* a file withdrawn of which the job was queued after all?

disk == <<present, marked>>
history == <<broken, excused>>
vars == <<present, marked, job, pc, out, imp, req, broken, excused>>

(* A job is run once, and once more after it stalled.                      *)
Run      == Job \X BOOLEAN
RunOf(j) == <<j, job[j].stalled>>

AnyFile   == CHOOSE f \in File : TRUE
NoRequest == [pc |-> "idle", file |-> AnyFile]

Init ==
  /\ present = {} /\ marked = {}
  /\ job = [j \in Job |-> [st |-> "none", file |-> AnyFile, stalled |-> FALSE]]
  /\ pc = [r \in Run |-> "none"]
  /\ out = [r \in Run |-> "none"]
  /\ imp = [r \in Run |-> "none"]
  /\ req = [q \in Request |-> NoRequest]
  /\ broken = {} /\ excused = FALSE

FileOf(r)   == job[r[1]].file
Pending(f)  == {j \in Job : job[j].st \in {"waiting", "active"} /\ job[j].file = f}
Staged      == {job[j].file : j \in {i \in Job : job[i].st # "none"}}
Imported    == {r \in Run : imp[r] # "none"}
Due         == {r \in Run : job[r[1]].st # "none" /\ (r[2] => job[r[1]].stalled)}
Running     == {r \in Run : pc[r] # "none"}
Current(r)  == job[r[1]].st = "active" /\ RunOf(r[1]) = r   \* it has the lock

At(r, step)        == pc[r] = step
Goto(r, step)      == pc' = [pc EXCEPT ![r] = step] /\ UNCHANGED out
GotoAs(r, step, o) == pc' = [pc EXCEPT ![r] = step] /\ out' = [out EXCEPT ![r] = o]

\* Variant for the checks: the files are removed whatever the outcome.
EndAnyway(r, o) == GotoAs(r, "clean", o)
(* A run will end its job as o: the files stay if it can be resumed.       *)
EndAs(r, o) == GotoAs(r, IF o \in {"completed", "duplicate"} THEN "clean" ELSE "end", o)
-----------------------------------------------------------------------------
(* The queue.                                                              *)
Queue(f) ==
  /\ Cardinality(Due) < MaxRuns
  /\ \E j \in Job :
       /\ job[j].st = "none"
       /\ job' = [job EXCEPT ![j] = [st |-> "waiting", file |-> f, stalled |-> FALSE]]

Add(f) == Queue(f) /\ excused' = (excused \/ Pending(f) # {})

Take(j) ==
  /\ job[j].st = "waiting"
  /\ Cardinality(Running) < Workers
  /\ job' = [job EXCEPT ![j].st = "active"]
  /\ Goto(RunOf(j), "check")
  /\ UNCHANGED <<disk, imp, req, history>>

(* The outcome of a run, which has to have the lock of its job still.      *)
End(r) ==
  /\ At(r, "end")
  /\ IF Current(r) THEN job' = [job EXCEPT ![r[1]].st = out[r]] ELSE UNCHANGED job
  /\ GotoAs(r, "none", "none")
  /\ UNCHANGED <<disk, imp, req, history>>

(* The lock of a job has expired: it waits for its second run, or failed.  *)
(* If its worker is alive there are two runs, or one of a job that failed. *)
Stall(j) ==
  /\ job[j].st = "active"
  /\ job[j].stalled \/ Cardinality(Due) < MaxRuns
  /\ job' = [job EXCEPT ![j].st = IF job[j].stalled THEN "failed" ELSE "waiting",
                        ![j].stalled = TRUE]
  /\ excused' = (excused \/ RunOf(j) \in Running)
  /\ UNCHANGED <<disk, pc, out, imp, req, broken>>

Breaks(r) == broken' = broken \cup {r} /\ excused' = TRUE

(* The process of a worker crashes.  The queue learns it from the lock.  At*)
(* its end this also stands for an outcome that does not reach the queue.  *)
Crash(r) ==
  /\ r \in Running
  /\ GotoAs(r, "none", "none")
  /\ IF imp[r] = "half" THEN Breaks(r) ELSE UNCHANGED history
  /\ UNCHANGED <<disk, job, imp, req>>
-----------------------------------------------------------------------------
(* The worker, processImportJob.  Its reads first: the marker, the file,   *)
(* the marker again if the file is not read row by row, the duplicates.    *)
(* The first and the third come with calls that may fail.                  *)
Check(r) ==
  /\ At(r, "check")
  /\ \/ EndAs(r, "failed")
     \/ IF FileOf(r) \in marked THEN EndAs(r, "cancelled") ELSE Goto(r, "read")
  /\ UNCHANGED <<disk, job, imp, req, history>>

Read(r) ==
  /\ At(r, "read")
  /\ \/ EndAs(r, "failed")
     \/ FileOf(r) \in present /\ Goto(r, IF FileOf(r) \in Csv THEN "probe" ELSE "recheck")
  /\ UNCHANGED <<disk, job, imp, req, history>>

Recheck(r) ==
  /\ At(r, "recheck")
  /\ IF FileOf(r) \in marked THEN EndAs(r, "cancelled")
     ELSE EndAs(r, "failed") \/ Goto(r, "probe")
  /\ UNCHANGED <<disk, job, imp, req, history>>

Probe(r) ==
  /\ At(r, "probe")
  /\ \/ EndAs(r, "failed")
     \/ IF Imported # {} THEN EndAs(r, "duplicate") ELSE Goto(r, "insert")
  /\ UNCHANGED <<disk, job, imp, req, history>>

\* Variant for the checks: without the unique index.
InsertBeside(r) ==
  /\ At(r, "insert")
  /\ imp' = [imp EXCEPT ![r] = "half"]
  /\ Goto(r, "open")
  /\ UNCHANGED <<disk, job, req, history>>
(* The row of the import, unless an active one has the content.  An error  *)
(* ends the run, and nothing takes the import back: it is active, without  *)
(* rows, if the row was inserted all the same.                             *)
Insert(r) ==
  /\ At(r, "insert")
  /\ \/ Imported # {} /\ Goto(r, "conflict") /\ UNCHANGED <<imp, history>>
     \/ EndAs(r, "failed") /\ UNCHANGED <<imp, history>>
     \/ /\ Imported = {}
        /\ imp' = [imp EXCEPT ![r] = "half"]
        /\ \/ Goto(r, "open") /\ UNCHANGED history
           \/ EndAs(r, "failed") /\ Breaks(r)
  /\ UNCHANGED <<disk, job, req>>

Conflict(r) ==
  /\ At(r, "conflict")
  /\ EndAs(r, "failed") \/ (Imported # {} /\ EndAs(r, "duplicate"))
  /\ UNCHANGED <<disk, job, imp, req, history>>
-----------------------------------------------------------------------------
(* The rows.  A CSV file is opened again, and its marker is looked for at  *)
(* each row; the rows of other files are in memory.                        *)
Open(r) ==
  /\ At(r, "open")
  /\ IF FileOf(r) \in Csv \ present THEN GotoAs(r, "undo", "failed") ELSE Goto(r, "rows")
  /\ UNCHANGED <<disk, job, imp, req, history>>

Stops(r) == FileOf(r) \in Csv \cap marked

\* Variant for the checks: a cancellation leaves the rows.
RowLeft(r) ==
  /\ At(r, "rows")
  /\ IF Stops(r) THEN EndAs(r, "cancelled") ELSE Goto(r, "flush") \/ GotoAs(r, "undo", "failed")
  /\ UNCHANGED <<disk, job, imp, req, history>>
(* From one row on to the end, the last rows being still to be written.    *)
Row(r) ==
  /\ At(r, "rows")
  /\ \/ Stops(r) /\ GotoAs(r, "undo", "cancelled")
     \/ ~Stops(r) /\ GotoAs(r, "undo", "failed")
     \/ ~Stops(r) /\ Goto(r, "flush")
  /\ UNCHANGED <<disk, job, imp, req, history>>

Flush(r) ==
  /\ At(r, "flush")
  /\ \/ /\ imp' = [imp EXCEPT ![r] = IF @ = "half" THEN "all" ELSE @]
        /\ excused' = TRUE
        /\ Goto(r, "audit")
     \/ GotoAs(r, "undo", "failed") /\ UNCHANGED <<imp, excused>>
  /\ UNCHANGED <<disk, job, req, broken>>

(* The rows are deleted, then the import; either statement may fail.       *)
Undo(r) ==
  /\ \/ At(r, "undo") /\ Goto(r, "drop") /\ UNCHANGED <<imp, history>>
     \/ /\ At(r, "drop")
        /\ EndAs(r, out[r]) \/ EndAs(r, "failed")
        /\ imp' = [imp EXCEPT ![r] = "none"]
        /\ UNCHANGED history
     \/ /\ At(r, "undo") \/ At(r, "drop")
        /\ EndAs(r, "failed")
        /\ Breaks(r)
        /\ UNCHANGED imp
  /\ UNCHANGED <<disk, job, req>>

(* The audit entry and the job's progress; a failure of either fails the   *)
(* job, not the import.                                                    *)
Audit(r) ==
  /\ At(r, "audit")
  /\ EndAs(r, "completed") \/ EndAs(r, "failed")
  /\ UNCHANGED <<disk, job, imp, req, history>>

(* cleanupImportBackgroundJobFiles: the file and the marker are removed,   *)
(* or not.                                                                 *)
Remove(f) ==
  /\ \E left \in SUBSET {f} : present' = (present \ {f}) \cup (left \cap present)
  /\ \E left \in SUBSET {f} : marked' = (marked \ {f}) \cup (left \cap marked)

Clean(r) ==
  /\ At(r, "clean")
  /\ Remove(FileOf(r))
  /\ Goto(r, "end")
  /\ UNCHANGED <<job, imp, req, history>>
-----------------------------------------------------------------------------
(* The user.  An upload is staged under a new name and queued.             *)
Enqueue(f) ==
  /\ f \notin Staged
  /\ present' = present \cup {f}
  /\ Add(f)
  /\ UNCHANGED <<marked, pc, out, imp, req, broken>>

RequestGoes(q, step) == req' = [req EXCEPT ![q].pc = step]
RequestEnds(q)       == req' = [req EXCEPT ![q] = NoRequest]
RequestAt(q, step)   == req[q].pc = step
Target(q)            == req[q].file

(* The queue answers an upload with an error although it has the job: the  *)
(* file is removed while the job is waiting or running.                    *)
EnqueueUnanswered(q, f) ==
  /\ RequestAt(q, "idle") /\ f \notin Staged
  /\ present' = present \cup {f}
  /\ Queue(f) /\ excused' = TRUE
  /\ req' = [req EXCEPT ![q] = [pc |-> "withdraw", file |-> f]]
  /\ UNCHANGED <<marked, pc, out, imp, broken>>

Withdraw(q) ==
  /\ RequestAt(q, "withdraw")
  /\ Remove(Target(q))
  /\ RequestEnds(q)
  /\ UNCHANGED <<job, pc, out, imp, history>>

(* cancel and resume look at the state of the job first.                   *)
AskCancel(q, j) ==
  /\ RequestAt(q, "idle") /\ job[j].st \in {"waiting", "active"}
  /\ req' = [req EXCEPT ![q] = [pc |-> "mark", file |-> job[j].file]]
  /\ UNCHANGED <<disk, job, pc, out, imp, history>>

Mark(q) ==
  /\ RequestAt(q, "mark")
  /\ marked' = marked \cup {Target(q)}
  /\ RequestEnds(q)
  /\ UNCHANGED <<present, job, pc, out, imp, history>>

AskResume(q, j) ==
  /\ RequestAt(q, "idle") /\ job[j].st \in {"cancelled", "failed"}
  /\ job[j].file \in present
  /\ req' = [req EXCEPT ![q] = [pc |-> "unmark", file |-> job[j].file]]
  /\ UNCHANGED <<disk, job, pc, out, imp, history>>

Unmark(q) ==
  /\ RequestAt(q, "unmark")
  /\ marked' = marked \ {Target(q)}
  /\ RequestGoes(q, "add")
  /\ UNCHANGED <<present, job, pc, out, imp, history>>

(* The resumed job, or an error of the queue.                              *)
AddResumed(q) ==
  /\ RequestAt(q, "add")
  /\ Add(Target(q)) \/ UNCHANGED <<job, excused>>
  /\ RequestEnds(q)
  /\ UNCHANGED <<disk, pc, out, imp, broken>>

(* The user deletes an import.                                             *)
DeleteImport(r) ==
  /\ imp[r] # "none"
  /\ imp' = [imp EXCEPT ![r] = "none"]
  /\ broken' = broken \ {r}
  /\ UNCHANGED <<disk, job, pc, out, req, excused>>

Work(r) ==
  \/ Check(r) \/ Read(r) \/ Recheck(r) \/ Probe(r) \/ Insert(r) \/ Conflict(r) \/ Open(r)
  \/ Row(r) \/ Flush(r) \/ Undo(r) \/ Audit(r) \/ Clean(r) \/ End(r)
Next ==
  \/ \E j \in Job : Take(j) \/ Stall(j)
  \/ \E r \in Run : Work(r) \/ Crash(r) \/ DeleteImport(r)
  \/ \E f \in File : Enqueue(f)
  \/ \E q \in Request, f \in File : EnqueueUnanswered(q, f)
  \/ \E q \in Request : Mark(q) \/ Unmark(q) \/ AddResumed(q) \/ Withdraw(q)
  \/ \E q \in Request, j \in Job : AskCancel(q, j) \/ AskResume(q, j)

Spec == Init /\ [][Next]_vars
-----------------------------------------------------------------------------
(* Every variable keeps its type, and one active import at most has the    *)
(* content, however many runs load it.                                     *)
TypeOK ==
  /\ present \subseteq Staged
  /\ marked \subseteq Staged
  /\ job \in [Job -> [st : {"none", "waiting", "active", "completed", "failed",
                            "cancelled", "duplicate"},
                      file : File, stalled : BOOLEAN]]
  /\ pc \in [Run -> {"none", "check", "read", "recheck", "probe", "insert", "conflict",
                     "open", "rows", "flush", "undo", "drop", "audit", "clean", "end"}]
  /\ out \in [Run -> {"none", "completed", "failed", "cancelled", "duplicate"}]
  /\ imp \in [Run -> {"none", "half", "all"}]
  /\ req \in [Request -> [pc : {"idle", "mark", "unmark", "add", "withdraw"}, file : File]]
  /\ broken \subseteq Run /\ excused \in BOOLEAN
  /\ Cardinality(Imported) <= 1

(* An import of which rows are missing is never left to its users: while   *)
(* it is active, the run that created it still loads it or takes it back,  *)
(* whatever cancellations, resumptions, other jobs and a second run of its *)
(* job do.  The exceptions are the crash of the run's process, a failed    *)
(* undo, and an INSERT of the import that is answered with an error        *)
(* although it took effect: no undo covers that statement.                 *)
HalfImportsAreTakenBack ==
  \A r \in Run : imp[r] = "half" =>
    pc[r] \in {"open", "rows", "flush", "undo", "drop"} \/ r \in broken

(* The uploaded content is not lost: when a staged file is gone, the       *)
(* content was imported to the end or another staged file has it.  The     *)
(* exceptions are a half import that was left behind, which a later job    *)
(* takes for a duplicate; two runs on one file, by two jobs that are       *)
(* pending or by a stalled job of which the first run goes on, where one   *)
(* takes the import of the other for a duplicate and removes the file that *)
(* the other has still to read; and an upload that its user was told is    *)
(* not queued.                                                             *)
UploadLostOnlyToTwins ==
  Staged # {} /\ present = {} => excused
=============================================================================
