-------------------------- MODULE ImportJobsProofs --------------------------
(***************************************************************************)
(* Proofs about background imports, for any files, jobs, requests and      *)
(* workers: their types with the one active import of a content, that half *)
(* imports are taken back, and how an upload can be lost.                  *)
(***************************************************************************)
EXTENDS ImportJobs, FiniteSetTheorems, TLAPS

State   == {"none", "waiting", "active", "completed", "failed", "cancelled", "duplicate"}
Outcome == {"none", "completed", "failed", "cancelled", "duplicate"}
Loading == {"open", "rows", "flush", "undo", "drop"}
Reading == {"recheck", "probe", "insert", "conflict"} \cup Loading
Step    == {"none", "check", "read", "audit", "clean", "end"} \cup Reading
Asking  == [pc : {"idle", "mark", "unmark", "add", "withdraw"}, file : File]

Typed ==
  /\ job \in [Job -> [st : State, file : File, stalled : BOOLEAN]]
  /\ pc \in [Run -> Step]
  /\ out \in [Run -> Outcome]
  /\ imp \in [Run -> {"none", "half", "all"}]
  /\ req \in [Request -> Asking]
  /\ broken \subseteq Run /\ excused \in BOOLEAN

(* Files, markers and requests are those of jobs that were queued, and a   *)
(* file is only withdrawn with the excuse.                                 *)
IsStaged(f) == \E j \in Job : job[j].st # "none" /\ job[j].file = f
StagedInv ==
  /\ \A f \in present \cup marked : IsStaged(f)
  /\ \A q \in Request : req[q].pc # "idle" => IsStaged(Target(q))
  /\ \A q \in Request : req[q].pc = "withdraw" => excused

(* How a run ends, from where it is.                                       *)
WorkerOK(r) ==
  /\ pc[r] \in {"undo", "drop"} => out[r] \in {"failed", "cancelled"}
  /\ pc[r] = "clean" => out[r] \in {"completed", "duplicate"}
  /\ pc[r] \in {"clean", "end"} <=> out[r] # "none" /\ pc[r] \notin {"undo", "drop"}

(* A run is of a queued job, the second one of a job that stalled, and the *)
(* run that a job waits for has not begun.                                 *)
StartedOK(r) == pc[r] # "none" => job[r[1]].st # "none" /\ (r[2] => job[r[1]].stalled)
WaitingOK(j) == job[j].st = "waiting" => pc[RunOf(j)] = "none"

SoleImport == \A r, s \in Run : imp[r] # "none" /\ imp[s] # "none" => r = s

(* Before anything excuses the loss of the upload: no import is complete or*)
(* left behind, a run has the lock of its job, a file has one pending job, *)
(* and a run that has read its file still finds it.                        *)
IsPending(j) == job[j].st \in {"waiting", "active"}
UnexcusedOK(r) ==
  /\ r \notin broken
  /\ imp[r] # "all" /\ pc[r] # "audit" /\ out[r] # "completed"
  /\ pc[r] # "none" => Current(r)
  /\ pc[r] \in Reading => FileOf(r) \in present
SolePending ==
  \A i, j \in Job : IsPending(i) /\ IsPending(j) /\ job[i].file = job[j].file => i = j

(* A file that is there, and that no run is about to remove.               *)
Safe(f) == f \in present /\ \A r \in Run : FileOf(r) = f => out[r] # "duplicate"

IInv ==
  /\ Typed
  /\ StagedInv
  /\ \A r \in Run : WorkerOK(r) /\ StartedOK(r)
  /\ \A j \in Job : WaitingOK(j)
  /\ SoleImport
  /\ HalfImportsAreTakenBack
  /\ ~excused => SolePending /\ \A r \in Run : UnexcusedOK(r)
  /\ ~excused /\ (\E f \in File : IsStaged(f)) => \E f \in present : Safe(f)
-----------------------------------------------------------------------------
(* What the module says of files, runs and imports.                        *)
LEMMA StagedIs ==
  ASSUME Typed
  PROVE  Staged = {f \in File : IsStaged(f)}
BY DEF Staged, IsStaged, Typed

LEMMA RunIs ==
  ASSUME NEW r \in Run
  PROVE  r[1] \in Job /\ r[2] \in BOOLEAN /\ r = <<r[1], r[2]>>
BY DEF Run

LEMMA SoleCardinality ==
  ASSUME SoleImport
  PROVE  Cardinality(Imported) <= 1
<1>1. CASE Imported = {}
  BY <1>1, FS_EmptySet
<1>2. ASSUME NEW r \in Imported
      PROVE  Cardinality(Imported) <= 1
  <2>1. Imported = {r}
    BY <1>2 DEF Imported, SoleImport
  <2>2. Cardinality({r}) = 1
    BY FS_Singleton
  <2> QED BY <2>1, <2>2
<1> QED BY <1>1, <1>2

LEMMA NoRequestTyped == NoRequest \in Asking /\ NoRequest.pc = "idle"
<1>1. AnyFile \in File
  BY ImportAssumption DEF AnyFile
<1> QED BY <1>1 DEF NoRequest, Asking

LEMMA InitIInv == Init => IInv
<1> SUFFICES ASSUME Init PROVE IInv
  OBVIOUS
<1>1. AnyFile \in File
  BY ImportAssumption DEF AnyFile
<1>2. Typed
  BY <1>1, NoRequestTyped DEF Init, Typed, State, Step, Outcome
<1>3. \A f \in File : ~IsStaged(f)
  BY DEF Init, IsStaged
<1>4. StagedInv /\ SoleImport /\ HalfImportsAreTakenBack
  BY NoRequestTyped DEF Init, StagedInv, SoleImport, HalfImportsAreTakenBack
<1>5. ASSUME NEW r \in Run PROVE WorkerOK(r) /\ StartedOK(r) /\ UnexcusedOK(r)
  BY DEF Init, WorkerOK, StartedOK, UnexcusedOK, Reading, Loading
<1>6. SolePending /\ \A j \in Job : WaitingOK(j)
  BY DEF Init, SolePending, IsPending, WaitingOK
<1> QED BY <1>2, <1>3, <1>4, <1>5, <1>6 DEF IInv
-----------------------------------------------------------------------------
(* While nothing excuses a loss, a file has one run.                       *)
LEMMA SoleRun ==
  ASSUME IInv, ~excused, NEW r \in Run, NEW s \in Run,
         pc[r] # "none", pc[s] # "none", FileOf(r) = FileOf(s)
  PROVE  r = s
<1>1. Current(r) /\ Current(s)
  BY DEF IInv, UnexcusedOK
<1>2. r[1] = s[1]
  BY <1>1, RunIs DEF IInv, SolePending, IsPending, Current, FileOf
<1> QED BY <1>1, <1>2 DEF Current

(* While nothing excuses a loss, what is imported is being loaded by its   *)
(* own run, from a file that is safe.                                      *)
LEMMA ImporterSafe ==
  ASSUME IInv, ~excused, NEW r \in Run, imp[r] # "none"
  PROVE  pc[r] \in Loading /\ Safe(FileOf(r))
<1>1. pc[r] \in Loading
  BY DEF IInv, Typed, UnexcusedOK, HalfImportsAreTakenBack, Loading
<1>2. FileOf(r) \in present
  BY <1>1 DEF IInv, UnexcusedOK, Reading
<1>3. ASSUME NEW s \in Run, FileOf(s) = FileOf(r), out[s] = "duplicate"
      PROVE  FALSE
  <2>1. pc[s] \in {"clean", "end"}
    BY <1>3 DEF IInv, WorkerOK
  <2>2. s = r
    BY <1>1, <1>3, <2>1, SoleRun DEF Loading
  <2> QED BY <1>1, <2>1, <2>2 DEF Loading
<1> QED BY <1>1, <1>2, <1>3 DEF Safe

(* A step of run r.                                                        *)
Moves(r) ==
  /\ pc[r] # "none"
  /\ UNCHANGED <<present, marked, job, req>>
  /\ pc' = [pc EXCEPT ![r] = pc'[r]] /\ pc'[r] \in Step \ {"none"}
  /\ out' = [out EXCEPT ![r] = out'[r]] /\ out'[r] \in Outcome
  /\ imp' = [imp EXCEPT ![r] = imp'[r]] /\ imp'[r] \in {"none", "half", "all"}
  /\ broken' \in {broken, broken \cup {r}} /\ excused' \in {excused, TRUE}

(* What such a step has to respect.                                        *)
MovesWell(r) ==
  /\ WorkerOK(r)'
  /\ imp'[r] # "none" => imp[r] # "none" \/ Imported = {}
  /\ imp'[r] = "half" => pc'[r] \in Loading \/ r \in broken'
  /\ r \in broken' => r \in broken \/ excused'
  /\ ~excused' =>
       /\ imp'[r] # "all" /\ pc'[r] # "audit" /\ out'[r] # "completed"
       /\ pc'[r] \in Reading => FileOf(r) \in present
       /\ out'[r] = "duplicate" => Imported # {} /\ pc[r] \notin Loading

LEMMA MovesKeep ==
  ASSUME IInv, NEW r \in Run, Moves(r), MovesWell(r)
  PROVE  IInv'
<1>0. /\ \A s \in Run : s # r => pc'[s] = pc[s] /\ out'[s] = out[s] /\ imp'[s] = imp[s]
      /\ UNCHANGED <<present, marked, job, req>>
  BY DEF Moves, IInv, Typed
<1>1. Typed'
  BY DEF Moves, IInv, Typed
<1>2. StagedInv'
  <2>1. excused => excused'
    BY DEF IInv, Typed, Moves
  <2> QED BY <1>0, <2>1 DEF IInv, StagedInv, IsStaged, Target
<1>3. ASSUME NEW s \in Run PROVE WorkerOK(s)' /\ StartedOK(s)'
  BY <1>0, <1>3 DEF IInv, Moves, MovesWell, WorkerOK, StartedOK
<1>9. ASSUME NEW j \in Job PROVE WaitingOK(j)'
  <2>1. RunOf(j) \in Run
    BY DEF RunOf, Run, IInv, Typed
  <2> QED BY <1>0, <2>1 DEF IInv, Moves, WaitingOK, RunOf
<1>4. SoleImport'
  BY <1>0 DEF IInv, MovesWell, SoleImport, Imported
<1>5. HalfImportsAreTakenBack'
  BY <1>0 DEF IInv, Moves, MovesWell, HalfImportsAreTakenBack, Loading
<1>8. ~excused' => ~excused
  BY DEF Moves, IInv, Typed
<1>6. ASSUME ~excused' PROVE SolePending' /\ \A s \in Run : UnexcusedOK(s)'
  <2>1. SolePending /\ \A s \in Run : UnexcusedOK(s)
    BY <1>8, <1>6 DEF IInv
  <2>2. UnexcusedOK(r)'
    BY <1>0, <1>6, <2>1 DEF Moves, MovesWell, UnexcusedOK, Current, RunOf, FileOf
  <2>3. ASSUME NEW s \in Run, s # r PROVE UnexcusedOK(s)'
    BY <1>0, <2>1, <2>3 DEF Moves, UnexcusedOK, Current, RunOf, FileOf
  <2>4. SolePending'
    BY <1>0, <2>1 DEF SolePending, IsPending
  <2> QED BY <2>2, <2>3, <2>4
<1>7. ASSUME ~excused', \E f \in File : IsStaged(f)'
      PROVE  \E f \in present' : Safe(f)'
  <2>1. ~excused /\ \E f \in File : IsStaged(f)
    BY <1>0, <1>8, <1>7 DEF IsStaged
  <2>2. CASE out'[r] # "duplicate"
    BY <1>0, <2>1, <2>2 DEF IInv, Safe, FileOf
  <2>3. CASE out'[r] = "duplicate"
    <3>1. PICK s \in Run : imp[s] # "none"
      BY <1>7, <2>3 DEF MovesWell, Imported
    <3>2. pc[s] \in Loading /\ Safe(FileOf(s)) /\ s # r
      BY <1>7, <2>1, <2>3, <3>1, ImporterSafe DEF MovesWell
    <3>3. FileOf(s) # FileOf(r)
      BY <2>1, <3>2, SoleRun DEF Moves, Loading
    <3> QED BY <1>0, <3>2, <3>3 DEF Safe, FileOf
  <2> QED BY <2>2, <2>3
<1> QED BY <1>1, <1>2, <1>3, <1>4, <1>5, <1>6, <1>7, <1>9 DEF IInv

(* The steps of a worker that leave the files alone.                       *)
LEMMA Reads ==
  ASSUME IInv, NEW r \in Run, Check(r) \/ Read(r) \/ Recheck(r) \/ Probe(r) \/ Conflict(r)
  PROVE  IInv'
<1> USE DEF At, Goto, GotoAs, EndAs, disk, history, Step, Outcome, Reading, Loading
<1>1. pc[r] \in Step /\ out[r] = "none" /\ pc[r] # "none"
  BY DEF IInv, WorkerOK, Typed, Check, Read, Recheck, Probe, Conflict
<1>2. /\ UNCHANGED <<present, marked, job, req, imp, broken, excused>>
      /\ pc' = [pc EXCEPT ![r] = pc'[r]]
      /\ out' = [out EXCEPT ![r] = out'[r]]
      /\ \/ pc'[r] \in {"read", "recheck", "probe", "insert"} /\ out'[r] = "none"
         \/ pc'[r] = "end" /\ out'[r] \in {"failed", "cancelled"}
         \/ /\ pc'[r] = "clean" /\ out'[r] = "duplicate"
            /\ Imported # {} /\ pc[r] \in {"probe", "conflict"}
      /\ pc[r] \notin Loading
      /\ pc'[r] \in Reading => pc[r] \in Reading \/ FileOf(r) \in present
  BY <1>1 DEF Check, Read, Recheck, Probe, Conflict, IInv, Typed
<1>3. Moves(r)
  BY <1>1, <1>2 DEF Moves, IInv, Typed
<1>4. MovesWell(r)
  BY <1>1, <1>2 DEF MovesWell, WorkerOK, IInv, UnexcusedOK, HalfImportsAreTakenBack
<1> QED BY <1>3, <1>4, MovesKeep

LEMMA Loads ==
  ASSUME IInv, NEW r \in Run, Insert(r) \/ Open(r) \/ Row(r) \/ Flush(r) \/ Undo(r) \/ Audit(r)
  PROVE  IInv'
<1> USE DEF At, Goto, GotoAs, EndAs, disk, history, Step, Outcome, Reading, Loading
<1>1. /\ pc[r] # "none" /\ pc[r] \in Step /\ WorkerOK(r) /\ imp[r] \in {"none", "half", "all"}
      /\ broken \subseteq Run /\ excused \in BOOLEAN
      /\ imp[r] = "half" => pc[r] \in Loading \/ r \in broken
      /\ ~excused => UnexcusedOK(r)
  BY DEF IInv, Typed, Insert, Open, Row, Flush, Undo, Audit, HalfImportsAreTakenBack
<1>2. pc \in [Run -> Step] /\ out \in [Run -> Outcome] /\ imp \in [Run -> {"none", "half", "all"}]
  BY DEF IInv, Typed
<1>3. CASE Insert(r)
  <2>1. Moves(r)
    BY <1>1, <1>2, <1>3 DEF Insert, Breaks, Moves
  <2>2. MovesWell(r)
    BY <1>1, <1>2, <1>3 DEF Insert, Breaks, MovesWell, WorkerOK, UnexcusedOK, Imported
  <2> QED BY <2>1, <2>2, MovesKeep
<1>4. CASE Open(r) \/ Row(r)
  <2>1. Moves(r)
    BY <1>1, <1>2, <1>4 DEF Open, Row, Moves
  <2>2. MovesWell(r)
    BY <1>1, <1>2, <1>4 DEF Open, Row, MovesWell, WorkerOK, UnexcusedOK
  <2> QED BY <2>1, <2>2, MovesKeep
<1>5. CASE Flush(r)
  <2>1. Moves(r)
    BY <1>1, <1>2, <1>5 DEF Flush, Moves
  <2>2. MovesWell(r)
    BY <1>1, <1>2, <1>5 DEF Flush, MovesWell, WorkerOK, UnexcusedOK
  <2> QED BY <2>1, <2>2, MovesKeep
<1>6. CASE Undo(r)
  <2>1. Moves(r)
    BY <1>1, <1>2, <1>6 DEF Undo, Breaks, Moves, WorkerOK
  <2>2. MovesWell(r)
    BY <1>1, <1>2, <1>6 DEF Undo, Breaks, MovesWell, WorkerOK, UnexcusedOK
  <2> QED BY <2>1, <2>2, MovesKeep
<1>7. CASE Audit(r)
  <2>1. Moves(r)
    BY <1>1, <1>2, <1>7 DEF Audit, Moves
  <2>2. MovesWell(r)
    BY <1>1, <1>2, <1>7 DEF Audit, MovesWell, WorkerOK, UnexcusedOK
  <2> QED BY <2>1, <2>2, MovesKeep
<1> QED BY <1>3, <1>4, <1>5, <1>6, <1>7

-----------------------------------------------------------------------------
(* The queue gives, ends or takes back job j, of which r is a run.         *)
LEMMA JobKeeps ==
  ASSUME IInv, NEW r \in Run, NEW j \in Job, r[1] = j, job[j].st # "none",
         UNCHANGED <<present, marked, req, imp>>,
         job' = [job EXCEPT ![j] = job'[j]],
         job'[j] \in [st : State \ {"none"}, file : {job[j].file}, stalled : BOOLEAN],
         job[j].stalled => job'[j].stalled,
         IsPending(j)' => IsPending(j),
         \/ UNCHANGED <<pc, out>>
         \/ /\ pc' = [pc EXCEPT ![r] = pc'[r]] /\ pc'[r] \in {"none", "check"}
            /\ out' = [out EXCEPT ![r] = "none"],
         pc'[r] # "none" => (r[2] => job'[j].stalled),
         WaitingOK(j)',
         imp[r] = "half" => pc'[r] \in Loading \/ r \in broken',
         broken' \in {broken, broken \cup {r}}, excused' \in {excused, TRUE},
         r \in broken' => r \in broken \/ excused',
         ~excused' => \A s \in Run : s[1] = j /\ pc'[s] # "none" => Current(s)'
  PROVE  IInv'
<1>0. /\ job'[j].st # "none" /\ job'[j].file = job[j].file
      /\ job'[j] \in [st : State, file : File, stalled : BOOLEAN]
      /\ \A i \in Job : i # j => job'[i] = job[i]
      /\ \A i \in Job : job'[i].file = job[i].file
      /\ \A i \in Job : IsPending(i)' => IsPending(i)
  BY DEF IInv, Typed, IsPending
<1>10. /\ \A s \in Run : s # r => pc'[s] = pc[s] /\ out'[s] = out[s]
       /\ \/ pc'[r] = pc[r] /\ out'[r] = out[r]
          \/ pc'[r] \in {"none", "check"} /\ out'[r] = "none"
  BY DEF IInv, Typed
<1>11. excused' \in BOOLEAN /\ broken' \subseteq Run /\ (~excused' => ~excused)
  BY DEF IInv, Typed
<1>12. \A s \in Run : FileOf(s)' = FileOf(s)
  BY <1>0, RunIs DEF FileOf
<1>1. Typed'
  BY <1>0, <1>11 DEF IInv, Typed, Step, Outcome
<1>2. StagedInv'
  BY <1>0, <1>11 DEF IInv, StagedInv, IsStaged, Target, Typed
<1>3. ASSUME NEW s \in Run PROVE WorkerOK(s)' /\ StartedOK(s)'
  <2>1. WorkerOK(s) /\ StartedOK(s) /\ s[1] \in Job
    BY RunIs DEF IInv
  <2>2. WorkerOK(s)'
    BY <1>10, <2>1 DEF WorkerOK
  <2>3. CASE s = r
    BY <1>0, <2>2, <2>3 DEF StartedOK
  <2>4. CASE s # r
    BY <1>0, <1>10, <2>1, <2>2, <2>4 DEF StartedOK
  <2> QED BY <2>3, <2>4
<1>4. ASSUME NEW i \in Job PROVE WaitingOK(i)'
  <2>1. CASE i = j
    BY <2>1
  <2>2. CASE i # j
    <3>1. RunOf(i) # r /\ RunOf(i) \in Run
      BY <2>2 DEF RunOf, Run, IInv, Typed
    <3> QED BY <1>0, <1>10, <2>2, <3>1 DEF WaitingOK, RunOf, IInv
  <2> QED BY <2>1, <2>2
<1>5. SoleImport' /\ HalfImportsAreTakenBack'
  BY <1>10 DEF IInv, SoleImport, HalfImportsAreTakenBack, Loading
<1>6. ASSUME ~excused' PROVE SolePending' /\ \A s \in Run : UnexcusedOK(s)'
  <2>1. SolePending /\ \A s \in Run : UnexcusedOK(s)
    BY <1>6, <1>11 DEF IInv
  <2>2. SolePending'
    BY <1>0, <2>1 DEF SolePending
  <2>3. ASSUME NEW s \in Run PROVE UnexcusedOK(s)'
    <3>1. pc'[s] # "none" => Current(s)'
      BY <1>0, <1>6, <1>10, <2>1, RunIs DEF UnexcusedOK, Current, RunOf
    <3>2. pc'[s] \in Reading => pc[s] \in Reading
      BY <1>10 DEF Reading, Loading
    <3>3. s \notin broken'
      BY <1>6, <2>1 DEF UnexcusedOK
    <3>4. pc'[s] # "audit" /\ out'[s] # "completed"
      BY <1>10, <2>1 DEF UnexcusedOK
    <3> QED BY <1>12, <2>1, <3>1, <3>2, <3>3, <3>4 DEF UnexcusedOK
  <2> QED BY <2>2, <2>3
<1>7. ASSUME ~excused', \E f \in File : IsStaged(f)'
      PROVE  \E f \in present' : Safe(f)'
  <2>1. \E f \in File : IsStaged(f)
    BY <1>0, <1>7 DEF IsStaged
  <2>2. PICK f \in present : Safe(f)
    BY <1>7, <1>11, <2>1 DEF IInv
  <2>3. \A s \in Run : out'[s] = "duplicate" => out[s] = "duplicate"
    BY <1>10
  <2> QED BY <1>12, <2>2, <2>3 DEF Safe
<1> QED BY <1>1, <1>2, <1>3, <1>4, <1>5, <1>6, <1>7 DEF IInv

(* A run that the job would have next, and one that has the lock.          *)
LEMMA TakeKeeps ==
  ASSUME IInv, NEW j \in Job, Take(j)
  PROVE  IInv'
<1> DEFINE r == RunOf(j)
<1>1. /\ job[j] \in [st : State, file : File, stalled : BOOLEAN] /\ job[j].st = "waiting"
      /\ r = <<j, job[j].stalled>> /\ r \in Run /\ r[1] = j /\ r[2] = job[j].stalled
  BY DEF Take, IInv, Typed, RunOf, Run
<1>2. pc[r] = "none" /\ out[r] = "none"
  BY <1>1 DEF IInv, WaitingOK, WorkerOK
<1>3. /\ pc' = [pc EXCEPT ![r] = "check"] /\ out' = [out EXCEPT ![r] = "none"]
      /\ job' = [job EXCEPT ![j].st = "active"]
      /\ UNCHANGED <<present, marked, req, imp, broken, excused>>
  BY <1>1, <1>2 DEF Take, Goto, disk, history, IInv, Typed
<1>4. /\ job' = [job EXCEPT ![j] = job'[j]] /\ job'[j].st = "active"
      /\ job'[j] \in [st : State \ {"none"}, file : {job[j].file}, stalled : {job[j].stalled}]
      /\ job'[j].stalled = job[j].stalled
  BY <1>1, <1>3 DEF IInv, Typed, State
<1>5. pc'[r] = "check"
  BY <1>1, <1>3 DEF IInv, Typed
<1>6. imp[r] = "half" => r \in broken
  BY <1>1, <1>2 DEF IInv, HalfImportsAreTakenBack
<1>7. ASSUME ~excused', NEW s \in Run, s[1] = j, pc'[s] # "none" PROVE Current(s)'
  <2>1. s = r
    BY <1>1, <1>3, <1>7 DEF IInv, Typed, UnexcusedOK, Current
  <2> QED BY <1>1, <1>4, <2>1 DEF Current, RunOf
<1> HIDE DEF r
<1>8. IsPending(j) /\ WaitingOK(j)'
  BY <1>1, <1>4 DEF IsPending, WaitingOK
<1> QED BY <1>1, <1>3, <1>4, <1>5, <1>6, <1>7, <1>8, JobKeeps

LEMMA EndKeeps ==
  ASSUME IInv, NEW r \in Run, End(r)
  PROVE  IInv'
<1>1. /\ r[1] \in Job /\ r = <<r[1], r[2]>> /\ pc[r] = "end" /\ pc[r] \notin Loading
      /\ job[r[1]] \in [st : State, file : File, stalled : BOOLEAN]
      /\ WorkerOK(r) /\ StartedOK(r)
  BY RunIs DEF End, At, IInv, Typed, Loading
<1>2. out[r] \in State \ {"none", "waiting", "active"}
  BY <1>1 DEF WorkerOK, IInv, Typed, Outcome, State
<1>3. /\ pc' = [pc EXCEPT ![r] = "none"] /\ out' = [out EXCEPT ![r] = "none"]
      /\ IF Current(r) THEN job' = [job EXCEPT ![r[1]].st = out[r]] ELSE UNCHANGED job
      /\ UNCHANGED <<present, marked, req, imp, broken, excused>>
  BY DEF End, GotoAs, disk, history
<1>4. pc'[r] = "none" /\ \A s \in Run : s # r => pc'[s] = pc[s]
  BY <1>1, <1>3 DEF IInv, Typed
<1>5. imp[r] = "half" => r \in broken
  BY <1>1 DEF IInv, HalfImportsAreTakenBack
<1>6. CASE Current(r)
  <2>1. /\ job' = [job EXCEPT ![r[1]] = job'[r[1]]] /\ job'[r[1]].st = out[r]
        /\ job'[r[1]] \in [st : State \ {"none"}, file : {job[r[1]].file}, stalled : {job[r[1]].stalled}]
        /\ job'[r[1]].stalled = job[r[1]].stalled
    BY <1>1, <1>2, <1>3, <1>6 DEF IInv, Typed
  <2>2. ASSUME ~excused', NEW s \in Run, s[1] = r[1], pc'[s] # "none" PROVE FALSE
    <3>1. Current(s)
      BY <1>3, <1>4, <2>2 DEF IInv, UnexcusedOK
    <3> QED BY <1>4, <1>6, <2>2, <3>1 DEF Current
  <2>3. WaitingOK(r[1])' /\ ~IsPending(r[1])'
    BY <1>2, <2>1 DEF WaitingOK, IsPending
  <2>4. job[r[1]].st # "none"
    BY <1>1 DEF StartedOK
  <2> QED BY <1>1, <1>3, <1>4, <1>5, <2>1, <2>2, <2>3, <2>4, JobKeeps
<1>7. CASE ~Current(r)
  <2>1. /\ job' = job /\ job' = [job EXCEPT ![r[1]] = job'[r[1]]]
        /\ job'[r[1]] \in [st : State \ {"none"}, file : {job[r[1]].file}, stalled : BOOLEAN]
    BY <1>1, <1>3, <1>7 DEF StartedOK, IInv, Typed
  <2>2. ASSUME ~excused', NEW s \in Run, s[1] = r[1], pc'[s] # "none" PROVE Current(s)'
    BY <1>3, <1>4, <2>1, <2>2 DEF IInv, UnexcusedOK, Current, RunOf
  <2>3. WaitingOK(r[1])' /\ (IsPending(r[1])' => IsPending(r[1]))
    <3>1. RunOf(r[1]) \in Run
      BY <1>1 DEF RunOf, Run
    <3> QED BY <1>1, <1>4, <2>1, <3>1 DEF WaitingOK, RunOf, IsPending, IInv
  <2>4. job[r[1]].st # "none"
    BY <1>1 DEF StartedOK
  <2> QED BY <1>1, <1>3, <1>4, <1>5, <2>1, <2>2, <2>3, <2>4, JobKeeps
<1> QED BY <1>6, <1>7

LEMMA StallKeeps ==
  ASSUME IInv, NEW j \in Job, Stall(j)
  PROVE  IInv'
<1> DEFINE r == RunOf(j)
<1>1. /\ job[j] \in [st : State, file : File, stalled : BOOLEAN] /\ job[j].st = "active"
      /\ r = <<j, job[j].stalled>> /\ r \in Run /\ r[1] = j /\ r[2] = job[j].stalled
      /\ excused \in BOOLEAN
  BY DEF Stall, IInv, Typed, RunOf, Run
<1>2. /\ job' = [job EXCEPT ![j].st = IF job[j].stalled THEN "failed" ELSE "waiting",
                            ![j].stalled = TRUE]
      /\ excused' = (excused \/ pc[r] # "none")
      /\ UNCHANGED <<present, marked, pc, out, req, imp, broken>>
  BY <1>1 DEF Stall, disk, Running
<1>3. /\ job' = [job EXCEPT ![j] = job'[j]]
      /\ job'[j].st = IF job[j].stalled THEN "failed" ELSE "waiting"
      /\ job'[j] \in [st : State \ {"none"}, file : {job[j].file}, stalled : BOOLEAN]
      /\ job'[j].stalled
  BY <1>1, <1>2 DEF IInv, Typed, State
<1>4. WaitingOK(j)'
  <2>1. <<j, TRUE>> \in Run /\ RunOf(j)' = <<j, TRUE>>
    BY <1>3 DEF Run, RunOf, IInv, Typed
  <2>2. ~job[j].stalled => pc[<<j, TRUE>>] = "none"
    BY <2>1 DEF IInv, StartedOK
  <2> QED BY <1>2, <1>3, <2>1, <2>2 DEF WaitingOK
<1>5. imp[r] = "half" => pc'[r] \in Loading \/ r \in broken'
  BY <1>1, <1>2 DEF IInv, HalfImportsAreTakenBack, Loading
<1>6. ASSUME ~excused', NEW s \in Run, s[1] = j, pc'[s] # "none" PROVE FALSE
  BY <1>1, <1>2, <1>6 DEF IInv, UnexcusedOK, Current
<1>7. excused' \in {excused, TRUE}
  BY <1>1, <1>2
<1>8. r \in broken' => r \in broken
  BY <1>2
<1> HIDE DEF r
<1>9. IsPending(j)
  BY <1>1 DEF IsPending
<1> QED BY <1>1, <1>2, <1>3, <1>4, <1>5, <1>6, <1>7, <1>8, <1>9, JobKeeps

LEMMA CrashKeeps ==
  ASSUME IInv, NEW r \in Run, Crash(r)
  PROVE  IInv'
<1>1. /\ r[1] \in Job /\ pc[r] # "none"
      /\ job[r[1]] \in [st : State, file : File, stalled : BOOLEAN] /\ job[r[1]].st # "none"
  BY RunIs DEF Crash, Running, IInv, Typed, StartedOK
<1>2. /\ pc' = [pc EXCEPT ![r] = "none"] /\ out' = [out EXCEPT ![r] = "none"]
      /\ UNCHANGED <<present, marked, job, req, imp>>
      /\ imp[r] = "half" => r \in broken'
      /\ broken' \in {broken, broken \cup {r}} /\ excused' \in {excused, TRUE}
      /\ r \in broken' => r \in broken \/ excused'
  BY DEF Crash, Breaks, GotoAs, disk, history
<1>3. pc'[r] = "none" /\ \A s \in Run : s # r => pc'[s] = pc[s]
  BY <1>2 DEF IInv, Typed
<1>4. /\ job' = [job EXCEPT ![r[1]] = job'[r[1]]]
      /\ job'[r[1]] \in [st : State \ {"none"}, file : {job[r[1]].file}, stalled : BOOLEAN]
  BY <1>1, <1>2 DEF IInv, Typed
<1>5. WaitingOK(r[1])' /\ (IsPending(r[1])' => IsPending(r[1]))
  <2>1. RunOf(r[1]) \in Run
    BY <1>1 DEF RunOf, Run
  <2> QED BY <1>1, <1>2, <1>3, <2>1 DEF WaitingOK, RunOf, IsPending, IInv
<1>6. ASSUME ~excused', NEW s \in Run, s[1] = r[1], pc'[s] # "none" PROVE Current(s)'
  <2>1. ~excused
    BY <1>2, <1>6 DEF IInv, Typed
  <2>2. pc[s] # "none"
    BY <1>3, <1>6
  <2>3. Current(s)
    BY <2>1, <2>2 DEF IInv, UnexcusedOK
  <2> QED BY <1>2, <2>3 DEF Current, RunOf
<1> QED BY <1>1, <1>2, <1>3, <1>4, <1>5, <1>6, JobKeeps
-----------------------------------------------------------------------------
(* The files of a job are removed when its content is imported, or when it *)
(* was taken for a duplicate.                                              *)
LEMMA CleanKeeps ==
  ASSUME IInv, NEW r \in Run, Clean(r)
  PROVE  IInv'
<1>0. /\ pc[r] = "clean"
      /\ pc' = [pc EXCEPT ![r] = "end"]
      /\ UNCHANGED <<job, out, imp, req, broken, excused>>
      /\ present' \subseteq present /\ present \ {FileOf(r)} \subseteq present'
      /\ marked' \subseteq marked
  BY DEF Clean, Remove, At, Goto, history
<1>1. Typed'
  BY <1>0 DEF IInv, Typed, Step
<1>2. StagedInv'
  BY <1>0 DEF IInv, StagedInv, IsStaged, Target
<1>10. pc'[r] = "end" /\ \A s \in Run : s # r => pc'[s] = pc[s]
  BY <1>0 DEF IInv, Typed
<1>3. ASSUME NEW s \in Run PROVE WorkerOK(s)' /\ StartedOK(s)'
  BY <1>0, <1>10 DEF IInv, WorkerOK, StartedOK
<1>9. ASSUME NEW j \in Job PROVE WaitingOK(j)'
  <2>1. RunOf(j) \in Run
    BY DEF RunOf, Run, IInv, Typed
  <2> QED BY <1>0, <1>10, <2>1 DEF IInv, WaitingOK, RunOf
<1>4. SoleImport' /\ HalfImportsAreTakenBack'
  BY <1>0, <1>10 DEF IInv, SoleImport, HalfImportsAreTakenBack
<1>5. ASSUME ~excused' PROVE SolePending' /\ \A s \in Run : UnexcusedOK(s)'
  <2>1. SolePending /\ \A s \in Run : UnexcusedOK(s)
    BY <1>0, <1>5 DEF IInv
  <2>2. SolePending'
    BY <1>0, <2>1 DEF SolePending, IsPending
  <2>3. ASSUME NEW s \in Run PROVE UnexcusedOK(s)'
    <3>1. pc'[s] \in Reading => s # r /\ pc[s] \in Reading
      BY <1>10 DEF Reading, Loading
    <3>2. pc'[s] \in Reading => FileOf(s) # FileOf(r)
      BY <1>0, <1>5, <3>1, SoleRun DEF Reading, Loading
    <3>3. pc'[s] # "none" => Current(s)'
      BY <1>0, <1>10, <2>1 DEF UnexcusedOK, Current, RunOf
    <3>4. pc'[s] # "audit"
      BY <1>10, <2>1 DEF UnexcusedOK
    <3> QED BY <1>0, <2>1, <3>1, <3>2, <3>3, <3>4 DEF UnexcusedOK, FileOf
  <2> QED BY <2>2, <2>3
<1>6. ASSUME ~excused', \E f \in File : IsStaged(f)'
      PROVE  \E f \in present' : Safe(f)'
  <2>1. PICK f \in present : Safe(f)
    BY <1>0, <1>6 DEF IInv, IsStaged
  <2>2. out[r] = "duplicate"
    BY <1>0, <1>6 DEF IInv, Typed, WorkerOK, UnexcusedOK, Outcome
  <2>3. f # FileOf(r)
    BY <2>1, <2>2 DEF Safe
  <2> QED BY <1>0, <2>1, <2>3 DEF Safe, FileOf
<1> QED BY <1>1, <1>2, <1>3, <1>4, <1>5, <1>6, <1>9 DEF IInv

-----------------------------------------------------------------------------
(* The user's steps leave the runs alone.                                  *)
LEMMA UserKeeps ==
  ASSUME IInv, UNCHANGED <<job, pc, out, imp, broken, excused>>,
         present' = present \/ excused,
         Typed', StagedInv'
  PROVE  IInv'
<1>1. ASSUME NEW r \in Run
      PROVE  WorkerOK(r)' /\ StartedOK(r)' /\ (~excused' /\ UnexcusedOK(r) => UnexcusedOK(r)')
  BY DEF IInv, WorkerOK, StartedOK, UnexcusedOK, Current, RunOf, FileOf
<1>2. SoleImport' /\ HalfImportsAreTakenBack' /\ (SolePending => SolePending')
  BY DEF IInv, SoleImport, HalfImportsAreTakenBack, SolePending, IsPending
<1>3. \A j \in Job : WaitingOK(j)'
  BY DEF IInv, WaitingOK, RunOf
<1>4. \A f : IsStaged(f)' = IsStaged(f) /\ (~excused' => Safe(f)' = Safe(f))
  BY DEF IsStaged, Safe, FileOf
<1> QED BY <1>1, <1>2, <1>3, <1>4 DEF IInv

LEMMA UserSteps ==
  ASSUME IInv, NEW q \in Request,
         Mark(q) \/ Unmark(q) \/ Withdraw(q) \/ \E j \in Job : AskCancel(q, j) \/ AskResume(q, j)
  PROVE  IInv'
<1> USE DEF RequestAt, RequestEnds, RequestGoes, Target, disk, history
<1>1. UNCHANGED <<job, pc, out, imp, broken, excused>> /\ present' \subseteq present
  BY DEF Mark, Unmark, Withdraw, Remove, AskCancel, AskResume
<1>7. present' = present \/ excused
  BY DEF Mark, Unmark, Withdraw, AskCancel, AskResume, IInv, StagedInv
<1>2. Typed'
  BY <1>1, NoRequestTyped DEF Mark, Unmark, Withdraw, AskCancel, AskResume, IInv, Typed, Asking
<1>3. \A f : IsStaged(f)' = IsStaged(f)
  BY <1>1 DEF IsStaged
<1>4. \A f \in marked' : IsStaged(f)
  BY DEF Mark, Unmark, Withdraw, Remove, AskCancel, AskResume, IInv, StagedInv
<1>5. /\ \A p \in Request : req'[p].pc # "idle" => IsStaged(req'[p].file)
      /\ \A p \in Request : req'[p].pc = "withdraw" => excused
  <2>1. \A j \in Job : job[j].st # "none" => IsStaged(job[j].file)
    BY DEF IsStaged
  <2>2. CASE Mark(q) \/ Unmark(q) \/ Withdraw(q)
    <3>1. req[q].pc # "idle"
      BY <2>2 DEF Mark, Unmark, Withdraw
    <3>2. \A p \in Request : req'[p].pc # "idle" => req[p].pc # "idle" /\ req'[p].file = req[p].file
      BY <2>2, <3>1, NoRequestTyped DEF Mark, Unmark, Withdraw, IInv, Typed, Asking
    <3>3. \A p \in Request : req'[p].pc = "withdraw" => req[p].pc = "withdraw"
      BY <2>2, <3>1, NoRequestTyped DEF Mark, Unmark, Withdraw, IInv, Typed, Asking
    <3> QED BY <3>2, <3>3 DEF IInv, StagedInv
  <2>3. ASSUME NEW j \in Job, AskCancel(q, j) \/ AskResume(q, j)
        PROVE  /\ \A p \in Request : req'[p].pc # "idle" => IsStaged(req'[p].file)
               /\ \A p \in Request : req'[p].pc = "withdraw" => excused
    BY <2>1, <2>3 DEF AskCancel, AskResume, IInv, Typed, StagedInv
  <2> QED BY <2>2, <2>3
<1>6. StagedInv'
  BY <1>1, <1>3, <1>4, <1>5 DEF IInv, StagedInv
<1> QED BY <1>1, <1>2, <1>6, <1>7, UserKeeps

LEMMA DeleteKeeps ==
  ASSUME IInv, NEW r \in Run, DeleteImport(r)
  PROVE  IInv'
<1> USE DEF disk, DeleteImport
<1>1. Typed'
  BY DEF IInv, Typed
<1>2. StagedInv'
  BY DEF IInv, StagedInv, IsStaged, Target
<1>3. ASSUME NEW s \in Run
      PROVE  WorkerOK(s)' /\ StartedOK(s)' /\ (UnexcusedOK(s) => UnexcusedOK(s)')
  BY DEF IInv, Typed, WorkerOK, StartedOK, UnexcusedOK, Current, RunOf, FileOf
<1>4. SoleImport' /\ HalfImportsAreTakenBack' /\ (SolePending => SolePending')
  BY DEF IInv, Typed, SoleImport, HalfImportsAreTakenBack, SolePending, IsPending
<1>5. \A j \in Job : WaitingOK(j)'
  BY DEF IInv, WaitingOK, RunOf
<1>6. \A f : IsStaged(f)' = IsStaged(f) /\ Safe(f)' = Safe(f)
  BY DEF IsStaged, Safe, FileOf
<1> QED BY <1>1, <1>2, <1>3, <1>4, <1>5, <1>6 DEF IInv

(* A job is queued for a file: a new one, or that of a job that ended.     *)
LEMMA AddKeeps ==
  ASSUME IInv, NEW f \in File, Queue(f),
         excused' \in BOOLEAN, ~excused' => ~excused /\ Pending(f) = {},
         UNCHANGED <<marked, pc, out, imp, broken>>,
         \/ present' = present /\ IsStaged(f)
         \/ present' = present \cup {f} /\ ~IsStaged(f),
         req' \in [Request -> Asking],
         \A q \in Request :
           req'[q].pc = "idle" \/ req'[q] = req[q] \/ (req'[q].file = f /\ excused')
  PROVE  IInv'
<1>1. PICK j \in Job :
        /\ job[j].st = "none"
        /\ job' = [job EXCEPT ![j] = [st |-> "waiting", file |-> f, stalled |-> FALSE]]
  BY DEF Queue
<1>2. /\ job' \in [Job -> [st : State, file : File, stalled : BOOLEAN]]
      /\ job'[j] = [st |-> "waiting", file |-> f, stalled |-> FALSE]
      /\ \A i \in Job : i # j => job'[i] = job[i]
  BY <1>1 DEF IInv, Typed, State
<1>3. Typed'
  BY <1>1, <1>2 DEF IInv, Typed
<1>4. \A g : IsStaged(g)' <=> IsStaged(g) \/ g = f
  BY <1>1, <1>2 DEF IsStaged
<1>5. StagedInv'
  <2>1. \A g \in present' \cup marked' : IsStaged(g)'
    BY <1>4 DEF IInv, StagedInv
  <2>2. ASSUME NEW q \in Request, req'[q].pc # "idle" PROVE IsStaged(Target(q))'
    <3>1. IsStaged(req'[q].file) \/ req'[q].file = f
      BY <2>2 DEF IInv, StagedInv, Target
    <3> QED BY <1>4, <3>1 DEF Target
  <2>3. ASSUME NEW q \in Request, req'[q].pc = "withdraw" PROVE excused'
    <3>1. excused => excused'
      OBVIOUS
    <3> QED BY <2>3, <3>1 DEF IInv, StagedInv
  <2> QED BY <2>1, <2>2, <2>3 DEF StagedInv
<1>6. \A r \in Run : r[1] = j => pc[r] = "none" /\ out[r] = "none"
  BY <1>1 DEF IInv, StartedOK, WorkerOK
<1>7. ASSUME NEW r \in Run PROVE WorkerOK(r)' /\ StartedOK(r)'
  <2>1. r[1] \in Job /\ WorkerOK(r) /\ StartedOK(r)
    BY RunIs DEF IInv
  <2> QED BY <1>2, <1>6, <2>1 DEF WorkerOK, StartedOK
<1>10. ASSUME NEW i \in Job PROVE WaitingOK(i)'
  <2>1. CASE i = j
    <3>1. <<j, FALSE>> \in Run /\ <<j, FALSE>>[1] = j
      BY DEF Run
    <3>3. RunOf(j)' = <<j, FALSE>>
      BY <1>2 DEF RunOf
    <3>2. pc'[<<j, FALSE>>] = "none"
      BY <1>6, <3>1
    <3> QED BY <2>1, <3>2, <3>3 DEF WaitingOK
  <2>2. CASE i # j
    BY <1>2, <2>2 DEF WaitingOK, RunOf, IInv
  <2> QED BY <2>1, <2>2
<1>11. SoleImport' /\ HalfImportsAreTakenBack'
  BY DEF IInv, SoleImport, HalfImportsAreTakenBack
<1>8. ASSUME ~excused' PROVE SolePending' /\ \A r \in Run : UnexcusedOK(r)'
  <2>1. Pending(f) = {} /\ SolePending /\ \A r \in Run : UnexcusedOK(r)
    BY <1>8 DEF IInv
  <2>2. \A k \in Job : k # j /\ IsPending(k)' => job'[k].file # f
    BY <1>2, <2>1 DEF Pending, IsPending
  <2>3. SolePending'
    BY <1>2, <2>1, <2>2 DEF SolePending, IsPending
  <2>4. ASSUME NEW r \in Run PROVE UnexcusedOK(r)'
    <3>1. r[1] \in Job /\ UnexcusedOK(r)
      BY <2>1, RunIs
    <3>2. pc[r] # "none" => job'[r[1]] = job[r[1]]
      BY <1>2, <1>6, <3>1
    <3>3. pc'[r] # "none" => Current(r)'
      BY <3>1, <3>2 DEF UnexcusedOK, Current, RunOf
    <3>4. pc'[r] \in Reading => FileOf(r)' \in present'
      BY <3>1, <3>2 DEF UnexcusedOK, FileOf, Reading, Loading
    <3> QED BY <3>1, <3>3, <3>4 DEF UnexcusedOK
  <2> QED BY <2>3, <2>4
<1>9. ASSUME ~excused' PROVE \E g \in present' : Safe(g)'
  <2>3. \A r \in Run : out[r] = "duplicate" => FileOf(r)' = FileOf(r)
    BY <1>2, <1>6, RunIs DEF FileOf
  <2>1. CASE IsStaged(f)
    <3>1. PICK g \in present : Safe(g)
      BY <1>9, <2>1 DEF IInv
    <3> QED BY <2>3, <3>1 DEF Safe
  <2>2. CASE ~IsStaged(f)
    <3>1. f \in present'
      BY <2>2
    <3>2. ASSUME NEW r \in Run, out[r] = "duplicate" PROVE FileOf(r) # f
      <4>1. pc[r] # "none"
        BY <3>2 DEF IInv, WorkerOK
      <4> QED BY <2>2, <4>1, RunIs DEF IInv, StartedOK, IsStaged, FileOf
    <3> QED BY <2>3, <3>1, <3>2 DEF Safe
  <2> QED BY <2>1, <2>2
<1> QED BY <1>3, <1>5, <1>7, <1>8, <1>9, <1>10, <1>11 DEF IInv

LEMMA EnqueueKeeps ==
  ASSUME IInv, NEW f \in File, Enqueue(f) \/ \E q \in Request : EnqueueUnanswered(q, f)
  PROVE  IInv'
<1>1. ~IsStaged(f)
  BY StagedIs DEF Enqueue, EnqueueUnanswered, IInv
<1>2. CASE Enqueue(f)
  BY <1>1, <1>2, AddKeeps DEF Enqueue, Add, IInv, Typed
<1>3. ASSUME NEW q \in Request, EnqueueUnanswered(q, f)
      PROVE  IInv'
  <2>1. /\ req' \in [Request -> Asking]
        /\ \A p \in Request : req'[p] = req[p] \/ req'[p].file = f
    BY <1>3 DEF EnqueueUnanswered, IInv, Typed, Asking
  <2> QED BY <1>1, <1>3, <2>1, AddKeeps DEF EnqueueUnanswered
<1> QED BY <1>2, <1>3

LEMMA ResumeKeeps ==
  ASSUME IInv, NEW q \in Request, AddResumed(q)
  PROVE  IInv'
<1>1. Target(q) \in File /\ IsStaged(Target(q))
  BY DEF AddResumed, RequestAt, Target, IInv, Typed, StagedInv, Asking
<1>2. /\ req' \in [Request -> Asking]
      /\ \A p \in Request : req'[p].pc = "idle" \/ req'[p] = req[p]
      /\ UNCHANGED <<present, marked, pc, out, imp, broken>>
  BY NoRequestTyped DEF AddResumed, RequestEnds, IInv, Typed, disk
<1>3. CASE Add(Target(q))
  <2>1. Queue(Target(q)) /\ excused' = (excused \/ Pending(Target(q)) # {})
    BY <1>3 DEF Add
  <2>2. excused' \in BOOLEAN /\ (~excused' => ~excused /\ Pending(Target(q)) = {})
    BY <2>1 DEF IInv, Typed
  <2> QED BY <1>1, <1>2, <2>1, <2>2, AddKeeps
<1>4. CASE UNCHANGED <<job, excused>>
  <2>1. Typed' /\ StagedInv'
    BY <1>2, <1>4 DEF IInv, Typed, StagedInv, IsStaged, Target
  <2> QED BY <1>2, <1>4, <2>1, UserKeeps
<1> QED BY <1>3, <1>4 DEF AddResumed
-----------------------------------------------------------------------------
LEMMA StepKeeps ==
  ASSUME IInv, [Next]_vars
  PROVE  IInv'
<1>1. CASE UNCHANGED vars
  <2>1. Typed' /\ StagedInv' /\ UNCHANGED <<present, job, pc, out, imp, broken, excused>>
    BY <1>1 DEF vars, IInv, Typed, StagedInv, IsStaged, Target
  <2> QED BY <2>1, UserKeeps
<1>2. ASSUME NEW j \in Job, Take(j) \/ Stall(j)
      PROVE  IInv'
  BY <1>2, TakeKeeps, StallKeeps
<1>3. ASSUME NEW r \in Run, Work(r) \/ Crash(r) \/ DeleteImport(r)
      PROVE  IInv'
  BY <1>3, Reads, Loads, CleanKeeps, EndKeeps, CrashKeeps, DeleteKeeps DEF Work
<1> QED BY <1>1, <1>2, <1>3, EnqueueKeeps, ResumeKeeps, UserSteps DEF Next

LEMMA SpecIInv == Spec => []IInv
<1> QED BY InitIInv, StepKeeps, PTL DEF Spec

(* Every reachable state of the uploads and their jobs is well typed, and  *)
(* at most one active import has the content.                              *)
THEOREM ImportTypeCorrect == Spec => []TypeOK
<1>1. IInv => TypeOK
  <2> SUFFICES ASSUME IInv PROVE TypeOK
    OBVIOUS
  <2>1. \A f : IsStaged(f) => f \in Staged
    BY DEF IsStaged, Staged
  <2>2. Cardinality(Imported) <= 1
    BY SoleCardinality DEF IInv
  <2> QED BY <2>1, <2>2 DEF IInv, Typed, StagedInv, TypeOK, State, Outcome, Step, Reading, Loading, Asking
<1> QED BY <1>1, SpecIInv, PTL

(* Half an import is taken back by the run that made it, whatever          *)
(* cancellations, resumptions, other jobs and a second run of the job come *)
(* between, unless that run's process crashed, its undo failed or its      *)
(* INSERT was answered with an error.                                      *)
THEOREM HalvesAreTakenBack == Spec => []HalfImportsAreTakenBack
<1>1. IInv => HalfImportsAreTakenBack
  BY DEF IInv
<1> QED BY <1>1, SpecIInv, PTL

(* The content of an upload is lost only after it was imported, or with one*)
(* of the excuses: a half import left behind, two runs on one file, and an *)
(* upload that the queue answered with an error.                           *)
THEOREM UploadsAreKept == Spec => []UploadLostOnlyToTwins
<1>1. IInv => UploadLostOnlyToTwins
  <2> SUFFICES ASSUME IInv, Staged # {}, present = {} PROVE excused
    BY DEF UploadLostOnlyToTwins
  <2>1. \E f \in File : IsStaged(f)
    BY StagedIs DEF IInv
  <2> QED BY <2>1 DEF IInv
<1> QED BY <1>1, SpecIInv, PTL
=============================================================================
