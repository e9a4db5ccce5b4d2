------------------------- MODULE MutationIdempotency -------------------------
(***************************************************************************)
(* One idempotency key (scope, actor, key) of mutation_idempotency_keys and*)
(* the requests that carry it: a client's attempts and retries of one      *)
(* mutation, or a wrong reuse of the key for another payload.              *)
(*                                                                         *)
(* Two kinds of route use the table.  A collection mutation reserves the   *)
(* key, runs its handler, and completes or releases the key itself.  The   *)
(* import route reserves it in a middleware, which also releases it when   *)
(* the response finishes or its connection closes.                         *)
(*                                                                         *)
(* A response is represented by the request it was made for.  How long a   *)
(* row has been there is left open: any row may have expired when a request*)
(* prunes (15 minutes while pending, 24 hours once completed).             *)
(***************************************************************************)
EXTENDS Naturals, FiniteSets

CONSTANTS
  Request,     \* requests that carry the key
  Payload,     \* what they ask for
  PayloadOf,   \* the payload of each request
  Bare,        \* requests sent without a fingerprint header
  NoPrint,     \* "no fingerprint"
  NoRequest,   \* "no request"
  Routes,      \* the routes considered
  MaxExpiries, \* bound: rows that expire
  MaxFaults    \* bound: failed statements, errors after a commit, and crashes

Route == {"collection", "import_file", "import_rows"}

ASSUME IdempotencyAssumption ==
  /\ IsFiniteSet(Request)
  /\ NoPrint \notin Payload
  /\ NoRequest \notin Request
  /\ PayloadOf \in [Request -> Payload]
  /\ Bare \subseteq Request
  /\ Routes \subseteq Route
  /\ MaxExpiries \in Nat
  /\ MaxFaults \in Nat

VARIABLES
  route,    \* the route the key belongs to
  row,      \* the key's row
  pc,       \* where each request is
  held,     \* state of an import request's reservation
  closing,  \* imports whose connection closed and whose release is under way
  effects,  \* requests whose mutation was committed
  replayed, \* the request whose response each request was answered with
  lapses,   \* events that let a mutation run again
  expiries, \* rows that expired
  faults    \* failed statements, errors after a commit, and crashes

vars == <<route, row, pc, held, closing, effects, replayed, lapses, expiries, faults>>

IsImport == route # "collection"

(* The fingerprint header of a request; an import without one is refused.  *)
Fingerprint(r) == IF r \in Bare /\ ~IsImport THEN NoPrint ELSE PayloadOf[r]

NoRow      == [st |-> "none", print |-> NoPrint, response |-> NoRequest]
Pending(r) == [st |-> "pending", print |-> Fingerprint(r), response |-> NoRequest]

Init ==
  /\ route \in Routes
  /\ row = NoRow
  /\ pc = [r \in Request |-> "idle"]
  /\ held = [r \in Request |-> "none"]
  /\ closing = {}
  /\ effects = {}
  /\ replayed = [r \in Request |-> NoRequest]
  /\ lapses = 0
  /\ expiries = 0
  /\ faults = 0

Goto(r, l) == pc' = [pc EXCEPT ![r] = l]
Fault      == faults < MaxFaults /\ faults' = faults + 1
Lapse(b)   == lapses' = lapses + IF b THEN 1 ELSE 0
-----------------------------------------------------------------------------
(* acquire: three statements, not one transaction.                         *)

(* pruneExpiredRows                                                        *)
Prune(r, expired) ==
  /\ pc[r] = "idle"
  /\ \/ /\ ~expired
        /\ UNCHANGED <<row, lapses, expiries>>
     \/ /\ expired
        /\ row # NoRow
        /\ expiries < MaxExpiries
        /\ expiries' = expiries + 1
        /\ row' = NoRow
        /\ Lapse(TRUE)
  /\ Goto(r, "insert")
  /\ UNCHANGED <<route, held, closing, effects, replayed, faults>>

\* Variant for the checks: a table without its unique index.
InsertableAlways == TRUE
(* INSERT ... ON CONFLICT DO NOTHING finds no row of the key.              *)
Insertable == row = NoRow

(* The handler runs; an import's middleware keeps the reservation.         *)
Acquired(r) ==
  /\ Goto(r, "run")
  /\ held' = [held EXCEPT ![r] = IF IsImport THEN "pending" ELSE "none"]

Insert(r) ==
  /\ pc[r] = "insert"
  /\ \/ /\ Insertable
        /\ row' = Pending(r)
        /\ Acquired(r)
     \/ /\ ~Insertable
        /\ Goto(r, "look")
        /\ UNCHANGED <<row, held>>
  /\ UNCHANGED <<route, closing, effects, replayed, lapses, expiries, faults>>

\* Variant for the checks: fingerprints are not compared.
MismatchNever(r) == FALSE
Mismatch(r) ==
  NoPrint \notin {Fingerprint(r), row.print} /\ row.print # Fingerprint(r)

(* The SELECT after a conflict: no row, another payload, a recorded        *)
(* response, or a mutation in progress.                                    *)
Look(r) ==
  /\ pc[r] = "look"
  /\ \/ /\ row = NoRow
        /\ Acquired(r)
        /\ Lapse(TRUE)
        /\ UNCHANGED replayed
     \/ /\ row # NoRow
        /\ Goto(r, "done")
        /\ replayed' = [replayed EXCEPT ![r] =
                          IF ~Mismatch(r) THEN row.response ELSE NoRequest]
        /\ UNCHANGED <<held, lapses>>
  /\ UNCHANGED <<route, row, closing, effects, expiries, faults>>
-----------------------------------------------------------------------------
(* The handler.  Its mutation is committed or fails (an import that fails  *)
(* half-way deletes what it inserted; when that fails too, the rest stays  *)
(* and counts as committed).  The unique index on (creator, content hash)  *)
(* rejects a file that was imported before.                                *)
Rejected(r) ==
  /\ route = "import_file"
  /\ \E q \in effects : PayloadOf[q] = PayloadOf[r]

Commit(r) ==
  /\ pc[r] = "run"
  /\ ~Rejected(r)
  /\ effects' = effects \cup {r}
  /\ Goto(r, "complete")
  /\ UNCHANGED <<route, row, held, closing, replayed, lapses, expiries, faults>>

HandlerFails(r) ==
  /\ pc[r] = "run"
  /\ Goto(r, "release")
  /\ UNCHANGED <<route, row, held, closing, effects, replayed, lapses, expiries, faults>>

(* The mutation is committed and what follows it throws.                   *)
CommitThenThrow(r) ==
  /\ Fault
  /\ pc[r] = "run"
  /\ ~Rejected(r)
  /\ effects' = effects \cup {r}
  /\ Goto(r, "release")
  /\ UNCHANGED <<route, row, held, closing, replayed, lapses, expiries>>

(* An import whose reservation is not pending any more is not completed.   *)
CheckHeld(r) ==
  /\ pc[r] = "complete"
  /\ Goto(r, IF IsImport /\ held[r] # "pending" THEN "respond" ELSE "record")
  /\ UNCHANGED <<route, row, held, closing, effects, replayed, lapses, expiries, faults>>

\* Variant for the checks: the response is left out of the UPDATE.
RecordState(r) ==
  IF row = NoRow
  THEN UNCHANGED row
  ELSE row' = [row EXCEPT !.st = "completed"]
(* complete: the key's row, whoever inserted it, gets this response.       *)
Record(r) ==
  IF row = NoRow
  THEN UNCHANGED row
  ELSE row' = [row EXCEPT !.st = "completed", !.response = r]

Complete(r) ==
  /\ pc[r] = "record"
  /\ Record(r)
  /\ Goto(r, "respond")
  /\ held' = [held EXCEPT ![r] = IF IsImport THEN "completed" ELSE "none"]
  /\ UNCHANGED <<route, closing, effects, replayed, lapses, expiries, faults>>

(* complete throws, before or after its UPDATE took place.                 *)
CompleteThrows(r) ==
  /\ Fault
  /\ pc[r] = "record"
  /\ UNCHANGED row \/ Record(r)
  /\ Goto(r, "release")
  /\ UNCHANGED <<route, held, closing, effects, replayed, lapses, expiries>>

(* DELETE ... WHERE key AND state = 'pending', whoever inserted the row.   *)
Droppable == row.st = "pending"

(* The key is free again although r's mutation was or may yet be committed.*)
DropRow(r) ==
  /\ row' = IF Droppable THEN NoRow ELSE row
  /\ Lapse(Droppable /\ (r \in effects \/ pc[r] = "run"))

(* release, by the collection handler or the import controller.  The latter*)
(* waits for a release under way and does nothing after it.                *)
Release(r) ==
  /\ pc[r] = "release"
  /\ r \notin closing
  /\ \/ /\ held[r] # "released"
        /\ DropRow(r)
        /\ held' = [held EXCEPT ![r] = IF @ = "pending" THEN "released" ELSE @]
     \/ /\ held[r] = "released"
        /\ UNCHANGED <<row, lapses, held>>
  /\ Goto(r, "respond")
  /\ UNCHANGED <<route, closing, effects, replayed, expiries, faults>>

ReleaseThrows(r) ==
  /\ Fault
  /\ pc[r] = "release"
  /\ r \notin closing
  /\ held[r] # "released"
  /\ Goto(r, "respond")
  /\ UNCHANGED <<route, row, held, closing, effects, replayed, lapses, expiries>>

(* The response is sent; its finish event releases an import's reservation *)
(* that is still pending.                                                  *)
Respond(r) ==
  /\ pc[r] = "respond"
  /\ Goto(r, "done")
  /\ closing' = IF held[r] = "pending" THEN closing \cup {r} ELSE closing
  /\ UNCHANGED <<route, row, held, effects, replayed, lapses, expiries, faults>>

(* The client's connection closes while an import runs.                    *)
Close(r) ==
  /\ pc[r] \in {"run", "complete", "record"}
  /\ held[r] = "pending"
  /\ r \notin closing
  /\ closing' = closing \cup {r}
  /\ UNCHANGED <<route, row, pc, held, effects, replayed, lapses, expiries, faults>>

(* The DELETE that the finish or close event started.                      *)
CloseRelease(r) ==
  /\ r \in closing
  /\ closing' = closing \ {r}
  /\ DropRow(r)
  /\ held' = [held EXCEPT ![r] = "released"]
  /\ UNCHANGED <<route, pc, effects, replayed, expiries, faults>>

(* It fails, for the controller too when it was waiting for it.            *)
CloseReleaseThrows(r) ==
  /\ Fault
  /\ r \in closing
  /\ closing' = closing \ {r}
  /\ pc' = IF pc[r] = "release" THEN [pc EXCEPT ![r] = "respond"] ELSE pc
  /\ UNCHANGED <<route, row, held, effects, replayed, lapses, expiries>>

(* The request's process dies; acquire's answer being lost is the same.    *)
Crash(r) ==
  /\ Fault
  /\ pc[r] \notin {"idle", "done"}
  /\ Goto(r, "done")
  /\ closing' = closing \ {r}
  /\ UNCHANGED <<route, row, held, effects, replayed, lapses, expiries>>
-----------------------------------------------------------------------------
Next ==
  \E r \in Request :
    \/ \E expired \in BOOLEAN : Prune(r, expired)
    \/ Insert(r) \/ Look(r)
    \/ Commit(r) \/ HandlerFails(r) \/ CommitThenThrow(r)
    \/ CheckHeld(r) \/ Complete(r) \/ CompleteThrows(r)
    \/ Release(r) \/ ReleaseThrows(r) \/ Respond(r) \/ Close(r)
    \/ CloseRelease(r) \/ CloseReleaseThrows(r) \/ Crash(r)

Spec == Init /\ [][Next]_vars
-----------------------------------------------------------------------------
TypeOK ==
  /\ route \in Routes
  /\ row \in [st : {"none", "pending", "completed"},
              print : Payload \cup {NoPrint}, response : Request \cup {NoRequest}]
  /\ row.st = "none" <=> row = NoRow
  /\ row.st = "completed" <=> row.response \in Request
  /\ pc \in [Request -> {"idle", "insert", "look", "run", "complete", "record",
                         "release", "respond", "done"}]
  /\ held \in [Request -> {"none", "pending", "completed", "released"}]
  /\ closing \in SUBSET Request
  /\ effects \in SUBSET Request
  /\ replayed \in [Request -> Request \cup {NoRequest}]
  /\ lapses \in Nat
  /\ expiries \in 0 .. MaxExpiries
  /\ faults \in 0 .. MaxFaults

(* Every execution of the mutation beyond the first is paid for by a lapse:*)
(* a row that expired, an acquire that found the conflicting row gone, or a*)
(* release by a request whose mutation was or may still be committed.      *)
(* Overlapping requests, failed handlers, late completions and late        *)
(* releases of another request's row never cause one by themselves.        *)
RepeatsPaidFor == Cardinality(effects) <= 1 + lapses

(* A replayed response is that of a mutation that was committed, and as    *)
(* long as nothing lapsed, of one with the payload of the request.         *)
ReplayTruthful ==
  \A r \in Request : replayed[r] # NoRequest =>
    /\ replayed[r] \in effects
    /\ lapses = 0 /\ NoPrint \notin {Fingerprint(r), Fingerprint(replayed[r])}
         => PayloadOf[replayed[r]] = PayloadOf[r]

(* "mutationIdempotencyKeys table prevents duplicate mutations from network*)
(* retries" (docs/SYSTEM_ANALYSIS.md).                                     *)
NoDuplicateMutation == Cardinality(effects) <= 1
=============================================================================
