---------------------- MODULE MutationIdempotencyProofs ----------------------
(***************************************************************************)
(* Proofs about the idempotency key for any requests, payloads and bounds. *)
(* The argument for RepeatsPaidFor counts the requests that have committed *)
(* or may still commit their mutation or give the key back, and the key    *)
(* itself while it is free: only a lapse raises that sum above one.        *)
(***************************************************************************)
EXTENDS MutationIdempotency, FiniteSetTheorems, TLAPS

(* Committed, may still commit, or may still delete the row of the key.    *)
IsSpent(r) ==
  \/ r \in effects
  \/ pc[r] = "run"
  \/ IsImport /\ held[r] = "pending"
  \/ ~IsImport /\ pc[r] = "release"
Spent == {r \in Request : IsSpent(r)}
Slots == IF row = NoRow THEN 1 ELSE 0

HeldInv ==
  \A r \in Request :
    /\ held[r] = "completed" => r \in effects
    /\ pc[r] \in {"complete", "record"} => r \in effects
    /\ IsImport /\ pc[r] \in {"run", "complete", "record", "release"} => held[r] # "none"
    /\ ~IsImport => held[r] = "none"
    /\ r \in closing => IsImport /\ held[r] \in {"pending", "completed"}
RespInv == row.response # NoRequest => row.response \in effects
PaidInv == Cardinality(Spent) + Slots <= 1 + lapses
(* Without a lapse the row carries the fingerprint of the one request that *)
(* committed or may commit.                                                *)
PrintInv ==
  lapses = 0 /\ row # NoRow =>
    \A r \in Spent : row.print = Fingerprint(r)

BaseInv == TypeOK /\ HeldInv /\ RespInv
IInv    == BaseInv /\ PaidInv /\ PrintInv /\ ReplayTruthful
-----------------------------------------------------------------------------
LEMMA SpentFinite ==
  /\ IsFiniteSet(Spent) /\ Cardinality(Spent) \in Nat
  /\ IsFiniteSet(Spent') /\ Cardinality(Spent') \in Nat
<1>1. Spent \subseteq Request /\ Spent' \subseteq Request
  BY DEF Spent
<1>2. IsFiniteSet(Spent) /\ IsFiniteSet(Spent')
  BY <1>1, IdempotencyAssumption, FS_Subset
<1> QED BY <1>2, FS_CardinalityType

LEMMA InitIInv == Init => IInv
<1> SUFFICES ASSUME Init PROVE IInv
  OBVIOUS
<1> USE IdempotencyAssumption
<1>1. BaseInv
  BY DEF Init, BaseInv, TypeOK, HeldInv, RespInv, NoRow
<1>2. Spent = {}
  BY DEF Init, Spent, IsSpent
<1>3. PaidInv
  BY <1>2, FS_EmptySet DEF Init, PaidInv, Slots
<1>4. PrintInv /\ ReplayTruthful
  BY <1>2 DEF Init, PrintInv, ReplayTruthful
<1> QED BY <1>1, <1>3, <1>4 DEF IInv
-----------------------------------------------------------------------------
(* Types, and what a request's place says about its reservation.           *)
LEMMA AcquireBase ==
  ASSUME BaseInv, NEW r \in Request,
         (\E expired \in BOOLEAN : Prune(r, expired)) \/ Insert(r) \/ Look(r)
  PROVE  BaseInv'
<1> USE IdempotencyAssumption DEF BaseInv, Goto, Lapse, NoRow, Pending, Fingerprint, IsImport
<1>1. CASE \E expired \in BOOLEAN : Prune(r, expired)
  BY <1>1 DEF Prune, TypeOK, HeldInv, RespInv
<1>2. CASE Insert(r)
  <2> USE <1>2 DEF Insert, Insertable, Acquired
  <2>1. TypeOK'
    BY DEF TypeOK
  <2>2. HeldInv' /\ RespInv'
    BY DEF TypeOK, HeldInv, RespInv
  <2> QED BY <2>1, <2>2
<1>3. CASE Look(r)
  <2> USE <1>3 DEF Look, Acquired
  <2>1. TypeOK'
    BY DEF TypeOK
  <2>2. HeldInv' /\ RespInv'
    BY DEF TypeOK, HeldInv, RespInv
  <2> QED BY <2>1, <2>2
<1> QED BY <1>1, <1>2, <1>3

LEMMA HandleBase ==
  ASSUME BaseInv, NEW r \in Request,
         Commit(r) \/ HandlerFails(r) \/ CommitThenThrow(r) \/ CheckHeld(r)
  PROVE  BaseInv'
<1> USE IdempotencyAssumption DEF BaseInv, Goto, Fault, IsImport
<1>1. CASE Commit(r)
  BY <1>1 DEF Commit, TypeOK, HeldInv, RespInv, NoRow
<1>2. CASE HandlerFails(r)
  BY <1>2 DEF HandlerFails, TypeOK, HeldInv, RespInv, NoRow
<1>3. CASE CommitThenThrow(r)
  BY <1>3 DEF CommitThenThrow, TypeOK, HeldInv, RespInv, NoRow
<1>4. CASE CheckHeld(r)
  BY <1>4 DEF CheckHeld, TypeOK, HeldInv, RespInv, NoRow
<1> QED BY <1>1, <1>2, <1>3, <1>4

LEMMA CompleteBase ==
  ASSUME BaseInv, NEW r \in Request, Complete(r) \/ CompleteThrows(r)
  PROVE  BaseInv'
<1> USE IdempotencyAssumption DEF BaseInv, Goto, Fault, IsImport
<1>0. pc[r] = "record" /\ r \in effects
  BY DEF Complete, CompleteThrows, HeldInv
<1>1. ASSUME Record(r) \/ UNCHANGED row, UNCHANGED <<effects>>
      PROVE  /\ row' \in [st : {"none", "pending", "completed"},
                          print : Payload \cup {NoPrint},
                          response : Request \cup {NoRequest}]
             /\ row'.st = "none" <=> row' = NoRow
             /\ row'.st = "completed" <=> row'.response \in Request
             /\ RespInv'
  <2>1. CASE UNCHANGED row
    BY <1>1, <2>1 DEF TypeOK, RespInv, NoRow
  <2>2. CASE row' = [row EXCEPT !.st = "completed", !.response = r]
    <3>1. row \in [st : {"none", "pending", "completed"},
                   print : Payload \cup {NoPrint},
                   response : Request \cup {NoRequest}]
      BY DEF TypeOK
    <3>2. /\ row' \in [st : {"none", "pending", "completed"},
                       print : Payload \cup {NoPrint},
                       response : Request \cup {NoRequest}]
          /\ row'.st = "completed"
          /\ row'.response = r
      BY <2>2, <3>1
    <3>3. row' # NoRow
      BY <3>2 DEF NoRow
    <3> QED BY <1>0, <1>1, <3>2, <3>3 DEF RespInv
  <2> QED BY <1>1, <2>1, <2>2 DEF Record
<1>2. CASE Complete(r)
  <2>1. TypeOK' /\ RespInv'
    BY <1>1, <1>2 DEF Complete, TypeOK, NoRow
  <2>2. HeldInv'
    BY <1>0, <1>2 DEF Complete, TypeOK, HeldInv
  <2> QED BY <2>1, <2>2
<1>3. CASE CompleteThrows(r)
  <2>1. TypeOK' /\ RespInv'
    BY <1>1, <1>3 DEF CompleteThrows, TypeOK, NoRow
  <2>2. HeldInv'
    BY <1>0, <1>3 DEF CompleteThrows, TypeOK, HeldInv
  <2> QED BY <2>1, <2>2
<1> QED BY <1>2, <1>3

LEMMA ReleaseBase ==
  ASSUME BaseInv, NEW r \in Request,
         \/ Release(r) \/ ReleaseThrows(r) \/ Respond(r)
         \/ Close(r) \/ CloseRelease(r) \/ CloseReleaseThrows(r) \/ Crash(r)
  PROVE  BaseInv'
<1> USE IdempotencyAssumption
    DEF BaseInv, Goto, Fault, IsImport, DropRow, Droppable, Lapse, NoRow
<1>1. CASE Release(r)
  BY <1>1 DEF Release, TypeOK, HeldInv, RespInv
<1>2. CASE ReleaseThrows(r)
  BY <1>2 DEF ReleaseThrows, TypeOK, HeldInv, RespInv
<1>3. CASE Respond(r)
  BY <1>3 DEF Respond, TypeOK, HeldInv, RespInv
<1>4. CASE Close(r)
  BY <1>4 DEF Close, TypeOK, HeldInv, RespInv
<1>5. CASE CloseRelease(r)
  BY <1>5 DEF CloseRelease, TypeOK, HeldInv, RespInv
<1>6. CASE CloseReleaseThrows(r)
  BY <1>6 DEF CloseReleaseThrows, TypeOK, HeldInv, RespInv
<1>7. CASE Crash(r)
  BY <1>7 DEF Crash, TypeOK, HeldInv, RespInv
<1> QED BY <1>1, <1>2, <1>3, <1>4, <1>5, <1>6, <1>7

LEMMA BaseKeeps == BaseInv /\ [Next]_vars => BaseInv'
<1> SUFFICES ASSUME BaseInv, [Next]_vars PROVE BaseInv'
  OBVIOUS
<1>1. CASE UNCHANGED vars
  BY <1>1 DEF vars, BaseInv, TypeOK, HeldInv, RespInv, NoRow, IsImport
<1>2. CASE Next
  BY <1>2, AcquireBase, HandleBase, CompleteBase, ReleaseBase DEF Next
<1> QED BY <1>1, <1>2
-----------------------------------------------------------------------------
(* Only an acquire adds a request to the count.                            *)
LEMMA SpentShrinks ==
  ASSUME BaseInv, NEW r \in Request,
         \/ Commit(r) \/ HandlerFails(r) \/ CommitThenThrow(r)
         \/ CheckHeld(r) \/ Complete(r) \/ CompleteThrows(r) \/ Release(r) \/ ReleaseThrows(r)
         \/ Respond(r) \/ Close(r) \/ CloseRelease(r) \/ CloseReleaseThrows(r)
         \/ Crash(r)
  PROVE  Spent' \subseteq Spent
<1> USE DEF Goto, IsImport, Fault
<1>0. /\ pc \in [Request -> {"idle", "insert", "look", "run", "complete", "record",
                             "release", "respond", "done"}]
      /\ held \in [Request -> {"none", "pending", "completed", "released"}]
  BY DEF BaseInv, TypeOK
<1>1. CASE Commit(r) \/ HandlerFails(r) \/ CommitThenThrow(r)
  BY <1>0, <1>1 DEF BaseInv, HeldInv, Commit, HandlerFails, CommitThenThrow, Spent, IsSpent
<1>2. CASE CheckHeld(r) \/ Complete(r) \/ CompleteThrows(r)
  BY <1>0, <1>2 DEF BaseInv, HeldInv, CheckHeld, Complete, CompleteThrows, Spent, IsSpent
<1>3. CASE Release(r) \/ CloseRelease(r)
  BY <1>0, <1>3 DEF Release, CloseRelease, Spent, IsSpent
<1>4. CASE ReleaseThrows(r) \/ Respond(r) \/ Close(r) \/ CloseReleaseThrows(r) \/ Crash(r)
  BY <1>0, <1>4 DEF ReleaseThrows, Respond, Close, CloseReleaseThrows, Crash, Spent, IsSpent
<1> QED BY <1>1, <1>2, <1>3, <1>4

(* Complete keeps the row's fingerprint, and the others but acquire and the*)
(* releases leave the row alone.                                           *)
LEMMA RowKept ==
  ASSUME BaseInv, NEW r \in Request,
         \/ Commit(r) \/ HandlerFails(r) \/ CommitThenThrow(r)
         \/ CheckHeld(r) \/ Complete(r) \/ CompleteThrows(r) \/ ReleaseThrows(r)
         \/ Respond(r) \/ Close(r) \/ CloseReleaseThrows(r) \/ Crash(r)
  PROVE  /\ row' = NoRow <=> row = NoRow
         /\ row'.print = row.print
         /\ lapses' = lapses
<1>1. CASE UNCHANGED row
  BY <1>1 DEF Commit, HandlerFails, CommitThenThrow, CheckHeld, Complete, CompleteThrows,
              ReleaseThrows, Respond, Close, CloseReleaseThrows, Crash, NoRow
<1>2. CASE Record(r) /\ (Complete(r) \/ CompleteThrows(r)) /\ row # NoRow /\ row' # row
  <2>1. row' = [row EXCEPT !.st = "completed", !.response = r]
    BY <1>2 DEF Record
  <2>2. row \in [st : {"none", "pending", "completed"},
                 print : Payload \cup {NoPrint},
                 response : Request \cup {NoRequest}]
    BY DEF BaseInv, TypeOK
  <2>3. row'.st = "completed" /\ row'.print = row.print
    BY ONLY <2>1, <2>2
  <2>4. row' # NoRow
    BY <2>3 DEF NoRow
  <2> QED BY <1>2, <2>3, <2>4 DEF Complete, CompleteThrows
<1> QED
  BY <1>1, <1>2 DEF Record, Commit, HandlerFails, CommitThenThrow, CheckHeld, Complete, CompleteThrows,
              ReleaseThrows, Respond, Close, CloseReleaseThrows, Crash
-----------------------------------------------------------------------------
(* Counting.                                                               *)
LEMMA Arithmetic ==
  ASSUME NEW c \in Nat, NEW d \in Nat, NEW s \in Nat, NEW t \in Nat,
         NEW l \in Nat, NEW m \in Nat, c + s <= 1 + l
  PROVE  /\ d <= c /\ t + l <= s + m => d + t <= 1 + m
         /\ d <= c + 1 /\ t + l + 1 <= s + m => d + t <= 1 + m
OBVIOUS

LEMMA PaidKept ==
  ASSUME BaseInv, BaseInv', PaidInv,
         Spent' \subseteq Spent, Slots' + lapses <= Slots + lapses'
  PROVE  PaidInv'
<1>1. Cardinality(Spent') <= Cardinality(Spent)
  BY SpentFinite, FS_Subset
<1>2. lapses \in Nat /\ lapses' \in Nat
  BY DEF BaseInv, TypeOK
<1>3. Slots \in Nat /\ Slots' \in Nat
  BY DEF Slots
<1>4. Cardinality(Spent) + Slots <= 1 + lapses
  BY DEF PaidInv
<1>5. Cardinality(Spent) \in Nat /\ Cardinality(Spent') \in Nat
  BY SpentFinite
<1>6. Cardinality(Spent') + Slots' <= 1 + lapses'
  BY <1>1, <1>2, <1>3, <1>4, <1>5, Arithmetic
<1> QED BY <1>6 DEF PaidInv

(* A request joins: it takes the free key, or a lapse pays for it.         *)
LEMMA PaidJoin ==
  ASSUME BaseInv, BaseInv', PaidInv, NEW r \in Request,
         Spent' \subseteq Spent \cup {r},
         Slots' + lapses + 1 <= Slots + lapses'
  PROVE  PaidInv'
<1>1. IsFiniteSet(Spent \cup {r}) /\ Cardinality(Spent \cup {r}) <= Cardinality(Spent) + 1
  <2>1. IsFiniteSet(Spent) /\ Cardinality(Spent) \in Nat
    BY SpentFinite
  <2> QED BY <2>1, FS_AddElement
<1>2. Cardinality(Spent') <= Cardinality(Spent \cup {r})
  BY <1>1, FS_Subset
<1>3. Cardinality(Spent \cup {r}) \in Nat
  BY <1>1, FS_CardinalityType
<1>4. lapses \in Nat /\ lapses' \in Nat
  BY DEF BaseInv, TypeOK
<1>5. Slots \in Nat /\ Slots' \in Nat
  BY DEF Slots
<1>6. Cardinality(Spent) + Slots <= 1 + lapses
  BY DEF PaidInv
<1>7. Cardinality(Spent) \in Nat /\ Cardinality(Spent') \in Nat
  BY SpentFinite
<1>8. Cardinality(Spent') <= Cardinality(Spent) + 1
  BY <1>1, <1>2, <1>3, <1>7
<1>9. Cardinality(Spent') + Slots' <= 1 + lapses'
  BY <1>4, <1>5, <1>6, <1>7, <1>8, Arithmetic
<1> QED BY <1>9 DEF PaidInv

(* A request leaves without having committed and may free the key.         *)
LEMMA PaidLeave ==
  ASSUME BaseInv, BaseInv', PaidInv, NEW r \in Spent,
         Spent' \subseteq Spent \ {r}, lapses' = lapses
  PROVE  PaidInv'
<1>1. IsFiniteSet(Spent \ {r}) /\ Cardinality(Spent \ {r}) = Cardinality(Spent) - 1
  BY SpentFinite, FS_RemoveElement
<1>2. Cardinality(Spent') <= Cardinality(Spent \ {r})
  BY <1>1, FS_Subset
<1>4. lapses \in Nat
  BY DEF BaseInv, TypeOK
<1>5. Slots \in 0 .. 1 /\ Slots' \in 0 .. 1
  BY DEF Slots
<1> QED BY <1>1, <1>2, <1>4, <1>5, SpentFinite DEF PaidInv
-----------------------------------------------------------------------------
(* Each action keeps the count.                                            *)
LEMMA AcquirePaid ==
  ASSUME BaseInv, BaseInv', PaidInv, NEW r \in Request,
         (\E expired \in BOOLEAN : Prune(r, expired)) \/ Insert(r) \/ Look(r)
  PROVE  PaidInv'
<1> USE DEF Goto, Lapse, IsImport, Acquired
<1>0. lapses \in Nat /\ pc \in [Request -> {"idle", "insert", "look", "run",
         "complete", "record", "release", "respond", "done"}]
      /\ held \in [Request -> {"none", "pending", "completed", "released"}]
  BY DEF BaseInv, TypeOK
<1>1. CASE \E expired \in BOOLEAN : Prune(r, expired)
  <2>1. Spent' \subseteq Spent
    BY <1>0, <1>1 DEF Prune, Spent, IsSpent
  <2>2. Slots' + lapses <= Slots + lapses'
    BY <1>0, <1>1 DEF Prune, Slots
  <2> QED BY <2>1, <2>2, PaidKept
<1>2. CASE Insert(r)
  <2>1. CASE Insertable
    <3>1. Spent' \subseteq Spent \cup {r}
      BY <1>0, <1>2 DEF Insert, Spent, IsSpent
    <3>2. row' # NoRow
      BY <1>2, <2>1 DEF Insert, Pending, NoRow
    <3>3. Slots' + lapses + 1 <= Slots + lapses'
      BY <1>0, <1>2, <2>1, <3>2 DEF Insert, Insertable, Slots
    <3> QED BY <3>1, <3>3, PaidJoin
  <2>2. CASE ~Insertable
    <3>1. Spent' \subseteq Spent
      BY <1>0, <1>2, <2>2 DEF Insert, Spent, IsSpent
    <3>2. Slots' + lapses <= Slots + lapses'
      BY <1>0, <1>2, <2>2 DEF Insert, Slots
    <3> QED BY <3>1, <3>2, PaidKept
  <2> QED BY <2>1, <2>2
<1>3. CASE Look(r)
  <2>1. CASE row = NoRow
    <3>1. Spent' \subseteq Spent \cup {r}
      BY <1>0, <1>3 DEF Look, Spent, IsSpent
    <3>2. Slots' + lapses + 1 <= Slots + lapses'
      BY <1>0, <1>3, <2>1 DEF Look, Slots
    <3> QED BY <3>1, <3>2, PaidJoin
  <2>2. CASE row # NoRow
    <3>1. Spent' \subseteq Spent
      BY <1>0, <1>3, <2>2 DEF Look, Spent, IsSpent
    <3>2. Slots' + lapses <= Slots + lapses'
      BY <1>0, <1>3, <2>2 DEF Look, Slots
    <3> QED BY <3>1, <3>2, PaidKept
  <2> QED BY <2>1, <2>2
<1> QED BY <1>1, <1>2, <1>3

LEMMA HandlePaid ==
  ASSUME BaseInv, BaseInv', PaidInv, NEW r \in Request,
         \/ Commit(r) \/ HandlerFails(r) \/ CommitThenThrow(r)
         \/ CheckHeld(r) \/ Complete(r) \/ CompleteThrows(r) \/ ReleaseThrows(r)
         \/ Respond(r) \/ Close(r) \/ CloseReleaseThrows(r) \/ Crash(r)
  PROVE  PaidInv'
<1>1. Spent' \subseteq Spent
  BY SpentShrinks
<1>2. lapses' = lapses /\ Slots' = Slots
  BY RowKept DEF Slots
<1>3. lapses \in Nat /\ Slots \in Nat
  BY DEF BaseInv, TypeOK, Slots
<1>4. Slots' + lapses <= Slots + lapses'
  BY <1>2, <1>3
<1> QED BY <1>1, <1>4, PaidKept

(* A request that deletes the row has committed or may still commit, which *)
(* is a lapse, or has failed, and then it leaves the count.                *)
LEMMA ReleasePaid ==
  ASSUME BaseInv, BaseInv', PaidInv, NEW r \in Request,
         Release(r) \/ CloseRelease(r)
  PROVE  PaidInv'
<1> USE DEF Goto, IsImport, DropRow, Lapse
<1>0. /\ lapses \in Nat
      /\ pc \in [Request -> {"idle", "insert", "look", "run", "complete", "record",
                             "release", "respond", "done"}]
      /\ held \in [Request -> {"none", "pending", "completed", "released"}]
  BY DEF BaseInv, TypeOK
<1>1. Spent' \subseteq Spent
  BY SpentShrinks
<1>2. CASE Release(r) /\ held[r] = "released"
  <2>1. Slots' + lapses <= Slots + lapses'
    BY <1>0, <1>2 DEF Release, Slots
  <2> QED BY <1>1, <2>1, PaidKept
<1>3. CASE DropRow(r) /\ (r \in effects \/ pc[r] = "run" \/ ~Droppable)
  <2>1. Slots' + lapses <= Slots + lapses'
    BY <1>0, <1>3 DEF Slots, Droppable, NoRow
  <2> QED BY <1>1, <2>1, PaidKept
<1>4. CASE /\ DropRow(r) /\ r \notin effects /\ pc[r] # "run"
           /\ ~ (Release(r) /\ held[r] = "released")
  <2>1. lapses' = lapses
    BY <1>0, <1>4
  <2>2. r \in Spent /\ r \notin Spent'
    <3>1. CASE Release(r)
      BY <1>0, <1>4, <3>1 DEF Release, Spent, IsSpent, BaseInv, HeldInv
    <3>2. CASE CloseRelease(r)
      BY <1>0, <1>4, <3>2 DEF CloseRelease, Spent, IsSpent, BaseInv, HeldInv
    <3> QED BY <3>1, <3>2
  <2> QED BY <1>1, <2>1, <2>2, PaidLeave
<1> QED BY <1>2, <1>3, <1>4 DEF Release, CloseRelease

LEMMA PaidKeeps == BaseInv /\ BaseInv' /\ PaidInv /\ [Next]_vars => PaidInv'
<1> SUFFICES ASSUME BaseInv, BaseInv', PaidInv, [Next]_vars PROVE PaidInv'
  OBVIOUS
<1>1. CASE UNCHANGED vars
  <2>1. Spent' = Spent /\ Slots' = Slots /\ lapses' = lapses
    BY <1>1 DEF vars, Spent, IsSpent, IsImport, Slots, NoRow
  <2> QED BY <2>1 DEF PaidInv
<1>2. CASE Next
  BY <1>2, AcquirePaid, HandlePaid, ReleasePaid DEF Next
<1> QED BY <1>1, <1>2
-----------------------------------------------------------------------------
(* Fingerprints and replays.                                               *)
LEMMA PrintKept ==
  ASSUME PrintInv, Spent' \subseteq Spent, route' = route,
         lapses' = 0 => lapses = 0,
         row' # NoRow => row # NoRow /\ row'.print = row.print
  PROVE  PrintInv'
BY DEF PrintInv, Spent, Fingerprint, IsImport, NoRow

LEMMA PrintKeeps ==
  ASSUME BaseInv, BaseInv', PaidInv, PrintInv, [Next]_vars
  PROVE  PrintInv'
<1> USE DEF Goto, Lapse
<1>0. /\ lapses \in Nat
      /\ pc \in [Request -> {"idle", "insert", "look", "run", "complete", "record",
                             "release", "respond", "done"}]
      /\ held \in [Request -> {"none", "pending", "completed", "released"}]
  BY DEF BaseInv, TypeOK
<1>1. CASE UNCHANGED vars
  <2>1. Spent' = Spent
    BY <1>1 DEF vars, Spent, IsSpent, IsImport
  <2> QED BY <1>1, <2>1, PrintKept DEF vars, NoRow
<1>2. ASSUME NEW r \in Request, \E expired \in BOOLEAN : Prune(r, expired)
      PROVE  PrintInv'
  <2>1. Spent' \subseteq Spent
    BY <1>0, <1>2 DEF Prune, Spent, IsSpent, IsImport
  <2>2. route' = route /\ (lapses' = 0 => lapses = 0)
    BY <1>0, <1>2 DEF Prune
  <2>3. row' # NoRow => row # NoRow /\ row'.print = row.print
    BY <1>2 DEF Prune, NoRow
  <2> QED BY <2>1, <2>2, <2>3, PrintKept
<1>3. ASSUME NEW r \in Request, Insert(r)
      PROVE  PrintInv'
  <2>1. CASE Insertable
    <3>1. lapses = 0 => Spent = {}
      <4>1. Slots = 1
        BY <2>1 DEF Insertable, Slots
      <4>2. lapses = 0 => Cardinality(Spent) = 0
        BY <4>1, SpentFinite DEF PaidInv
      <4> QED BY <4>2, SpentFinite, FS_EmptySet
    <3>2. Spent' \subseteq Spent \cup {r}
      BY <1>0, <1>3, <2>1 DEF Insert, Acquired, Spent, IsSpent, IsImport
    <3>3. row'.print = Fingerprint(r) /\ route' = route /\ lapses' = lapses
      BY <1>3, <2>1 DEF Insert, Pending
    <3>4. \A q \in Request : Fingerprint(q)' = Fingerprint(q)
      BY <3>3 DEF Fingerprint, IsImport
    <3>5. Spent' \subseteq Request
      BY DEF Spent
    <3> QED BY <3>1, <3>2, <3>3, <3>4, <3>5 DEF PrintInv
  <2>2. CASE ~Insertable
    <3>1. Spent' \subseteq Spent
      BY <1>0, <1>3, <2>2 DEF Insert, Spent, IsSpent, IsImport
    <3> QED BY <1>3, <2>2, <3>1, PrintKept DEF Insert, NoRow
  <2> QED BY <2>1, <2>2
<1>4. ASSUME NEW r \in Request, Look(r)
      PROVE  PrintInv'
  <2>1. CASE row = NoRow
    <3>1. lapses' # 0
      BY <1>0, <1>4, <2>1 DEF Look
    <3> QED BY <3>1 DEF PrintInv
  <2>2. CASE row # NoRow
    <3>1. Spent' \subseteq Spent
      BY <1>0, <1>4, <2>2 DEF Look, Spent, IsSpent, IsImport
    <3> QED BY <1>4, <2>2, <3>1, PrintKept DEF Look, NoRow
  <2> QED BY <2>1, <2>2
<1>5. ASSUME NEW r \in Request,
             \/ Commit(r) \/ HandlerFails(r) \/ CommitThenThrow(r)
             \/ CheckHeld(r) \/ Complete(r) \/ CompleteThrows(r) \/ ReleaseThrows(r)
             \/ Respond(r) \/ Close(r) \/ CloseReleaseThrows(r) \/ Crash(r)
      PROVE  PrintInv'
  <2>1. Spent' \subseteq Spent
    BY <1>5, SpentShrinks
  <2>2. (row' = NoRow <=> row = NoRow) /\ row'.print = row.print /\ lapses' = lapses
    BY <1>5, RowKept
  <2>3. route' = route
    BY <1>5 DEF Commit, HandlerFails, CommitThenThrow, CheckHeld, Complete, CompleteThrows,
                ReleaseThrows, Respond, Close, CloseReleaseThrows, Crash
  <2> QED BY <2>1, <2>2, <2>3, PrintKept DEF NoRow
<1>6. ASSUME NEW r \in Request, Release(r) \/ CloseRelease(r)
      PROVE  PrintInv'
  <2>1. Spent' \subseteq Spent
    BY <1>6, SpentShrinks
  <2>2. route' = route /\ (lapses' = 0 => lapses = 0)
    BY <1>0, <1>6 DEF Release, CloseRelease, DropRow
  <2>3. row' # NoRow => row # NoRow /\ row'.print = row.print
    BY <1>6 DEF Release, CloseRelease, DropRow, NoRow
  <2> QED BY <2>1, <2>2, <2>3, PrintKept
<1> QED BY <1>1, <1>2, <1>3, <1>4, <1>5, <1>6 DEF Next

(* A request is answered with a response only by Look.                     *)
LEMMA ReplayKeeps ==
  ASSUME BaseInv, BaseInv', PrintInv, ReplayTruthful, [Next]_vars
  PROVE  ReplayTruthful'
<1> USE DEF Goto, Lapse
<1>0. lapses \in Nat /\ replayed \in [Request -> Request \cup {NoRequest}]
      /\ effects \subseteq Request
  BY DEF BaseInv, TypeOK
<1>1. /\ effects \subseteq effects'
      /\ lapses' = 0 => lapses = 0
      /\ route' = route
  BY <1>0 DEF Next, vars, Prune, Insert, Look, Commit, HandlerFails, CommitThenThrow, CheckHeld,
       Complete, CompleteThrows, Release, ReleaseThrows, Respond, Close, CloseRelease,
       CloseReleaseThrows, Crash, DropRow
<1>2. \A q : Fingerprint(q)' = Fingerprint(q)
  BY <1>1 DEF Fingerprint, IsImport
<1>3. CASE UNCHANGED replayed
  BY <1>1, <1>2, <1>3 DEF ReplayTruthful
<1>4. ASSUME NEW r \in Request, Look(r), row # NoRow, replayed'[r] # NoRequest
      PROVE  /\ replayed'[r] \in effects
             /\ lapses = 0 /\ NoPrint \notin {Fingerprint(r), Fingerprint(replayed'[r])}
                  => PayloadOf[replayed'[r]] = PayloadOf[r]
  <2>1. replayed'[r] = row.response /\ ~Mismatch(r)
    BY <1>0, <1>4 DEF Look
  <2>2. row.response \in effects
    BY <1>4, <2>1 DEF BaseInv, RespInv
  <2>3. row.response \in Spent
    BY <1>0, <2>2 DEF Spent, IsSpent
  <2>4. lapses = 0 => row.print = Fingerprint(row.response)
    BY <1>4, <2>3 DEF PrintInv
  <2> QED BY <2>1, <2>2, <2>4 DEF Mismatch, Fingerprint
<1>5. ASSUME NEW r \in Request, Look(r), row # NoRow
      PROVE  ReplayTruthful'
  <2>1. \A q \in Request : q # r => replayed'[q] = replayed[q]
    BY <1>0, <1>5 DEF Look
  <2>2. lapses' = lapses /\ effects' = effects
    BY <1>5 DEF Look
  <2> QED BY <1>2, <1>4, <1>5, <2>1, <2>2 DEF ReplayTruthful
<1>6. UNCHANGED replayed \/ \E r \in Request : Look(r) /\ row # NoRow
  BY DEF Next, vars, Prune, Insert, Look, Commit, HandlerFails, CommitThenThrow, CheckHeld,
       Complete, CompleteThrows, Release, ReleaseThrows, Respond, Close, CloseRelease,
       CloseReleaseThrows, Crash
<1> QED BY <1>3, <1>5, <1>6

LEMMA IInvInductive == IInv /\ [Next]_vars => IInv'
BY BaseKeeps, PaidKeeps, PrintKeeps, ReplayKeeps DEF IInv

LEMMA SpecIInv == Spec => []IInv
<1> QED BY InitIInv, IInvInductive, PTL DEF Spec
-----------------------------------------------------------------------------
(* The row, the requests and their reservations always have the shape the  *)
(* repository and the routes assume: a row has a response exactly when it  *)
(* is completed.                                                           *)
THEOREM IdempotencyTypeCorrect == Spec => []TypeOK
<1>1. IInv => TypeOK
  BY DEF IInv, BaseInv
<1> QED BY <1>1, SpecIInv, PTL

(* A key's mutation is executed at most once more often than its row       *)
(* lapsed, for any number of requests.                                     *)
THEOREM RepeatsArePaidFor == Spec => []RepeatsPaidFor
<1>1. IInv => RepeatsPaidFor
  <2> SUFFICES ASSUME IInv PROVE Cardinality(effects) <= 1 + lapses
    BY DEF RepeatsPaidFor
  <2>1. lapses \in Nat /\ effects \subseteq Request
    BY DEF IInv, BaseInv, TypeOK
  <2>2. effects \subseteq Spent
    BY <2>1 DEF Spent, IsSpent
  <2>3. IsFiniteSet(Spent) /\ Cardinality(Spent) \in Nat
    BY SpentFinite
  <2>4. IsFiniteSet(effects) /\ Cardinality(effects) <= Cardinality(Spent)
    BY <2>2, <2>3, FS_Subset
  <2>5. Cardinality(effects) \in Nat
    BY <2>4, FS_CardinalityType
  <2>6. Cardinality(Spent) + Slots <= 1 + lapses /\ Slots \in Nat
    BY DEF IInv, PaidInv, Slots
  <2> QED BY <2>1, <2>3, <2>4, <2>5, <2>6
<1> QED BY <1>1, SpecIInv, PTL

(* No request is ever answered with the response of a mutation that was    *)
(* not committed, nor, while nothing lapsed, with that of another payload. *)
THEOREM ReplaysAreTruthful == Spec => []ReplayTruthful
<1>1. IInv => ReplayTruthful
  BY DEF IInv
<1> QED BY <1>1, SpecIInv, PTL
=============================================================================
