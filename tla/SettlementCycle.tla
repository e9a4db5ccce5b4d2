--------------------------- MODULE SettlementCycle ---------------------------
(***************************************************************************)
(* The settlement cycles of collection_records: which of a cycle's payments*)
(* reached its TOTAL DUE, which carry a manually verified settlement, and  *)
(* which are left out because their receipt was already used.              *)
(*                                                                         *)
(* Sessions run transactions under READ COMMITTED: a statement sees what   *)
(* was committed when it starts and what its own transaction wrote, and a  *)
(* transaction keeps every lock until it ends.  One step is one statement; *)
(* the locks a statement needs are taken before it, one at a time.         *)
(*                                                                         *)
(* Records are numbered in their order of payment date, creation and id.   *)
(* All of them are linked to a source row, with one TOTAL DUE, and are paid*)
(* within the calling window.  Receipts are copies of one shared file, at  *)
(* most one per record.  Dates of payment are not edited here.             *)
(***************************************************************************)
EXTENDS Naturals, FiniteSets, Sequences, Functions

CONSTANTS
  Txn,     \* database sessions
  Rec,     \* record ids, in payment order
  Cycle,   \* settlement cycle keys, in their sort order
  Amount,  \* amounts a payment may have
  Due,     \* TOTAL DUE of a cycle
  Pool,    \* pool amount of a manual settlement
  Old,     \* records whose payment date is before a purge's cut-off
  Kinds,   \* kinds of operation considered
  NoTxn,   \* "not locked"
  MaxOps   \* bound: transactions begun

Kind == {"create", "update", "attach", "delete", "purge", "settle", "revoke"}

ASSUME SettlementAssumption ==
  /\ IsFiniteSet(Txn) /\ NoTxn \notin Txn
  /\ IsFiniteSet(Rec) /\ Rec \subseteq Nat
  /\ IsFiniteSet(Cycle) /\ Cycle \subseteq Nat /\ Cycle # {}
  /\ Amount \subseteq Nat
  /\ Due \in Nat \ {0}
  /\ Pool \in Nat \ {0}
  /\ Old \subseteq Rec
  /\ Kinds \subseteq Kind
  /\ MaxOps \in Nat

VARIABLES
  rows,   \* the committed records with their live receipts
  draft,  \* what each session wrote and has not committed
  owner,  \* who holds each advisory and row lock
  op,     \* the operation each session executes
  todo,   \* the statements it has still to execute
  keys,   \* the cycle keys it read
  begun   \* transactions begun

vars == <<rows, draft, owner, op, todo, keys, begun>>

Class    == {"none", "cp", "abort_cp"}
Override == {"none", "ACTIVE", "REVOKED"}
Receipt  == {"none", "file"}
Row == [st : {"new", "live", "gone"}, cycle : Cycle, amount : Amount \cup {0},
        receipt : Receipt, dup : BOOLEAN, class : Class, override : Override]

FirstCycle == CHOOSE c \in Cycle : TRUE
NewRow == [st |-> "new", cycle |-> FirstCycle, amount |-> 0, receipt |-> "none",
           dup |-> FALSE, class |-> "none", override |-> "none"]

(* Locks, and the order in which one statement takes several of them.      *)
RecordLock(r) == [class |-> 1, id |-> r]
CycleLock(c)  == [class |-> 2, id |-> c]
RowLock(r)    == [class |-> 3, id |-> r]
HashLock      == [class |-> 4, id |-> 0]
MonthLock     == [class |-> 5, id |-> 0]
Lock == {RecordLock(r) : r \in Rec} \cup {CycleLock(c) : c \in Cycle}
          \cup {RowLock(r) : r \in Rec} \cup {HashLock, MonthLock}
\* Variant for the checks: a save takes its row before its cycle.
BeforeRowFirst(k, l) ==
  LET Rank(m) == IF m.class = 3 THEN 1 ELSE IF m.class = 1 THEN 0 ELSE m.class
  IN  Rank(k) < Rank(l) \/ (Rank(k) = Rank(l) /\ k.id < l.id)
Before(k, l) == k.class < l.class \/ (k.class = l.class /\ k.id < l.id)
-----------------------------------------------------------------------------
(* Reading a table v of records.                                           *)
Members(v, c) == {r \in Rec : v[r].st = "live" /\ v[r].cycle = c}
Eligible(v, c) == {r \in Members(v, c) : ~v[r].dup}
Holders(v)     == {r \in Rec : v[r].st = "live" /\ v[r].receipt = "file"}

(* What a cycle collected up to and including record r, and before it.     *)
Total(v, R) == SumFunction([q \in R |-> v[q].amount])
CollectedUpTo(v, c, r) == Total(v, {q \in Eligible(v, c) : q <= r})
CollectedBefore(v, c, r) == Total(v, {q \in Eligible(v, c) : q < r})

(* The classification of one payment of cycle c: the eligible payment that *)
(* crosses TOTAL DUE is abort_cp, the other eligible ones are cp.          *)
Classify(v, c, r) ==
  IF r \notin Eligible(v, c) THEN "none"
  ELSE IF CollectedBefore(v, c, r) < Due /\ CollectedUpTo(v, c, r) >= Due
       THEN "abort_cp" ELSE "cp"

Aborts(v, c) == {r \in Members(v, c) : v[r].class = "abort_cp"}
Actives(v, c) == {r \in Members(v, c) : v[r].override = "ACTIVE"}

(* The partial unique indexes on settlement_cycle_key.                     *)
IndexesHold(v) ==
  \A c \in Cycle : Cardinality(Aborts(v, c)) <= 1 /\ Cardinality(Actives(v, c)) <= 1

(* What a session sees.                                                    *)
View(t) == [r \in Rec |-> IF r \in DOMAIN draft[t] THEN draft[t][r] ELSE rows[r]]
-----------------------------------------------------------------------------
(* Operations.  An edit is what a save changes.                            *)
Moves    == {[do |-> "move", arg |-> c] : c \in Cycle}
Amounts  == {[do |-> "amount", arg |-> a] : a \in Amount}
Receipts == {[do |-> "add", arg |-> 0], [do |-> "drop", arg |-> 0]}
Resync   == [do |-> "sync", arg |-> 0]
Payments == {[do |-> "new", arg |-> <<c, a, f>>] : c \in Cycle, a \in Amount, f \in Receipt}
Dates    == {[do |-> "date", arg |-> r] : r \in Rec}

Idle == [kind |-> "idle", recs |-> {}, edit |-> Resync]
Some(k, recs, edits) == {[kind |-> k, recs |-> R, edit |-> e] : R \in recs, e \in edits}

(* Clients name records that exist; a create makes a new id.               *)
Known == {{r} : r \in {q \in Rec : rows[q].st = "live"}}
Unused == {{r} : r \in {q \in Rec : rows[q].st = "new" /\ \A t \in Txn : ~(op[t].kind = "create" /\ q \in op[t].recs)}}
Requests ==
  {o \in UNION {Some("create", Unused, Payments),
                Some("update", Known, Moves \cup Amounts \cup Receipts),
                Some("attach", Known, Receipts \cup {Resync}),
                Some("delete", Known, {Resync}),
                Some("purge", {{r \in Old : rows[r].st = "live" /\ rows[r].override # "ACTIVE"}} \ {{}}, {Resync}),
                Some("settle", Known, Dates),
                Some("revoke", Known, {Resync})} : o.kind \in Kinds}

Script(k) ==
  CASE k = "create" -> <<"insert", "rollup", "receipts", "sync", "recalc", "commit">>
    [] k = "update" -> <<"read", "edit", "receipts", "sync", "recalc", "rollup", "commit">>
    [] k = "attach" -> <<"read", "receipts", "sync", "recalc", "commit">>
    [] k = "delete" -> <<"read", "erase", "recalc", "rollup", "commit">>
    [] k = "purge"  -> <<"read", "erase", "recalc", "rollup", "commit">>
    [] k = "settle" -> <<"anchor", "facts", "activate", "commit">>
    [] k = "revoke" -> <<"anchor", "end", "commit">>

At(t, s) == todo[t] # <<>> /\ Head(todo[t]) = s
Target(t) == CHOOSE r \in op[t].recs : TRUE
Adds(t) == op[t].edit.do = "add" \/ (op[t].edit.do = "new" /\ op[t].edit.arg[3] = "file")

\* Variant for the checks: a save relies on what the service read before it.
ProtectedDeletes(t) == op[t].kind \in {"delete", "purge"}
Protected(t) == op[t].kind \in {"delete", "purge"} \/ op[t].edit.do = "move"
Found(t) == {r \in op[t].recs : /\ View(t)[r].st = "live"
                                /\ Protected(t) => View(t)[r].override # "ACTIVE"}
-----------------------------------------------------------------------------
(* Locks.  pg_advisory_xact_lock for records, cycles, receipt hashes and   *)
(* months; FOR UPDATE, UPDATE and DELETE for rows.                         *)
CycleLocks(t)  == {CycleLock(c) : c \in keys[t]}
RowLocks(R)    == {RowLock(r) : r \in R}
\* Variant for the checks: receipts are compared without a lock on their hash.
HashLocksNone(t) == {}
HashLocks(t)   == IF Adds(t) THEN {HashLock} ELSE {}
CycleRows(t)   == UNION {Members(View(t), c) : c \in keys[t]}
FactsLocks(t)  == CycleLocks(t) \cup RowLocks(CycleRows(t))

Needs(t, s) ==
  CASE s = "read"     -> {RecordLock(r) : r \in op[t].recs}
    [] s = "anchor"   -> {RecordLock(Target(t)), RowLock(Target(t))}
    [] s = "insert"   -> CycleLocks(t)
    [] s = "edit"     -> CycleLocks(t) \cup RowLocks(op[t].recs)
    [] s = "erase"    -> CycleLocks(t) \cup RowLocks(Found(t))
    [] s = "receipts" -> CycleLocks(t) \cup HashLocks(t)
    [] s = "sync"     -> RowLocks(op[t].recs)
    [] s = "recalc"   -> RowLocks(CycleRows(t))
    [] s = "facts"    -> FactsLocks(t)
    [] s = "end"      -> FactsLocks(t)
    [] s = "rollup"   -> {MonthLock}
    [] OTHER          -> {}

Held(t)     == {l \in Lock : owner[l] = t}
Missing(t)  == IF todo[t] = <<>> THEN {} ELSE Needs(t, Head(todo[t])) \ Held(t)
NextLock(t) == CHOOSE l \in Missing(t) : \A k \in Missing(t) \ {l} : Before(l, k)
Blocks(u, t) == u # t /\ Missing(t) # {} /\ owner[NextLock(t)] = u

Ready(t, s) == At(t, s) /\ Missing(t) = {}
Done(t)     == todo' = [todo EXCEPT ![t] = Tail(@)]
Put(t, R, F(_)) ==
  draft' = [draft EXCEPT ![t] = [r \in DOMAIN @ \cup R |-> IF r \in R THEN F(r) ELSE @[r]]]
With(t, r, row) == [View(t) EXCEPT ![r] = row]
-----------------------------------------------------------------------------
Init ==
  /\ rows = [r \in Rec |-> NewRow]
  /\ draft = [t \in Txn |-> <<>>]
  /\ owner = [l \in Lock |-> NoTxn]
  /\ op = [t \in Txn |-> Idle]
  /\ todo = [t \in Txn |-> <<>>]
  /\ keys = [t \in Txn |-> {}]
  /\ begun = 0

Begin(t) ==
  /\ op[t] = Idle
  /\ begun < MaxOps
  /\ begun' = begun + 1
  /\ \E o \in Requests :
       /\ op' = [op EXCEPT ![t] = o]
       /\ todo' = [todo EXCEPT ![t] = Script(o.kind)]
       /\ keys' = [keys EXCEPT ![t] = IF o.kind = "create" THEN {o.edit.arg[1]} ELSE {}]
  /\ UNCHANGED <<rows, draft, owner>>

Acquire(t) ==
  /\ Missing(t) # {}
  /\ owner[NextLock(t)] = NoTxn
  /\ owner' = [owner EXCEPT ![NextLock(t)] = t]
  /\ UNCHANGED <<rows, draft, op, todo, keys, begun>>

(* The record is read again under its lock; one that is gone, or that an   *)
(* active settlement protects, ends the operation.                         *)
Read(t) ==
  /\ Ready(t, "read")
  /\ Found(t) # {}
  /\ keys' = [keys EXCEPT ![t] = {View(t)[r].cycle : r \in Found(t)}
                \cup IF op[t].edit.do = "move" THEN {op[t].edit.arg} ELSE {}]
  /\ Done(t)
  /\ UNCHANGED <<rows, draft, owner, op, begun>>

Insert(t) ==
  /\ Ready(t, "insert")
  /\ Put(t, op[t].recs, LAMBDA r : [NewRow EXCEPT !.st = "live", !.cycle = op[t].edit.arg[1],
                                                  !.amount = op[t].edit.arg[2]])
  /\ Done(t)
  /\ UNCHANGED <<rows, owner, op, keys, begun>>

Edited(t) ==
  LET row == View(t)[Target(t)]
  IN  CASE op[t].edit.do = "move"   -> [row EXCEPT !.cycle = op[t].edit.arg]
        [] op[t].edit.do = "amount" -> [row EXCEPT !.amount = op[t].edit.arg]
        [] OTHER -> row

(* The record keeps its classification until the recalculation: a save that*)
(* brings an abort_cp into a cycle that has one is rejected by the index.  *)
Edit(t) ==
  /\ Ready(t, "edit")
  /\ IndexesHold(With(t, Target(t), Edited(t)))
  /\ Put(t, op[t].recs, LAMBDA r : Edited(t))
  /\ Done(t)
  /\ UNCHANGED <<rows, owner, op, keys, begun>>

Erase(t) ==
  /\ Ready(t, "erase")
  /\ Found(t) # {}
  /\ Put(t, Found(t), LAMBDA r : [NewRow EXCEPT !.st = "gone"])
  /\ Done(t)
  /\ UNCHANGED <<rows, owner, op, keys, begun>>

(* Receipts are removed and added; a record has a receipt file only once.  *)
WithReceipt(t, row) ==
  [row EXCEPT !.receipt = IF Adds(t) THEN "file" ELSE IF op[t].edit.do = "drop" THEN "none" ELSE @]

AttachReceipts(t) ==
  /\ Ready(t, "receipts")
  /\ Adds(t) => View(t)[Target(t)].receipt = "none"
  /\ Put(t, op[t].recs, LAMBDA r : WithReceipt(t, View(t)[r]))
  /\ Done(t)
  /\ UNCHANGED <<rows, owner, op, keys, begun>>

(* syncCollectionRecordReceiptValidation: only the record's own flag.      *)
Duplicate(t, r) == View(t)[r].receipt = "file" /\ Holders(View(t)) # {r}
Sync(t) ==
  /\ Ready(t, "sync")
  /\ Put(t, op[t].recs, LAMBDA r : [View(t)[r] EXCEPT !.dup = Duplicate(t, r)])
  /\ Done(t)
  /\ UNCHANGED <<rows, owner, op, keys, begun>>

(* recalculateCollectionSettlementCycles                                   *)
\* Variant for the checks: the cycle a record leaves is forgotten.
RecalcKeysTo(t) == IF op[t].edit.do = "move" THEN {op[t].edit.arg} ELSE keys[t]
RecalcKeys(t) == keys[t]
Recalc(t) ==
  /\ Ready(t, "recalc")
  /\ LET v == View(t)
         R == UNION {Members(v, c) : c \in RecalcKeys(t)}
     IN  Put(t, R, LAMBDA r : [v[r] EXCEPT !.class = Classify(v, v[r].cycle, r)])
  /\ Done(t)
  /\ UNCHANGED <<rows, owner, op, keys, begun>>

(* The daily and monthly rollups themselves: module CollectionRollup.      *)
Rollup(t) ==
  /\ Ready(t, "rollup")
  /\ Done(t)
  /\ UNCHANGED <<rows, draft, owner, op, keys, begun>>
-----------------------------------------------------------------------------
(* Manual settlement: the anchor row is read FOR UPDATE before the cycle   *)
(* is locked.                                                              *)
Anchor(t) ==
  /\ Ready(t, "anchor")
  /\ rows[Target(t)].st = "live"
  /\ op[t].kind = "settle" => ~rows[Target(t)].dup
  /\ keys' = [keys EXCEPT ![t] = {rows[Target(t)].cycle}]
  /\ Done(t)
  /\ UNCHANGED <<rows, draft, owner, op, begun>>

\* Variant for the checks: payments with a duplicate receipt are counted.
SystemCollectedAll(v, c, upTo) == Total(v, {q \in Members(v, c) : q <= upTo})
SystemCollected(v, c, upTo) == CollectedUpTo(v, c, upTo)

(* loadCycleSettlementFacts and the checks on its result.                  *)
Facts(t) ==
  /\ Ready(t, "facts")
  /\ LET v == View(t)
         c == v[Target(t)].cycle
     IN  /\ Actives(v, c) \subseteq op[t].recs
         /\ Aborts(v, c) = {}
         /\ SystemCollected(v, c, op[t].edit.arg) + Pool >= Due
  /\ Done(t)
  /\ UNCHANGED <<rows, draft, owner, op, keys, begun>>

SetOverride(t, status) ==
  /\ Put(t, op[t].recs, LAMBDA r : [View(t)[r] EXCEPT !.override = status])
  /\ Done(t)
  /\ UNCHANGED <<rows, owner, op, keys, begun>>

Activate(t) ==
  /\ Ready(t, "activate")
  /\ IndexesHold(With(t, Target(t), [View(t)[Target(t)] EXCEPT !.override = "ACTIVE"]))
  /\ SetOverride(t, "ACTIVE")

Revoke(t) ==
  /\ Ready(t, "end")
  /\ View(t)[Target(t)].override = "ACTIVE"
  /\ SetOverride(t, "REVOKED")
-----------------------------------------------------------------------------
\* Variant for the checks: the advisory locks of a session survive it.
LeftByLeak(t) == Held(t) \ {HashLock}
LeftBy(t) == Held(t)
End(t) ==
  /\ draft' = [draft EXCEPT ![t] = <<>>]
  /\ owner' = [l \in Lock |-> IF l \in LeftBy(t) THEN NoTxn ELSE owner[l]]
  /\ op' = [op EXCEPT ![t] = Idle]
  /\ todo' = [todo EXCEPT ![t] = <<>>]
  /\ keys' = [keys EXCEPT ![t] = {}]
  /\ UNCHANGED begun

Commit(t) ==
  /\ Ready(t, "commit")
  /\ rows' = View(t)
  /\ End(t)

(* An error, a failed check, a version conflict, a lost connection, or the *)
(* server's choice of a deadlock's victim.                                 *)
Rollback(t) ==
  /\ op[t] # Idle
  /\ UNCHANGED rows
  /\ End(t)

Next == \E t \in Txn :
  \/ Begin(t) \/ Acquire(t) \/ Read(t) \/ Insert(t) \/ Edit(t) \/ Erase(t)
  \/ AttachReceipts(t) \/ Sync(t) \/ Recalc(t) \/ Rollup(t)
  \/ Anchor(t) \/ Facts(t) \/ Activate(t) \/ Revoke(t)
  \/ Commit(t) \/ Rollback(t)

Spec == Init /\ [][Next]_vars
-----------------------------------------------------------------------------
(* The records and drafts are well typed; a session holds locks only while *)
(* it executes an operation.                                               *)
TypeOK ==
  /\ rows \in [Rec -> Row]
  /\ \A t \in Txn : DOMAIN draft[t] \subseteq Rec /\ \A r \in DOMAIN draft[t] : draft[t][r] \in Row
  /\ owner \in [Lock -> Txn \cup {NoTxn}]
  /\ \A t \in Txn : keys[t] \subseteq Cycle /\ op[t].recs \subseteq Rec
  /\ \A t \in Txn : todo[t] = <<>> => op[t] = Idle /\ Held(t) = {}
  /\ begun \in 0..MaxOps

(* Every committed payment carries the classification that the committed   *)
(* payments and flags of its cycle give it, whatever saves, moves, receipt *)
(* changes, purges and settlements ran at once: the recalculation of one   *)
(* transaction is never overtaken by another one's.                        *)
ClassificationExact ==
  \A c \in Cycle : \A r \in Members(rows, c) : rows[r].class = Classify(rows, c, r)

(* One receipt file never counts in two payments: of the records that hold *)
(* it at most one is not flagged as a duplicate, although a flag is only   *)
(* computed when its own record is saved.                                  *)
OneCountedReceipt ==
  Cardinality({r \in Holders(rows) : ~rows[r].dup}) <= 1

(* A settlement that is committed as ACTIVE was justified by the payments  *)
(* committed then: no automatic abort in its cycle, no other active one,   *)
(* and enough collected by its date together with the pool amount.         *)
Justified(v, r, upTo) ==
  /\ Actives(v, v[r].cycle) = {r}
  /\ Aborts(v, v[r].cycle) = {}
  /\ CollectedUpTo(v, v[r].cycle, upTo) + Pool >= Due
ActivationJustified ==
  [][\A t \in Txn : op[t].kind = "settle" /\ op'[t] = Idle /\ rows' # rows
       => Justified(rows', Target(t), op[t].edit.arg)]_vars

(* While a settlement is active its record neither leaves its cycle nor is *)
(* deleted or purged, also when the settlement was activated after the     *)
(* save or the purge read the record.                                      *)
AnchorPinned ==
  [][\A r \in Rec : rows[r].override = "ACTIVE"
       => rows'[r].st = "live" /\ rows'[r].cycle = rows[r].cycle]_vars

(* Sessions wait for each other in a circle only if one of them is a manual*)
(* settlement that holds its row and waits for its cycle, or a create that *)
(* holds its month and waits for its receipt's hash.                       *)
Stuck(T) == T # {} /\ \A t \in T : \E u \in T : Blocks(u, t)
OutOfOrder(t) ==
  \/ NextLock(t) = HashLock /\ owner[MonthLock] = t
  \/ NextLock(t).class = 2 /\ \E r \in op[t].recs : op[t].kind \in {"settle", "revoke"} /\ owner[RowLock(r)] = t
OnlyKnownDeadlocks ==
  \A T \in SUBSET Txn : Stuck(T) => \E t \in T : OutOfOrder(t)
=============================================================================
