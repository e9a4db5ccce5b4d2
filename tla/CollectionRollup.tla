-------------------------- MODULE CollectionRollup --------------------------
(***************************************************************************)
(* The collection ledger and its materialised totals.  Every transaction   *)
(* that writes public.collection_records recomputes, before it commits,    *)
(* the daily rollup of each (date, creator, nickname) slice it touched and *)
(* the monthly rollup of the slice's (month, creator, nickname) key.       *)
(*                                                                         *)
(* A transaction is a PostgreSQL READ COMMITTED transaction: a statement   *)
(* sees what was committed when the statement started, overlaid with the   *)
(* transaction's own writes; writes become visible all at once at Commit.  *)
(* One action is one SQL statement; the advisory locks a transaction takes *)
(* are held until it ends.                                                 *)
(*                                                                         *)
(* A rollup row stores COUNT and SUM(amount) of its slice.  The model      *)
(* keeps the set of ledger rows that were aggregated, which determines     *)
(* both; the empty set stands for the absence of the rollup row.           *)
(***************************************************************************)
EXTENDS Naturals, FiniteSets

CONSTANTS
  Txn,      \* database sessions, one transaction each at a time
  Rec,      \* collection record ids, ordered as ORDER BY id orders them
  Slice,    \* (payment date, creator login, staff nickname)
  Key,      \* (month, creator login, staff nickname), in lock order
  KeyOf,    \* the key a slice belongs to
  Amount,   \* payment amounts
  Expired,  \* slices dated before the cutoff of the retention purge
  RepairScopes, \* the slice sets a bounded repair may name
  Kinds,    \* the operations an instance allows
  NoTx,     \* "no transaction holds this lock"
  NoRow,    \* "no such ledger row"
  Unset     \* "this transaction did not write this row"

Row   == Slice \X Amount
Entry == Rec \X Row
AllKinds == {"create", "update", "delete", "purge", "refresh",
             "rebuild", "restore", "repair"}

ASSUME RollupAssumption ==
  /\ IsFiniteSet(Txn)   \* a connection pool
  /\ Rec \subseteq Nat
  /\ Key \subseteq Nat
  /\ KeyOf \in [Slice -> Key]
  /\ Expired \subseteq Slice
  /\ RepairScopes \subseteq (SUBSET Slice) \ {{}}
  /\ Kinds \subseteq AllKinds
  /\ NoTx \notin Txn
  /\ NoRow \notin Row
  /\ Unset \notin Row \cup {NoRow}
  /\ \A S \in SUBSET Entry : S # Unset

VARIABLES
  rec,      \* committed collection_records
  daily,    \* committed collection_record_daily_rollups
  monthly,  \* committed collection_record_monthly_rollups
  recLock,  \* advisory lock of each record id
  shared,   \* sessions holding 'collection-rollup-rebuild' in shared mode
  excl,     \* session holding it in exclusive mode
  keyLock,  \* advisory lock of each rollup key
  pc,       \* next statement of each session
  kind,     \* operation each session runs
  target,   \* record ids the operation works on
  newRow,   \* row an update writes; NoRow for a delete
  todo,     \* slices still to refresh
  keyTodo,  \* keys whose monthly total is still to refresh
  curDay,   \* slices the daily statements in progress are about
  curMon,   \* key the monthly statement pair in progress is about
  agg,      \* result of the last aggregate SELECT
  recW,     \* uncommitted ledger writes of each session
  dayW,     \* uncommitted daily rollup writes
  monW      \* uncommitted monthly rollup writes

locks == <<recLock, shared, excl, keyLock>>
store == <<rec, daily, monthly>>
writes == <<recW, dayW, monW>>
work  == <<kind, target, newRow, todo, keyTodo, curDay, curMon, agg>>
vars  == <<store, locks, pc, work, writes>>
-----------------------------------------------------------------------------
(* What a statement of session t reads.                                    *)
\* Variant for the checks: the transaction's own writes without the overlay.
RecSeenOwnWrites(t) == [r \in Rec |-> recW[t][r]]
RecSeen(t) == [r \in Rec |-> IF recW[t][r] = Unset THEN rec[r] ELSE recW[t][r]]
DaySeen(t) == [s \in Slice |-> IF dayW[t][s] = Unset THEN daily[s] ELSE dayW[t][s]]
MonSeen(t) == [k \in Key |-> IF monW[t][k] = Unset THEN monthly[k] ELSE monW[t][k]]

(* SELECT the COUNT and SUM(amount) of one slice                              *)
Aggregate(f, s) == {e \in Entry : f[e[1]] = e[2] /\ e[2][1] = s}

(* SELECT SUM(total_records), SUM(total_amount) over the days of a month   *)
MonthTotal(d, k) == {e \in Entry : \E s \in Slice : KeyOf[s] = k /\ e \in d[s]}

SliceOf(row) == IF row \in Row THEN {row[1]} ELSE {}
KeysOf(S) == {KeyOf[s] : s \in S}
SmallestOf(S) == CHOOSE x \in S : \A y \in S : x <= y
-----------------------------------------------------------------------------
Init ==
  /\ rec = [r \in Rec |-> NoRow]
  /\ daily = [s \in Slice |-> {}]
  /\ monthly = [k \in Key |-> {}]
  /\ recLock = [r \in Rec |-> NoTx]
  /\ shared = {}
  /\ excl = NoTx
  /\ keyLock = [k \in Key |-> NoTx]
  /\ pc = [t \in Txn |-> "idle"]
  /\ kind = [t \in Txn |-> "none"]
  /\ target = [t \in Txn |-> {}]
  /\ newRow = [t \in Txn |-> NoRow]
  /\ todo = [t \in Txn |-> {}]
  /\ keyTodo = [t \in Txn |-> {}]
  /\ curDay = [t \in Txn |-> {}]
  /\ curMon = [t \in Txn |-> {}]
  /\ agg = [t \in Txn |-> {}]
  /\ recW = [t \in Txn |-> [r \in Rec |-> Unset]]
  /\ dayW = [t \in Txn |-> [s \in Slice |-> Unset]]
  /\ monW = [t \in Txn |-> [k \in Key |-> Unset]]

Goto(t, l) == pc' = [pc EXCEPT ![t] = l]

Start(t, k, R, l) ==
  /\ pc[t] = "idle"
  /\ k \in Kinds
  /\ kind' = [kind EXCEPT ![t] = k]
  /\ target' = [target EXCEPT ![t] = R]
  /\ Goto(t, l)

(* A new record's id is a fresh UUID: no other session can name it yet.    *)
Fresh(r) == rec[r] = NoRow /\ \A u \in Txn : r \notin target[u]

(* createCollectionRecord: INSERT, then the rollup refresh of its slice.   *)
BeginCreate(t, r, row) ==
  /\ Fresh(r)
  /\ Start(t, "create", {r}, "shared")
  /\ recW' = [recW EXCEPT ![t][r] = row]
  /\ todo' = [todo EXCEPT ![t] = {row[1]}]
  /\ UNCHANGED <<store, locks, newRow, keyTodo, curDay, curMon, agg, dayW, monW>>

(* updateCollectionRecord and deleteCollectionRecord of a record the       *)
(* caller has seen; both start with the record's advisory lock.            *)
BeginUpdate(t, r, row) ==
  /\ rec[r] # NoRow
  /\ Start(t, "update", {r}, "lockRec")
  /\ newRow' = [newRow EXCEPT ![t] = row]
  /\ UNCHANGED <<store, locks, todo, keyTodo, curDay, curMon, agg, writes>>

BeginDelete(t, r) ==
  /\ rec[r] # NoRow
  /\ Start(t, "delete", {r}, "lockRec")
  /\ UNCHANGED <<store, locks, newRow, todo, keyTodo, curDay, curMon, agg, writes>>

(* purgeCollectionRecordsOlderThan reads its candidates without a lock;    *)
(* it returns at once when there is none.                                  *)
BeginPurge(t) ==
  LET candidates == {r \in Rec : SliceOf(rec[r]) \cap Expired # {}}
  IN /\ candidates # {}
     /\ Start(t, "purge", candidates, "lockRec")
     /\ UNCHANGED <<store, locks, newRow, todo, keyTodo, curDay, curMon, agg, writes>>

(* The queue worker's refresh of one claimed slice.                        *)
BeginRefresh(t, s) ==
  /\ Start(t, "refresh", {}, "shared")
  /\ todo' = [todo EXCEPT ![t] = {s}]
  /\ UNCHANGED <<store, locks, newRow, keyTodo, curDay, curMon, agg, writes>>

(* rebuildAllRollups, and the backup restore, which inserts the restored   *)
(* rows first and ends its transaction with the same rebuild.              *)
BeginRebuild(t) ==
  /\ Start(t, "rebuild", {}, "excl")
  /\ UNCHANGED <<store, locks, newRow, todo, keyTodo, curDay, curMon, agg, writes>>

BeginRestore(t) ==
  /\ Start(t, "restore", {}, "restoring")
  /\ UNCHANGED <<store, locks, newRow, todo, keyTodo, curDay, curMon, agg, writes>>

(* repairBoundedCollectionRecordRollups.                                   *)
BeginRepair(t, S) ==
  /\ Start(t, "repair", {}, "shared")
  /\ curDay' = [curDay EXCEPT ![t] = S]
  /\ UNCHANGED <<store, locks, newRow, todo, keyTodo, curMon, agg, writes>>

Begin(t) ==
  \/ \E r \in Rec, row \in Row : BeginCreate(t, r, row) \/ BeginUpdate(t, r, row)
  \/ \E r \in Rec : BeginDelete(t, r)
  \/ BeginPurge(t)
  \/ \E s \in Slice : BeginRefresh(t, s)
  \/ BeginRebuild(t)
  \/ BeginRestore(t)
  \/ \E S \in RepairScopes : BeginRepair(t, S)
-----------------------------------------------------------------------------
(* Record locks, in id order; then the row is read under the lock.         *)
RecsWanted(t) == {r \in target[t] : recLock[r] # t}

\* Variant for the checks: the candidate ids are locked unsorted.
LockRecordUnsorted(t) ==
  /\ pc[t] = "lockRec"
  /\ \E r \in RecsWanted(t) :
       /\ recLock[r] = NoTx
       /\ recLock' = [recLock EXCEPT ![r] = t]
       /\ Goto(t, IF RecsWanted(t) = {r} THEN "read" ELSE "lockRec")
  /\ UNCHANGED <<store, shared, excl, keyLock, work, writes>>

LockRecord(t) ==
  /\ pc[t] = "lockRec"
  /\ RecsWanted(t) # {}
  /\ LET r == SmallestOf(RecsWanted(t))
     IN /\ recLock[r] = NoTx
        /\ recLock' = [recLock EXCEPT ![r] = t]
        /\ Goto(t, IF RecsWanted(t) = {r} THEN "read" ELSE "lockRec")
  /\ UNCHANGED <<store, shared, excl, keyLock, work, writes>>

\* Variant for the checks: the purge trusts the list it read before locking.
ExistingById(t) == {r \in target[t] : rec[r] # NoRow}

(* The existing rows as the operation may still use them: a purge reads    *)
(* its candidates again with the cutoff, the others look the id up.        *)
Existing(t) ==
  {r \in target[t] : IF kind[t] = "purge"
                     THEN SliceOf(rec[r]) \cap Expired # {}
                     ELSE rec[r] # NoRow}

(* SELECT the existing slice(s).                                           *)
ReadExisting(t) ==
  /\ pc[t] = "read"
  /\ Existing(t) # {}
  /\ target' = [target EXCEPT ![t] = Existing(t)]
  /\ todo' = [todo EXCEPT ![t] = UNION {SliceOf(rec[r]) : r \in Existing(t)}]
  /\ Goto(t, "write")
  /\ UNCHANGED <<store, locks, kind, newRow, keyTodo, curDay, curMon, agg, writes>>

(* The UPDATE or DELETE, and the slice of the row it returned.             *)
WriteRecord(t) ==
  /\ pc[t] = "write"
  /\ recW' = [recW EXCEPT ![t] =
                [r \in Rec |-> IF r \in target[t] THEN newRow[t] ELSE @[r]]]
  /\ todo' = [todo EXCEPT ![t] = @ \cup SliceOf(newRow[t])]
  /\ Goto(t, "shared")
  /\ UNCHANGED <<store, locks, kind, target, newRow, keyTodo, curDay, curMon, agg, dayW, monW>>
-----------------------------------------------------------------------------
(* lockCollectionRecordRollupSlices: the shared rebuild lock, then every   *)
(* affected key in sorted order, before any aggregate.                     *)
Scope(t) == IF kind[t] = "repair" THEN curDay[t] ELSE todo[t]
\* Variant for the checks: aggregate-then-upsert without the key locks.
NoKeysWanted(t) == {}
KeysWanted(t) == {k \in KeysOf(Scope(t)) : keyLock[k] # t}

\* Variant for the checks: a refresh that does not wait for a rebuild.
LockSharedAlways(t) ==
  /\ pc[t] = "shared"
  /\ shared' = shared \cup {t}
  /\ Goto(t, "lockKeys")
  /\ UNCHANGED <<store, recLock, excl, keyLock, work, writes>>

LockShared(t) ==
  /\ pc[t] = "shared"
  /\ excl = NoTx
  /\ shared' = shared \cup {t}
  /\ Goto(t, "lockKeys")
  /\ UNCHANGED <<store, recLock, excl, keyLock, work, writes>>

LockKey(t) ==
  /\ pc[t] = "lockKeys"
  /\ KeysWanted(t) # {}
  /\ LET k == SmallestOf(KeysWanted(t))
     IN /\ keyLock[k] = NoTx
        /\ keyLock' = [keyLock EXCEPT ![k] = t]
  /\ UNCHANGED <<store, recLock, shared, excl, pc, work, writes>>

KeysLocked(t) ==
  /\ pc[t] = "lockKeys"
  /\ KeysWanted(t) = {}
  /\ Goto(t, IF kind[t] = "repair" THEN "repairDelete" ELSE "day")
  /\ UNCHANGED <<store, locks, work, writes>>

(* refreshLockedCollectionRecordDailyRollupSlice: aggregate the slice,     *)
(* then delete or upsert its row ...                                       *)
AggregateDay(t, s) ==
  /\ pc[t] = "day"
  /\ s \in todo[t]
  /\ curDay' = [curDay EXCEPT ![t] = {s}]
  /\ agg' = [agg EXCEPT ![t] = Aggregate(RecSeen(t), s)]
  /\ Goto(t, "putDay")
  /\ UNCHANGED <<store, locks, kind, target, newRow, todo, keyTodo, curMon, writes>>

PutDay(t) ==
  /\ pc[t] = "putDay"
  /\ dayW' = [dayW EXCEPT ![t] =
                [s \in Slice |-> IF s \in curDay[t] THEN agg[t] ELSE @[s]]]
  /\ todo' = [todo EXCEPT ![t] = @ \ curDay[t]]
  /\ keyTodo' = [keyTodo EXCEPT ![t] = KeysOf(curDay[t])]
  /\ Goto(t, "month")
  /\ UNCHANGED <<store, locks, kind, target, newRow, curDay, curMon, agg, recW, monW>>

(* ... then the same for the month.                                        *)
AggregateMonth(t, k) ==
  /\ pc[t] = "month"
  /\ k \in keyTodo[t]
  /\ curMon' = [curMon EXCEPT ![t] = {k}]
  /\ agg' = [agg EXCEPT ![t] = MonthTotal(DaySeen(t), k)]
  /\ Goto(t, "putMonth")
  /\ UNCHANGED <<store, locks, kind, target, newRow, todo, keyTodo, curDay, writes>>

PutMonth(t) ==
  /\ pc[t] = "putMonth"
  /\ monW' = [monW EXCEPT ![t] =
                [k \in Key |-> IF k \in curMon[t] THEN agg[t] ELSE @[k]]]
  /\ keyTodo' = [keyTodo EXCEPT ![t] = @ \ curMon[t]]
  /\ Goto(t, IF keyTodo[t] \ curMon[t] # {} THEN "month"
             ELSE IF todo[t] # {} THEN "day" ELSE "commit")
  /\ UNCHANGED <<store, locks, kind, target, newRow, todo, curDay, curMon, agg, recW, dayW>>
-----------------------------------------------------------------------------
\* Variant for the checks: ON CONFLICT (id) DO UPDATE.
RestoreUpsert(t, r, row) ==
  /\ pc[t] = "restoring"
  /\ \A u \in Txn : recW[u][r] = Unset
  /\ target' = [target EXCEPT ![t] = @ \cup {r}]
  /\ recW' = [recW EXCEPT ![t][r] = row]
  /\ UNCHANGED <<store, locks, pc, kind, newRow, todo, keyTodo, curDay, curMon, agg, dayW, monW>>

(* The restore's INSERT ... ON CONFLICT (id) DO NOTHING: an id that is      *)
(* present is skipped, one that another session is writing is waited for.  *)
RestoreInsert(t, r, row) ==
  /\ pc[t] = "restoring"
  /\ rec[r] = NoRow
  /\ \A u \in Txn : recW[u][r] = Unset
  /\ target' = [target EXCEPT ![t] = @ \cup {r}]
  /\ recW' = [recW EXCEPT ![t][r] = row]
  /\ UNCHANGED <<store, locks, pc, kind, newRow, todo, keyTodo, curDay, curMon, agg, dayW, monW>>

RestoreRebuild(t) ==
  /\ pc[t] = "restoring"
  /\ Goto(t, "excl")
  /\ UNCHANGED <<store, locks, work, writes>>

(* DELETE the rows of S that have no ledger row, then upsert the others:   *)
(* the two statements a repair and a rebuild start with.                   *)
DeleteOrphanDays(t, S) ==
  dayW' = [dayW EXCEPT ![t] =
             [s \in Slice |-> IF s \in S /\ Aggregate(RecSeen(t), s) = {}
                              THEN {} ELSE @[s]]]
UpsertDays(t, S) ==
  dayW' = [dayW EXCEPT ![t] =
             [s \in Slice |-> IF s \in S /\ Aggregate(RecSeen(t), s) # {}
                              THEN Aggregate(RecSeen(t), s) ELSE @[s]]]

RepairDelete(t) ==
  /\ pc[t] = "repairDelete"
  /\ DeleteOrphanDays(t, curDay[t])
  /\ Goto(t, "repairUpsert")
  /\ UNCHANGED <<store, locks, work, recW, monW>>

RepairUpsert(t) ==
  /\ pc[t] = "repairUpsert"
  /\ UpsertDays(t, curDay[t])
  /\ keyTodo' = [keyTodo EXCEPT ![t] = KeysOf(curDay[t])]
  /\ Goto(t, "month")
  /\ UNCHANGED <<store, locks, kind, target, newRow, todo, curDay, curMon, agg, recW, monW>>

(* rebuildCollectionRecordDailyRollups and ...MonthlyRollups: four         *)
(* statements over whole tables under the exclusive rebuild lock.          *)
LockExclusive(t) ==
  /\ pc[t] = "excl"
  /\ excl = NoTx
  /\ shared = {}
  /\ excl' = t
  /\ Goto(t, "dropDays")
  /\ UNCHANGED <<store, recLock, shared, keyLock, work, writes>>

RebuildDropDays(t) ==
  /\ pc[t] = "dropDays"
  /\ DeleteOrphanDays(t, Slice)
  /\ Goto(t, "fillDays")
  /\ UNCHANGED <<store, locks, work, recW, monW>>

RebuildFillDays(t) ==
  /\ pc[t] = "fillDays"
  /\ UpsertDays(t, Slice)
  /\ Goto(t, "dropMonths")
  /\ UNCHANGED <<store, locks, work, recW, monW>>

RebuildDropMonths(t) ==
  /\ pc[t] = "dropMonths"
  /\ monW' = [monW EXCEPT ![t] =
                [k \in Key |-> IF MonthTotal(DaySeen(t), k) = {} THEN {} ELSE @[k]]]
  /\ Goto(t, "fillMonths")
  /\ UNCHANGED <<store, locks, work, recW, dayW>>

RebuildFillMonths(t) ==
  /\ pc[t] = "fillMonths"
  /\ monW' = [monW EXCEPT ![t] =
                [k \in Key |-> IF MonthTotal(DaySeen(t), k) # {}
                               THEN MonthTotal(DaySeen(t), k) ELSE @[k]]]
  /\ Goto(t, "commit")
  /\ UNCHANGED <<store, locks, work, recW, dayW>>
-----------------------------------------------------------------------------
(* The end of a transaction releases its locks and forgets its writes.     *)
End(t) ==
  /\ recLock' = [r \in Rec |-> IF recLock[r] = t THEN NoTx ELSE recLock[r]]
  /\ keyLock' = [k \in Key |-> IF keyLock[k] = t THEN NoTx ELSE keyLock[k]]
  /\ shared' = shared \ {t}
  /\ excl' = IF excl = t THEN NoTx ELSE excl
  /\ Goto(t, "idle")
  /\ kind' = [kind EXCEPT ![t] = "none"]
  /\ target' = [target EXCEPT ![t] = {}]
  /\ newRow' = [newRow EXCEPT ![t] = NoRow]
  /\ todo' = [todo EXCEPT ![t] = {}]
  /\ keyTodo' = [keyTodo EXCEPT ![t] = {}]
  /\ curDay' = [curDay EXCEPT ![t] = {}]
  /\ curMon' = [curMon EXCEPT ![t] = {}]
  /\ agg' = [agg EXCEPT ![t] = {}]
  /\ recW' = [recW EXCEPT ![t] = [r \in Rec |-> Unset]]
  /\ dayW' = [dayW EXCEPT ![t] = [s \in Slice |-> Unset]]
  /\ monW' = [monW EXCEPT ![t] = [k \in Key |-> Unset]]

Commit(t) ==
  /\ pc[t] = "commit"
  /\ rec' = RecSeen(t)
  /\ daily' = DaySeen(t)
  /\ monthly' = MonSeen(t)
  /\ End(t)

(* Nothing to do: the record is gone, the WHERE clause's version does not  *)
(* match (COLLECTION_RECORD_VERSION_CONFLICT), or the repair is a dry run; *)
(* the transaction ends without a write.                                   *)
ReturnUnchanged(t) ==
  /\ \/ pc[t] = "read" /\ Existing(t) = {}
     \/ pc[t] = "write" /\ kind[t] \in {"update", "delete"}
     \/ pc[t] = "repairDelete"
  /\ End(t)
  /\ UNCHANGED store

(* An error, a timeout or a lost connection rolls the transaction back.    *)
Rollback(t) ==
  /\ pc[t] # "idle"
  /\ End(t)
  /\ UNCHANGED store

Next ==
  \E t \in Txn :
    \/ Begin(t)
    \/ LockRecord(t) \/ ReadExisting(t) \/ WriteRecord(t)
    \/ LockShared(t) \/ LockKey(t) \/ KeysLocked(t)
    \/ \E s \in Slice : AggregateDay(t, s)
    \/ PutDay(t)
    \/ \E k \in Key : AggregateMonth(t, k)
    \/ PutMonth(t)
    \/ RepairDelete(t) \/ RepairUpsert(t)
    \/ \E r \in Rec, row \in Row : RestoreInsert(t, r, row)
    \/ RestoreRebuild(t)
    \/ LockExclusive(t) \/ RebuildDropDays(t) \/ RebuildFillDays(t)
    \/ RebuildDropMonths(t) \/ RebuildFillMonths(t)
    \/ Commit(t) \/ ReturnUnchanged(t) \/ Rollback(t)

Spec == Init /\ [][Next]_vars
-----------------------------------------------------------------------------
(* Every variable keeps its type; in particular no committed table ever    *)
(* holds the placeholder of a transaction's private write buffer.          *)
Steps == {"idle", "lockRec", "read", "write", "shared", "lockKeys", "day",
          "putDay", "month", "putMonth", "repairDelete", "repairUpsert",
          "restoring", "excl", "dropDays", "fillDays", "dropMonths", "fillMonths", "commit"}

TypeOK ==
  /\ rec \in [Rec -> Row \cup {NoRow}]
  /\ daily \in [Slice -> SUBSET Entry]
  /\ monthly \in [Key -> SUBSET Entry]
  /\ recLock \in [Rec -> Txn \cup {NoTx}]
  /\ shared \subseteq Txn
  /\ excl \in Txn \cup {NoTx}
  /\ keyLock \in [Key -> Txn \cup {NoTx}]
  /\ pc \in [Txn -> Steps]
  /\ kind \in [Txn -> AllKinds \cup {"none"}]
  /\ target \in [Txn -> SUBSET Rec]
  /\ newRow \in [Txn -> Row \cup {NoRow}]
  /\ todo \in [Txn -> SUBSET Slice]
  /\ keyTodo \in [Txn -> SUBSET Key]
  /\ curDay \in [Txn -> SUBSET Slice]
  /\ curMon \in [Txn -> SUBSET Key]
  /\ agg \in [Txn -> SUBSET Entry]
  /\ recW \in [Txn -> [Rec -> Row \cup {NoRow, Unset}]]
  /\ dayW \in [Txn -> [Slice -> (SUBSET Entry) \cup {Unset}]]
  /\ monW \in [Txn -> [Key -> (SUBSET Entry) \cup {Unset}]]

(* Whatever transactions interleave, the committed daily rollup of every   *)
(* slice is the aggregate of the committed ledger: no concurrent save,     *)
(* delete, purge, restore, rebuild or repair loses a total.                *)
DailyExact == \A s \in Slice : daily[s] = Aggregate(rec, s)

(* The committed monthly rollup is always the sum of the committed daily   *)
(* rollups of its month, although concurrent refreshes of different days   *)
(* recompute the same monthly row.                                         *)
MonthlyExact == \A k \in Key : monthly[k] = MonthTotal(daily, k)

(* A retention purge only removes a payment that is dated before the       *)
(* cutoff when the purge commits: a payment re-dated after the purge       *)
(* listed its candidates survives.                                         *)
PurgeOnlyExpired ==
  [][\A t \in Txn, r \in Rec :
       /\ kind[t] = "purge" /\ pc[t] = "commit" /\ r \in target[t]
       /\ rec[r] # NoRow /\ rec'[r] = NoRow
       => SliceOf(rec[r]) \cap Expired # {}]_vars

(* The sessions whose locks keep session t from its next lock.             *)
WaitsFor(t) ==
  LET holders ==
        CASE pc[t] = "lockRec" -> {recLock[SmallestOf(RecsWanted(t))]}
          [] pc[t] = "shared" -> {excl}
          [] pc[t] = "lockKeys" /\ KeysWanted(t) # {} ->
               {keyLock[SmallestOf(KeysWanted(t))]}
          [] pc[t] = "excl" -> shared \cup {excl}
          [] OTHER -> {}
  IN holders \ {NoTx, t}

(* Record locks, the rebuild lock and the sorted key locks never deadlock  *)
(* among themselves: no group of sessions waits only for one another.      *)
NoLockCycle ==
  \A S \in (SUBSET Txn) \ {{}} : \E t \in S : WaitsFor(t) \cap S = {}

(* Every operation is atomic, with its totals: the transactions implement  *)
(* CollectionLedger.  What a session was asked for is its operation, the   *)
(* id a single record's operation names, and the row an update writes.     *)
Asked == [t \in Txn |->
            [kind |-> kind[t],
             ids  |-> IF kind[t] \in {"create", "update", "delete"} THEN target[t] ELSE {},
             row  |-> newRow[t]]]
Ledger == INSTANCE CollectionLedger WITH asked <- Asked
ImplementsLedger == Ledger!Spec
=============================================================================
