----------------------- MODULE CollectionRollupProofs -----------------------
(***************************************************************************)
(* The rollups of CollectionRollup are exact, and its locks never wait in  *)
(* a circle, for every set of sessions, records, slices, keys and amounts. *)
(***************************************************************************)
EXTENDS CollectionRollup, FiniteSetTheorems, WellFoundedInduction, TLAPS

Changed(t) == {r \in Rec : recW[t][r] # Unset}
DayDone(t) == {s \in Slice : dayW[t][s] # Unset}
MonDone(t) == {k \in Key : monW[t][k] # Unset}
Touches(t, r) == SliceOf(rec[r]) \cup SliceOf(recW[t][r])
Guards(t, k) == keyLock[k] = t \/ excl = t

(* A key lock is held together with the shared rebuild lock, and nobody    *)
(* holds the shared lock while a rebuild runs.                             *)
LockDiscipline ==
  /\ excl # NoTx => shared = {}
  /\ \A k \in Key : keyLock[k] # NoTx => keyLock[k] \in shared

(* No two sessions have uncommitted writes of the same ledger row.         *)
OneWriter ==
  \A t, u \in Txn, r \in Rec :
    recW[t][r] # Unset /\ recW[u][r] # Unset => t = u

(* The rows a session works on are its own: it holds their record locks    *)
(* since before it read them, or it inserted them.                         *)
Ownership(t) ==
  /\ Changed(t) \subseteq target[t]
  /\ kind[t] \in {"none", "refresh", "rebuild", "repair"} => target[t] = {}
  /\ kind[t] \in {"update", "delete", "purge"} /\ pc[t] # "lockRec"
       => \A r \in target[t] : recLock[r] = t
  /\ kind[t] \in {"update", "delete", "purge"} /\ pc[t] \notin {"lockRec", "read"}
       => \A r \in target[t] : rec[r] # NoRow
  /\ kind[t] \in {"create", "restore"}
       => \A r \in target[t] : rec[r] = NoRow /\ recW[t][r] # Unset
  /\ kind[t] = "purge" /\ pc[t] \notin {"lockRec", "read"}
       => \A r \in target[t] : SliceOf(rec[r]) \cap Expired # {}

(* Which buffers can be in use at which statement.                         *)
Buffers(t) ==
  /\ pc[t] \in {"idle", "lockRec", "read", "write"} => Changed(t) = {}
  /\ pc[t] \in {"idle", "lockRec", "read", "write", "shared", "lockKeys",
                "repairDelete", "restoring", "excl", "dropDays"} => DayDone(t) = {}
  /\ pc[t] \in {"idle", "lockRec", "read", "write", "shared", "lockKeys",
                "repairDelete", "restoring", "excl", "dropDays",
                "repairUpsert", "fillDays", "dropMonths"} => MonDone(t) = {}
  /\ pc[t] \notin {"month", "putMonth"} => keyTodo[t] = {}
  /\ pc[t] \in {"idle", "lockRec", "read", "commit"} => todo[t] = {}
  /\ kind[t] \in {"rebuild", "restore", "repair", "none"} => todo[t] = {}
  /\ pc[t] = "idle" <=> kind[t] = "none"
  /\ pc[t] \in {"lockRec", "read", "write"} => kind[t] \in {"update", "delete", "purge"}
  /\ pc[t] = "restoring" => kind[t] = "restore"
  /\ pc[t] \in {"excl", "dropDays", "fillDays", "dropMonths", "fillMonths"}
       => kind[t] \in {"rebuild", "restore"}
  /\ pc[t] \in {"repairDelete", "repairUpsert"} => kind[t] = "repair"

(* The locks held at each statement.                                       *)
Holding(t) ==
  /\ pc[t] = "lockKeys" => t \in shared
  /\ \A s \in DayDone(t) : Guards(t, KeyOf[s])
  /\ \A k \in MonDone(t) : Guards(t, k)
  /\ pc[t] \in {"day", "putDay", "month", "putMonth"}
       => \A s \in todo[t] : keyLock[KeyOf[s]] = t
  /\ \A k \in keyTodo[t] : keyLock[k] = t
  /\ pc[t] \in {"repairDelete", "repairUpsert"}
       => \A s \in curDay[t] : keyLock[KeyOf[s]] = t
  /\ pc[t] \in {"dropDays", "fillDays", "dropMonths", "fillMonths"} => excl = t

(* Every slice a ledger write touched is refreshed or still to refresh.    *)
Covered(t) ==
  /\ pc[t] = "write" => \A r \in target[t] : SliceOf(rec[r]) \subseteq todo[t]
  /\ pc[t] \notin {"restoring", "excl", "dropDays", "fillDays"}
       => \A r \in Changed(t) : \A s \in Touches(t, r) : s \in todo[t] \cup DayDone(t)
  /\ pc[t] = "fillDays"
       => \A s \in Slice : Aggregate(RecSeen(t), s) = {} => s \in DayDone(t)
  /\ pc[t] \in {"dropMonths", "fillMonths"} => DayDone(t) = Slice
  /\ pc[t] = "repairUpsert" => DayDone(t) \subseteq curDay[t]
  /\ pc[t] \in {"day", "putDay", "month", "putMonth", "commit"}
       => \A s \in DayDone(t) : KeyOf[s] \in MonDone(t) \cup keyTodo[t]
  /\ pc[t] = "fillMonths"
       => \A k \in Key : MonthTotal(DaySeen(t), k) = {} => k \in MonDone(t)

(* What a session has computed is still what it would compute now.         *)
Current(t) ==
  /\ \A s \in DayDone(t) : dayW[t][s] = Aggregate(RecSeen(t), s)
  /\ \A k \in MonDone(t) \ keyTodo[t] : monW[t][k] = MonthTotal(DaySeen(t), k)
  /\ pc[t] = "putDay" => \E s \in todo[t] : /\ curDay[t] = {s}
                                            /\ agg[t] = Aggregate(RecSeen(t), s)
  /\ pc[t] = "putMonth" => \E k \in keyTodo[t] : /\ curMon[t] = {k}
                                                 /\ agg[t] = MonthTotal(DaySeen(t), k)

TxInv(t) == Ownership(t) /\ Buffers(t) /\ Holding(t) /\ Covered(t) /\ Current(t)

IInv ==
  /\ TypeOK
  /\ DailyExact
  /\ MonthlyExact
  /\ LockDiscipline
  /\ OneWriter
  /\ \A t \in Txn : TxInv(t)
-----------------------------------------------------------------------------
(* The statements of a transaction between its first and its last.         *)
Statement(t) ==
  \/ LockRecord(t) \/ ReadExisting(t) \/ WriteRecord(t)
  \/ LockShared(t) \/ LockKey(t) \/ KeysLocked(t)
  \/ \E s \in Slice : AggregateDay(t, s)
  \/ PutDay(t)
  \/ \E k \in Key : AggregateMonth(t, k)
  \/ PutMonth(t)
  \/ RepairDelete(t) \/ RepairUpsert(t)
  \/ \E r \in Rec, row \in Row : RestoreInsert(t, r, row)
  \/ RestoreRebuild(t)
  \/ LockExclusive(t) \/ RebuildDropDays(t) \/ RebuildFillDays(t)
  \/ RebuildDropMonths(t) \/ RebuildFillMonths(t)

LEMMA AggregateType == ASSUME NEW f, NEW s PROVE Aggregate(f, s) \in SUBSET Entry
  BY DEF Aggregate

LEMMA MonthTotalType == ASSUME NEW d, NEW k PROVE MonthTotal(d, k) \in SUBSET Entry
  BY DEF MonthTotal

LEMMA SliceOfType == ASSUME NEW row PROVE SliceOf(row) \in SUBSET Slice
  BY DEF SliceOf, Row

LEMMA SeenType ==
  ASSUME TypeOK, NEW t \in Txn
  PROVE  /\ RecSeen(t) \in [Rec -> Row \cup {NoRow}]
         /\ DaySeen(t) \in [Slice -> SUBSET Entry]
         /\ MonSeen(t) \in [Key -> SUBSET Entry]
  BY DEF TypeOK, RecSeen, DaySeen, MonSeen

LEMMA TypeInit == Init => TypeOK
  BY DEF Init, TypeOK, Steps

LEMMA BeginType ==
  ASSUME TypeOK, NEW t \in Txn, Begin(t) PROVE TypeOK'
<1> USE RollupAssumption DEF TypeOK, Steps, AllKinds, Start, Goto, store, locks, writes
<1>1. CASE \E r \in Rec, row \in Row : BeginCreate(t, r, row)
  BY <1>1 DEF BeginCreate, Row
<1>2. CASE \E r \in Rec, row \in Row : BeginUpdate(t, r, row)
  BY <1>2 DEF BeginUpdate
<1>3. CASE BeginRestore(t)
  BY <1>3 DEF BeginRestore
<1>4. CASE \E r \in Rec : BeginDelete(t, r)
  BY <1>4 DEF BeginDelete
<1>5. CASE BeginPurge(t)
  BY <1>5 DEF BeginPurge
<1>6. CASE \E s \in Slice : BeginRefresh(t, s)
  BY <1>6 DEF BeginRefresh
<1>7. CASE BeginRebuild(t)
  BY <1>7 DEF BeginRebuild
<1>8. CASE \E S \in RepairScopes : BeginRepair(t, S)
  BY <1>8 DEF BeginRepair
<1>9. QED
  BY <1>1, <1>2, <1>3, <1>4, <1>5, <1>6, <1>7, <1>8 DEF Begin

LEMMA EndType ==
  ASSUME TypeOK, NEW t \in Txn, End(t),
         rec' \in [Rec -> Row \cup {NoRow}],
         daily' \in [Slice -> SUBSET Entry],
         monthly' \in [Key -> SUBSET Entry]
  PROVE  TypeOK'
  BY DEF TypeOK, End, Goto, Steps, AllKinds

LEMMA StepType ==
  ASSUME TypeOK, NEW t \in Txn, Statement(t)
  PROVE  TypeOK'
<1> USE RollupAssumption DEF TypeOK, Steps, Goto, store, locks, writes, work
<1>1. CASE LockRecord(t)
  BY <1>1 DEF LockRecord
<1>2. CASE ReadExisting(t)
  BY <1>2, SliceOfType DEF ReadExisting, Existing
<1>3. CASE WriteRecord(t)
  BY <1>3, SliceOfType DEF WriteRecord
<1>4. CASE LockShared(t)
  BY <1>4 DEF LockShared
<1>5. CASE LockKey(t)
  BY <1>5 DEF LockKey
<1>6. CASE KeysLocked(t)
  BY <1>6 DEF KeysLocked
<1>7. CASE \E s \in Slice : AggregateDay(t, s)
  BY <1>7, AggregateType DEF AggregateDay
<1>8. CASE PutDay(t)
  BY <1>8 DEF PutDay, KeysOf
<1>9. CASE \E k \in Key : AggregateMonth(t, k)
  BY <1>9, MonthTotalType DEF AggregateMonth
<1>10. CASE PutMonth(t)
  BY <1>10 DEF PutMonth
<1>11. CASE RepairDelete(t)
  BY <1>11 DEF RepairDelete, DeleteOrphanDays
<1>12. CASE RepairUpsert(t)
  BY <1>12, AggregateType DEF RepairUpsert, UpsertDays, KeysOf
<1>13. CASE LockExclusive(t)
  BY <1>13 DEF LockExclusive
<1>14. CASE RebuildDropDays(t)
  BY <1>14 DEF RebuildDropDays, DeleteOrphanDays
<1>15. CASE RebuildFillDays(t)
  BY <1>15, AggregateType DEF RebuildFillDays, UpsertDays
<1>16. CASE RebuildDropMonths(t)
  BY <1>16 DEF RebuildDropMonths
<1>17. CASE RebuildFillMonths(t)
  BY <1>17, MonthTotalType DEF RebuildFillMonths
<1>18. CASE \E r \in Rec, row \in Row : RestoreInsert(t, r, row)
  BY <1>18 DEF RestoreInsert
<1>19. CASE RestoreRebuild(t)
  BY <1>19 DEF RestoreRebuild
<1>20. QED
  BY <1>1, <1>2, <1>3, <1>4, <1>5, <1>6, <1>7, <1>8, <1>9, <1>10, <1>11,
     <1>12, <1>13, <1>14, <1>15, <1>16, <1>17, <1>18, <1>19 DEF Statement

LEMMA TypeNext == TypeOK /\ [Next]_vars => TypeOK'
<1> SUFFICES ASSUME TypeOK, [Next]_vars PROVE TypeOK'
  OBVIOUS
<1>1. CASE UNCHANGED vars
  BY <1>1 DEF vars, store, locks, work, writes, TypeOK
<1>2. ASSUME NEW t \in Txn, Commit(t) PROVE TypeOK'
  BY <1>2, SeenType, EndType DEF Commit
<1>3. ASSUME NEW t \in Txn, ReturnUnchanged(t) \/ Rollback(t) PROVE TypeOK'
  BY <1>3, EndType DEF ReturnUnchanged, Rollback, store, TypeOK
<1>4. QED
  BY <1>1, <1>2, <1>3, BeginType, StepType DEF Next, Statement

(* Type correctness, for all values of the constants.                      *)
THEOREM TypeCorrect == Spec => []TypeOK
  BY TypeInit, TypeNext, PTL DEF Spec
-----------------------------------------------------------------------------
(* Frames: what a step of one session leaves to another.                   *)
Frame(u) ==
  /\ pc'[u] = pc[u] /\ kind'[u] = kind[u] /\ target'[u] = target[u]
  /\ newRow'[u] = newRow[u] /\ todo'[u] = todo[u] /\ keyTodo'[u] = keyTodo[u]
  /\ curDay'[u] = curDay[u] /\ curMon'[u] = curMon[u] /\ agg'[u] = agg[u]
  /\ recW'[u] = recW[u] /\ dayW'[u] = dayW[u] /\ monW'[u] = monW[u]
  /\ \A r \in Rec : recLock[r] = u => recLock'[r] = u
  /\ \A k \in Key : keyLock[k] = u => keyLock'[k] = u
  /\ u \in shared => u \in shared'
  /\ excl = u => excl' = u

LEMMA FrameReads ==
  ASSUME NEW u, Frame(u), UNCHANGED store
  PROVE  /\ RecSeen(u)' = RecSeen(u)
         /\ DaySeen(u)' = DaySeen(u)
         /\ Changed(u)' = Changed(u)
         /\ DayDone(u)' = DayDone(u)
         /\ MonDone(u)' = MonDone(u)
         /\ \A r : Touches(u, r)' = Touches(u, r)
  BY DEF Frame, store, RecSeen, DaySeen, Changed, DayDone, MonDone, Touches, SliceOf

LEMMA FrameKeeps ==
  ASSUME TypeOK, NEW u \in Txn, TxInv(u), Frame(u), UNCHANGED store
  PROVE  TxInv(u)'
<1>1. Ownership(u)'
  BY FrameReads DEF TypeOK, TxInv, Ownership, Frame, store
<1>2. Buffers(u)'
  BY FrameReads DEF TxInv, Buffers, Frame
<1>3. Holding(u)'
  BY FrameReads, RollupAssumption DEF TypeOK, TxInv, Holding, Frame, Guards, DayDone, MonDone
<1>4. Covered(u)'
  BY FrameReads DEF TxInv, Covered, Frame, store
<1>5. Current(u)'
  BY FrameReads DEF TxInv, Current, Frame
<1>6. QED
  BY <1>1, <1>2, <1>3, <1>4, <1>5 DEF TxInv

LEMMA BeginFrames ==
  ASSUME TypeOK, NEW t \in Txn, NEW u \in Txn \ {t}, Begin(t)
  PROVE  Frame(u) /\ UNCHANGED store
<1> USE DEF TypeOK, Frame, Start, Goto, store, locks, writes
<1>1. CASE \E r \in Rec, row \in Row : BeginCreate(t, r, row)
  BY <1>1 DEF BeginCreate
<1>2. CASE \E r \in Rec, row \in Row : BeginUpdate(t, r, row)
  BY <1>2 DEF BeginUpdate
<1>3. CASE BeginRestore(t)
  BY <1>3 DEF BeginRestore
<1>4. CASE \E r \in Rec : BeginDelete(t, r)
  BY <1>4 DEF BeginDelete
<1>5. CASE BeginPurge(t)
  BY <1>5 DEF BeginPurge
<1>6. CASE \E s \in Slice : BeginRefresh(t, s)
  BY <1>6 DEF BeginRefresh
<1>7. CASE BeginRebuild(t)
  BY <1>7 DEF BeginRebuild
<1>8. CASE \E S \in RepairScopes : BeginRepair(t, S)
  BY <1>8 DEF BeginRepair
<1>9. QED
  BY <1>1, <1>2, <1>3, <1>4, <1>5, <1>6, <1>7, <1>8 DEF Begin

LEMMA EndFrames ==
  ASSUME TypeOK, NEW t \in Txn, NEW u \in Txn \ {t}, End(t)
  PROVE  Frame(u)
  BY RollupAssumption DEF TypeOK, Frame, End, Goto

LEMMA StatementFrames ==
  ASSUME TypeOK, NEW t \in Txn, NEW u \in Txn \ {t}, Statement(t)
  PROVE  Frame(u) /\ UNCHANGED store
<1> USE RollupAssumption DEF TypeOK, Frame, Goto, store, locks, writes, work
<1>1. CASE LockRecord(t)
  BY <1>1 DEF LockRecord
<1>2. CASE ReadExisting(t)
  BY <1>2 DEF ReadExisting
<1>3. CASE WriteRecord(t)
  BY <1>3 DEF WriteRecord
<1>4. CASE LockShared(t)
  BY <1>4 DEF LockShared
<1>5. CASE LockKey(t)
  BY <1>5 DEF LockKey
<1>6. CASE KeysLocked(t)
  BY <1>6 DEF KeysLocked
<1>7. CASE \E s \in Slice : AggregateDay(t, s)
  BY <1>7 DEF AggregateDay
<1>8. CASE PutDay(t)
  BY <1>8 DEF PutDay
<1>9. CASE \E k \in Key : AggregateMonth(t, k)
  BY <1>9 DEF AggregateMonth
<1>10. CASE PutMonth(t)
  BY <1>10 DEF PutMonth
<1>11. CASE RepairDelete(t)
  BY <1>11 DEF RepairDelete, DeleteOrphanDays
<1>12. CASE RepairUpsert(t)
  BY <1>12 DEF RepairUpsert, UpsertDays
<1>13. CASE LockExclusive(t)
  BY <1>13 DEF LockExclusive
<1>14. CASE RebuildDropDays(t)
  BY <1>14 DEF RebuildDropDays, DeleteOrphanDays
<1>15. CASE RebuildFillDays(t)
  BY <1>15 DEF RebuildFillDays, UpsertDays
<1>16. CASE RebuildDropMonths(t)
  BY <1>16 DEF RebuildDropMonths
<1>17. CASE RebuildFillMonths(t)
  BY <1>17 DEF RebuildFillMonths
<1>18. CASE \E r \in Rec, row \in Row : RestoreInsert(t, r, row)
  BY <1>18 DEF RestoreInsert
<1>19. CASE RestoreRebuild(t)
  BY <1>19 DEF RestoreRebuild
<1>20. QED
  BY <1>1, <1>2, <1>3, <1>4, <1>5, <1>6, <1>7, <1>8, <1>9, <1>10, <1>11,
     <1>12, <1>13, <1>14, <1>15, <1>16, <1>17, <1>18, <1>19 DEF Statement
-----------------------------------------------------------------------------
(* Totals only depend on the rows of their slice, or the days of their     *)
(* month.                                                                  *)
Agree(f, g, s) ==
  \A r \in Rec : \/ f[r] = g[r]
                 \/ s \notin SliceOf(f[r]) /\ s \notin SliceOf(g[r])

LEMMA AggregateSame ==
  ASSUME NEW f, NEW g, NEW s, Agree(f, g, s)
  PROVE  Aggregate(f, s) = Aggregate(g, s)
<1>1. ASSUME NEW e \in Entry
      PROVE  f[e[1]] = e[2] /\ e[2][1] = s <=> g[e[1]] = e[2] /\ e[2][1] = s
  <2>1. e[1] \in Rec /\ e[2] \in Row
    BY DEF Entry
  <2>2. QED
    BY <2>1 DEF SliceOf, Agree
<1>2. QED
  BY <1>1 DEF Aggregate

LEMMA MonthTotalSame ==
  ASSUME NEW d, NEW g, NEW k, \A s \in Slice : KeyOf[s] = k => d[s] = g[s]
  PROVE  MonthTotal(d, k) = MonthTotal(g, k)
  BY DEF MonthTotal

LEMMA RecReads ==
  ASSUME NEW t, rec' = rec, recW'[t] = recW[t]
  PROVE  /\ RecSeen(t)' = RecSeen(t)
         /\ Changed(t)' = Changed(t)
         /\ \A r : Touches(t, r)' = Touches(t, r)
  BY DEF RecSeen, Changed, Touches, SliceOf

LEMMA DayReads ==
  ASSUME NEW t, daily' = daily, dayW'[t] = dayW[t]
  PROVE  DaySeen(t)' = DaySeen(t) /\ DayDone(t)' = DayDone(t)
  BY DEF DaySeen, DayDone

LEMMA MonReads ==
  ASSUME NEW t, monW'[t] = monW[t]
  PROVE  MonDone(t)' = MonDone(t)
  BY DEF MonDone

(* A session that starts has written nothing but the row it creates.       *)
LEMMA BeginKeeps ==
  ASSUME TypeOK, NEW t \in Txn, TxInv(t), Begin(t)
  PROVE  TxInv(t)'
<1> USE RollupAssumption DEF TypeOK, TxInv, Ownership, Buffers, Holding, Covered, Current,
        Changed, DayDone, MonDone, Guards, Start, Goto, store, locks, writes
<1>1. CASE \E r \in Rec, row \in Row : BeginCreate(t, r, row)
  BY <1>1 DEF BeginCreate, Fresh, Touches, SliceOf, Row
<1>2. CASE \E r \in Rec, row \in Row : BeginUpdate(t, r, row)
  BY <1>2 DEF BeginUpdate
<1>3. CASE BeginRestore(t)
  BY <1>3 DEF BeginRestore
<1>4. CASE \E r \in Rec : BeginDelete(t, r)
  BY <1>4 DEF BeginDelete
<1>5. CASE BeginPurge(t)
  BY <1>5 DEF BeginPurge
<1>6. CASE \E s \in Slice : BeginRefresh(t, s)
  BY <1>6 DEF BeginRefresh
<1>7. CASE BeginRebuild(t)
  BY <1>7 DEF BeginRebuild
<1>8. CASE \E S \in RepairScopes : BeginRepair(t, S)
  BY <1>8 DEF BeginRepair
<1>9. QED
  BY <1>1, <1>2, <1>3, <1>4, <1>5, <1>6, <1>7, <1>8 DEF Begin

LEMMA EndKeeps ==
  ASSUME TypeOK, NEW t \in Txn, End(t)
  PROVE  TxInv(t)'
  BY DEF TypeOK, End, Goto, TxInv, Ownership, Buffers, Holding, Covered, Current,
         Changed, DayDone, MonDone

(* Steps that only take a lock.                                            *)
LEMMA LockingKeeps ==
  ASSUME TypeOK, NEW t \in Txn, TxInv(t),
         \/ LockRecord(t) \/ LockShared(t) \/ LockKey(t) \/ KeysLocked(t)
         \/ RestoreRebuild(t) \/ LockExclusive(t)
  PROVE  TxInv(t)'
<1> USE RollupAssumption DEF TypeOK, Goto, store, locks, work, writes
<1>1. /\ RecSeen(t)' = RecSeen(t) /\ Changed(t)' = Changed(t)
      /\ \A r : Touches(t, r)' = Touches(t, r)
      /\ DaySeen(t)' = DaySeen(t) /\ DayDone(t)' = DayDone(t)
      /\ MonDone(t)' = MonDone(t)
  BY RecReads, DayReads, MonReads
     DEF LockRecord, LockShared, LockKey, KeysLocked, RestoreRebuild, LockExclusive
<1> USE <1>1
<1>2. CASE LockRecord(t)
  BY <1>2 DEF LockRecord, RecsWanted, TxInv, Ownership, Buffers, Holding, Covered, Current, Guards
<1>3. CASE LockShared(t)
  BY <1>3 DEF LockShared, TxInv, Ownership, Buffers, Holding, Covered, Current, Guards
<1>4. CASE LockKey(t)
  BY <1>4 DEF LockKey, TxInv, Ownership, Buffers, Holding, Covered, Current, Guards
<1>5. CASE KeysLocked(t)
  BY <1>5 DEF KeysLocked, KeysWanted, KeysOf, Scope, TxInv, Ownership, Buffers, Holding, Covered, Current, Guards
<1>6. CASE RestoreRebuild(t)
  BY <1>6 DEF RestoreRebuild, TxInv, Ownership, Buffers, Holding, Covered, Current, Guards
<1>7. CASE LockExclusive(t)
  BY <1>7 DEF LockExclusive, TxInv, Ownership, Buffers, Holding, Covered, Current, Guards
<1>8. QED
  BY <1>2, <1>3, <1>4, <1>5, <1>6, <1>7

(* The ledger reads and writes.                                            *)
LEMMA LedgerKeeps ==
  ASSUME TypeOK, NEW t \in Txn, TxInv(t),
         \/ ReadExisting(t) \/ WriteRecord(t)
         \/ \E r \in Rec, row \in Row : RestoreInsert(t, r, row)
  PROVE  TxInv(t)'
<1> USE RollupAssumption
    DEF TypeOK, Goto, store, locks, work, writes, TxInv, Ownership, Buffers,
        Holding, Covered, Current, Guards, DayDone, MonDone
<1>1. CASE ReadExisting(t)
  BY <1>1 DEF ReadExisting, Existing, Changed, Touches, SliceOf, Row
<1>2. CASE WriteRecord(t)
  <2> USE <1>2 DEF WriteRecord
  <2>1. recW'[t] = [r \in Rec |-> IF r \in target[t] THEN newRow[t] ELSE recW[t][r]]
    OBVIOUS
  <2>2. newRow[t] # Unset /\ todo'[t] = todo[t] \cup SliceOf(newRow[t])
    OBVIOUS
  <2>3. Changed(t) = {} /\ Changed(t)' = target[t]
    BY <2>1, <2>2 DEF Changed
  <2>4. \A r \in target[t] : Touches(t, r)' = SliceOf(rec[r]) \cup SliceOf(newRow[t])
    BY <2>1 DEF Touches, SliceOf
  <2>5. Ownership(t)' /\ Buffers(t)'
    BY <2>3
  <2>6. Holding(t)' /\ Current(t)'
    OBVIOUS
  <2>7. Covered(t)'
    <3>1. pc[t] = "write" /\ pc'[t] = "shared"
      OBVIOUS
    <3>2. \A r \in target[t] : \A s \in Touches(t, r)' : s \in todo'[t]
      BY <3>1, <2>2, <2>4
    <3>3. QED
      BY ONLY <3>1, <3>2, <2>3 DEF Covered
  <2>8. QED
    BY <2>5, <2>6, <2>7
<1>3. CASE \E r \in Rec, row \in Row : RestoreInsert(t, r, row)
  BY <1>3 DEF RestoreInsert, Changed
<1>4. QED
  BY <1>1, <1>2, <1>3

(* The refresh of a day and of its month.                                  *)
LEMMA AggregateDayKeeps ==
  ASSUME TypeOK, NEW t \in Txn, TxInv(t), NEW s \in Slice, AggregateDay(t, s)
  PROVE  TxInv(t)'
<1> USE DEF TypeOK, AggregateDay, Goto, store, locks, writes
<1>1. /\ RecSeen(t)' = RecSeen(t) /\ Changed(t)' = Changed(t)
      /\ \A r : Touches(t, r)' = Touches(t, r)
      /\ DaySeen(t)' = DaySeen(t) /\ DayDone(t)' = DayDone(t)
      /\ MonDone(t)' = MonDone(t)
  BY RecReads, DayReads, MonReads
<1>2. QED
  BY <1>1 DEF TxInv, Ownership, Buffers, Holding, Covered, Current, Guards

LEMMA PutDayKeeps ==
  ASSUME TypeOK, NEW t \in Txn, TxInv(t), PutDay(t)
  PROVE  TxInv(t)'
<1> USE DEF TypeOK, PutDay, Goto, store, locks
<1>1. /\ RecSeen(t)' = RecSeen(t) /\ Changed(t)' = Changed(t)
      /\ \A r : Touches(t, r)' = Touches(t, r)
      /\ MonDone(t)' = MonDone(t)
  BY RecReads, MonReads
<1>2. PICK s \in todo[t] : curDay[t] = {s} /\ agg[t] = Aggregate(RecSeen(t), s)
  BY DEF TxInv, Current
<1>3. /\ DayDone(t)' = DayDone(t) \cup {s}
      /\ dayW'[t] = [dayW[t] EXCEPT ![s] = agg[t]]
      /\ \A x \in Slice \ {s} : DaySeen(t)'[x] = DaySeen(t)[x]
  <2>1. dayW'[t] = [dayW[t] EXCEPT ![s] = agg[t]]
    BY <1>2
  <2>2. agg[t] # Unset
    BY RollupAssumption
  <2>3. QED
    BY <2>1, <2>2 DEF DayDone, DaySeen
<1>4. keyTodo'[t] = {KeyOf[s]} /\ todo'[t] = todo[t] \ {s}
  BY <1>2 DEF KeysOf
<1>5. \A k \in Key \ {KeyOf[s]} : MonthTotal(DaySeen(t)', k) = MonthTotal(DaySeen(t), k)
  BY <1>3, MonthTotalSame
<1>6. Ownership(t)' /\ Buffers(t)'
  BY <1>1, <1>2, <1>4 DEF TxInv, Ownership, Buffers
<1>7. Holding(t)'
  <2>1. keyLock[KeyOf[s]] = t
    BY DEF TxInv, Holding
  <2>2. pc[t] = "putDay" /\ pc'[t] = "month" /\ keyLock' = keyLock /\ excl' = excl
    OBVIOUS
  <2>3. QED
    BY ONLY <1>1, <1>3, <1>4, <2>1, <2>2, TxInv(t) DEF TxInv, Holding, Guards
<1>8. Covered(t)'
  <2>1. pc[t] = "putDay" /\ pc'[t] = "month" /\ keyTodo[t] = {}
    BY DEF TxInv, Buffers
  <2>2. QED
    BY ONLY <1>1, <1>3, <1>4, <2>1, TxInv(t) DEF TxInv, Covered
<1>9. Current(t)'
  <2>1. \A x \in DayDone(t)' : dayW'[t][x] = Aggregate(RecSeen(t), x)
    BY <1>2, <1>3 DEF TxInv, Current, DayDone
  <2>2. keyTodo[t] = {}
    BY DEF TxInv, Buffers
  <2>3. \A k \in MonDone(t) \ {KeyOf[s]} : monW'[t][k] = MonthTotal(DaySeen(t)', k)
    BY <1>5, <2>2 DEF TxInv, Current, MonDone
  <2>4. QED
    BY <1>1, <1>4, <2>1, <2>3 DEF Current
<1>10. QED
  BY <1>6, <1>7, <1>8, <1>9 DEF TxInv

LEMMA AggregateMonthKeeps ==
  ASSUME TypeOK, NEW t \in Txn, TxInv(t), NEW k \in Key, AggregateMonth(t, k)
  PROVE  TxInv(t)'
<1> USE DEF TypeOK, AggregateMonth, Goto, store, locks, writes
<1>1. /\ RecSeen(t)' = RecSeen(t) /\ Changed(t)' = Changed(t)
      /\ \A r : Touches(t, r)' = Touches(t, r)
      /\ DaySeen(t)' = DaySeen(t) /\ DayDone(t)' = DayDone(t)
      /\ MonDone(t)' = MonDone(t)
  BY RecReads, DayReads, MonReads
<1>2. QED
  BY <1>1 DEF TxInv, Ownership, Buffers, Holding, Covered, Current, Guards

LEMMA PutMonthKeeps ==
  ASSUME TypeOK, NEW t \in Txn, TxInv(t), PutMonth(t)
  PROVE  TxInv(t)'
<1> USE DEF TypeOK, PutMonth, Goto, store, locks
<1>1. /\ RecSeen(t)' = RecSeen(t) /\ Changed(t)' = Changed(t)
      /\ \A r : Touches(t, r)' = Touches(t, r)
      /\ DaySeen(t)' = DaySeen(t) /\ DayDone(t)' = DayDone(t)
  BY RecReads, DayReads
<1>2. PICK k \in keyTodo[t] : curMon[t] = {k} /\ agg[t] = MonthTotal(DaySeen(t), k)
  BY DEF TxInv, Current
<1>3. monW'[t] = [monW[t] EXCEPT ![k] = agg[t]]
  BY <1>2
<1>4. agg[t] # Unset
  BY RollupAssumption
<1>5. MonDone(t)' = MonDone(t) \cup {k}
  BY <1>3, <1>4 DEF MonDone
<1>6. keyTodo'[t] = keyTodo[t] \ {k}
  BY <1>2
<1>7. Ownership(t)' /\ Buffers(t)'
  BY <1>1, <1>2, <1>6 DEF TxInv, Ownership, Buffers
<1>8. Holding(t)'
  BY <1>1, <1>2, <1>5, <1>6 DEF TxInv, Holding, Guards
<1>9. Covered(t)'
  BY <1>1, <1>2, <1>5, <1>6 DEF TxInv, Covered, Buffers
<1>10. Current(t)'
  <2>1. \A x \in MonDone(t)' \ keyTodo'[t] : monW'[t][x] = MonthTotal(DaySeen(t), x)
    BY <1>2, <1>3, <1>5, <1>6 DEF TxInv, Current, MonDone
  <2>2. QED
    BY <1>1, <2>1 DEF TxInv, Current, DayDone
<1>11. QED
  BY <1>7, <1>8, <1>9, <1>10 DEF TxInv

(* The two statements a repair and a rebuild fill the days with.           *)
LEMMA DayStatements ==
  ASSUME TypeOK, NEW t \in Txn, NEW S \in SUBSET Slice,
         rec' = rec, recW'[t] = recW[t],
         \A s \in DayDone(t) : dayW[t][s] = Aggregate(RecSeen(t), s)
  PROVE  /\ DeleteOrphanDays(t, S) =>
              /\ DayDone(t)' = DayDone(t) \cup {s \in S : Aggregate(RecSeen(t), s) = {}}
              /\ \A s \in DayDone(t)' : dayW'[t][s] = Aggregate(RecSeen(t), s)
         /\ UpsertDays(t, S) =>
              /\ DayDone(t)' = DayDone(t) \cup {s \in S : Aggregate(RecSeen(t), s) # {}}
              /\ \A s \in DayDone(t)' : dayW'[t][s] = Aggregate(RecSeen(t), s)
<1>1. \A s : Aggregate(RecSeen(t), s) # Unset
  BY AggregateType, RollupAssumption
<1>2. {} # Unset
  BY RollupAssumption
<1>3. ASSUME DeleteOrphanDays(t, S)
      PROVE  dayW'[t] = [s \in Slice |-> IF s \in S /\ Aggregate(RecSeen(t), s) = {}
                                        THEN {} ELSE dayW[t][s]]
  BY <1>3 DEF DeleteOrphanDays, TypeOK
<1>4. ASSUME UpsertDays(t, S)
      PROVE  dayW'[t] = [s \in Slice |-> IF s \in S /\ Aggregate(RecSeen(t), s) # {}
                                        THEN Aggregate(RecSeen(t), s) ELSE dayW[t][s]]
  BY <1>4 DEF UpsertDays, TypeOK
<1>5. QED
  BY <1>1, <1>2, <1>3, <1>4 DEF DayDone

LEMMA RepairKeeps ==
  ASSUME TypeOK, NEW t \in Txn, TxInv(t), RepairDelete(t) \/ RepairUpsert(t)
  PROVE  TxInv(t)'
<1>1. /\ rec' = rec /\ recW'[t] = recW[t] /\ monW' = monW /\ UNCHANGED locks
      /\ curDay' = curDay /\ todo' = todo /\ kind' = kind /\ target' = target
      /\ curDay[t] \in SUBSET Slice
  BY DEF RepairDelete, RepairUpsert, store, work, TypeOK
<1>2. /\ RecSeen(t)' = RecSeen(t) /\ Changed(t)' = Changed(t)
      /\ MonDone(t)' = MonDone(t)
  BY <1>1, RecReads, MonReads
<1>3. /\ kind[t] = "repair" /\ target[t] = {} /\ Changed(t) = {} /\ MonDone(t) = {}
      /\ todo[t] = {} /\ keyTodo[t] = {}
      /\ \A s \in curDay[t] : keyLock[KeyOf[s]] = t
      /\ \A s \in DayDone(t) : dayW[t][s] = Aggregate(RecSeen(t), s)
      /\ DayDone(t) \subseteq curDay[t]
  BY DEF RepairDelete, RepairUpsert, TxInv, Ownership, Buffers, Holding, Covered, Current
<1>4. Ownership(t)'
  BY <1>1, <1>2, <1>3 DEF Ownership
<1>5. CASE RepairDelete(t)
  <2>1. /\ pc'[t] = "repairUpsert" /\ DeleteOrphanDays(t, curDay[t]) /\ keyTodo' = keyTodo
    BY <1>5 DEF RepairDelete, Goto, work, TypeOK
  <2>2. /\ DayDone(t)' \subseteq curDay[t]
        /\ \A s \in DayDone(t)' : dayW'[t][s] = Aggregate(RecSeen(t), s)
    BY <1>1, <1>3, <2>1, DayStatements
  <2>3. QED
    BY <1>1, <1>2, <1>3, <1>4, <2>1, <2>2
       DEF TxInv, Buffers, Holding, Covered, Current, Guards, locks
<1>6. CASE RepairUpsert(t)
  <2>1. /\ pc'[t] = "month" /\ UpsertDays(t, curDay[t])
        /\ keyTodo'[t] = KeysOf(curDay[t])
    BY <1>6 DEF RepairUpsert, Goto, TypeOK
  <2>2. /\ DayDone(t)' \subseteq curDay[t]
        /\ \A s \in DayDone(t)' : dayW'[t][s] = Aggregate(RecSeen(t), s)
    BY <1>1, <1>3, <2>1, DayStatements
  <2>3. QED
    BY <1>1, <1>2, <1>3, <1>4, <2>1, <2>2
       DEF TxInv, Buffers, Holding, Covered, Current, Guards, locks, KeysOf
<1>7. QED
  BY <1>5, <1>6

LEMMA RebuildDaysKeep ==
  ASSUME TypeOK, NEW t \in Txn, TxInv(t), RebuildDropDays(t) \/ RebuildFillDays(t)
  PROVE  TxInv(t)'
<1>1. /\ rec' = rec /\ recW'[t] = recW[t] /\ monW' = monW /\ UNCHANGED <<locks, work>>
  BY DEF RebuildDropDays, RebuildFillDays, store
<1>2. /\ RecSeen(t)' = RecSeen(t) /\ Changed(t)' = Changed(t)
      /\ MonDone(t)' = MonDone(t)
  BY <1>1, RecReads, MonReads
<1>3. /\ kind[t] \in {"rebuild", "restore"} /\ MonDone(t) = {} /\ excl = t
      /\ todo[t] = {} /\ keyTodo[t] = {}
      /\ \A s \in DayDone(t) : dayW[t][s] = Aggregate(RecSeen(t), s)
  BY DEF RebuildDropDays, RebuildFillDays, TxInv, Buffers, Holding, Current
<1>4. Ownership(t)'
  BY <1>1, <1>2, <1>3 DEF TxInv, Ownership, work, locks
<1>5. CASE RebuildDropDays(t)
  <2>1. pc'[t] = "fillDays" /\ DeleteOrphanDays(t, Slice)
    BY <1>5 DEF RebuildDropDays, Goto, TypeOK
  <2>2. /\ \A s \in Slice : Aggregate(RecSeen(t), s) = {} => s \in DayDone(t)'
        /\ \A s \in DayDone(t)' : dayW'[t][s] = Aggregate(RecSeen(t), s)
    BY <1>1, <1>3, <2>1, DayStatements
  <2>3. QED
    BY <1>1, <1>2, <1>3, <1>4, <2>1, <2>2
       DEF TxInv, Buffers, Holding, Covered, Current, Guards, locks, work
<1>6. CASE RebuildFillDays(t)
  <2>1. pc'[t] = "dropMonths" /\ UpsertDays(t, Slice)
    BY <1>6 DEF RebuildFillDays, Goto, TypeOK
  <2>2. /\ DayDone(t)' = DayDone(t) \cup {s \in Slice : Aggregate(RecSeen(t), s) # {}}
        /\ \A s \in DayDone(t)' : dayW'[t][s] = Aggregate(RecSeen(t), s)
    BY <1>1, <1>3, <2>1, DayStatements
  <2>3. DayDone(t)' = Slice
    BY <1>6, <2>2 DEF RebuildFillDays, TxInv, Covered, DayDone
  <2>4. \A r \in Changed(t)' : \A s \in Touches(t, r)' : s \in DayDone(t)'
    BY <2>3 DEF Touches, SliceOf, Row
  <2>5. QED
    BY <1>1, <1>2, <1>3, <1>4, <2>1, <2>2, <2>3, <2>4
       DEF TxInv, Buffers, Holding, Covered, Current, Guards, locks, work
<1>7. QED
  BY <1>5, <1>6

LEMMA RebuildMonthsKeep ==
  ASSUME TypeOK, NEW t \in Txn, TxInv(t), RebuildDropMonths(t) \/ RebuildFillMonths(t)
  PROVE  TxInv(t)'
<1>1. /\ rec' = rec /\ recW'[t] = recW[t] /\ daily' = daily /\ dayW'[t] = dayW[t]
      /\ UNCHANGED <<locks, work>>
  BY DEF RebuildDropMonths, RebuildFillMonths, store
<1>2. /\ RecSeen(t)' = RecSeen(t) /\ Changed(t)' = Changed(t)
      /\ DaySeen(t)' = DaySeen(t) /\ DayDone(t)' = DayDone(t)
  BY <1>1, RecReads, DayReads
<1>3. /\ kind[t] \in {"rebuild", "restore"} /\ DayDone(t) = Slice /\ excl = t
      /\ todo[t] = {} /\ keyTodo[t] = {}
      /\ \A s \in DayDone(t) : dayW[t][s] = Aggregate(RecSeen(t), s)
      /\ \A k \in MonDone(t) : monW[t][k] = MonthTotal(DaySeen(t), k)
  BY DEF RebuildDropMonths, RebuildFillMonths, TxInv, Buffers, Holding, Covered, Current
<1>4. Ownership(t)'
  BY <1>1, <1>2, <1>3 DEF TxInv, Ownership, work, locks
<1>5. \A r \in Changed(t)' : \A s \in Touches(t, r)' : s \in DayDone(t)'
  BY <1>2, <1>3 DEF Touches, SliceOf, Row
<1>6. (\A k : MonthTotal(DaySeen(t), k) # Unset) /\ {} # Unset
  BY MonthTotalType, RollupAssumption
<1>7. CASE RebuildDropMonths(t)
  <2>1. /\ pc'[t] = "fillMonths"
        /\ monW'[t] = [k \in Key |-> IF MonthTotal(DaySeen(t), k) = {}
                                     THEN {} ELSE monW[t][k]]
    BY <1>7 DEF RebuildDropMonths, Goto, TypeOK
  <2>2. /\ \A k \in Key : MonthTotal(DaySeen(t), k) = {} => k \in MonDone(t)'
        /\ \A k \in MonDone(t)' : monW'[t][k] = MonthTotal(DaySeen(t), k)
    BY <1>3, <1>6, <2>1 DEF MonDone
  <2>3. QED
    BY <1>1, <1>2, <1>3, <1>4, <1>5, <2>1, <2>2
       DEF TxInv, Buffers, Holding, Covered, Current, Guards, locks, work
<1>8. CASE RebuildFillMonths(t)
  <2>1. /\ pc'[t] = "commit"
        /\ monW'[t] = [k \in Key |-> IF MonthTotal(DaySeen(t), k) # {}
                                     THEN MonthTotal(DaySeen(t), k) ELSE monW[t][k]]
    BY <1>8 DEF RebuildFillMonths, Goto, TypeOK
  <2>2. \A k \in Key : MonthTotal(DaySeen(t), k) = {} => k \in MonDone(t)
    BY <1>8 DEF RebuildFillMonths, TxInv, Covered
  <2>3. /\ \A k \in Key : k \in MonDone(t)'
        /\ \A k \in MonDone(t)' : monW'[t][k] = MonthTotal(DaySeen(t), k)
    BY <1>3, <1>6, <2>1, <2>2 DEF MonDone
  <2>4. \A s \in DayDone(t) : KeyOf[s] \in Key
    BY RollupAssumption DEF DayDone
  <2>5. QED
    BY <1>1, <1>2, <1>3, <1>4, <1>5, <2>1, <2>3, <2>4
       DEF TxInv, Buffers, Holding, Covered, Current, Guards, locks, work
<1>9. QED
  BY <1>7, <1>8

LEMMA StatementKeeps ==
  ASSUME TypeOK, NEW t \in Txn, TxInv(t), Statement(t)
  PROVE  TxInv(t)'
  BY LockingKeeps, LedgerKeeps, AggregateDayKeeps, PutDayKeeps, AggregateMonthKeeps,
     PutMonthKeeps, RepairKeeps, RebuildDaysKeep, RebuildMonthsKeep DEF Statement
-----------------------------------------------------------------------------
(* What sessions do to each other.                                         *)
LEMMA LockSteps ==
  ASSUME NEW t \in Txn
  PROVE  /\ Begin(t) => UNCHANGED locks
         /\ Statement(t) => \/ LockRecord(t) \/ LockShared(t) \/ LockKey(t) \/ LockExclusive(t)
                           \/ UNCHANGED locks
<1>1. Begin(t) => UNCHANGED locks
  BY DEF Begin, BeginCreate, BeginUpdate, BeginRestore, BeginDelete, BeginPurge,
         BeginRefresh, BeginRebuild, BeginRepair
<1>2. Statement(t) =>
        LockRecord(t) \/ LockShared(t) \/ LockKey(t) \/ LockExclusive(t) \/ UNCHANGED locks
  BY DEF Statement, ReadExisting, WriteRecord, KeysLocked, AggregateDay, PutDay,
         AggregateMonth, PutMonth, RepairDelete, RepairUpsert, RestoreInsert,
         RestoreRebuild, RebuildDropDays, RebuildFillDays, RebuildDropMonths,
         RebuildFillMonths
<1>3. QED
  BY <1>1, <1>2

LEMMA LocksKeep ==
  ASSUME TypeOK, LockDiscipline, NEW t \in Txn, TxInv(t),
         Begin(t) \/ Statement(t) \/ End(t)
  PROVE  LockDiscipline'
<1> USE RollupAssumption DEF TypeOK, LockDiscipline
<1>1. CASE UNCHANGED locks
  BY <1>1 DEF locks
<1>2. CASE LockShared(t)
  BY <1>2 DEF LockShared
<1>3. CASE LockKey(t)
  BY <1>3 DEF LockKey, TxInv, Holding
<1>4. CASE LockExclusive(t)
  BY <1>4 DEF LockExclusive
<1>5. CASE LockRecord(t)
  BY <1>5 DEF LockRecord
<1>6. CASE End(t)
  BY <1>6 DEF End
<1>7. QED
  BY <1>1, <1>2, <1>3, <1>4, <1>5, <1>6, LockSteps

(* Nobody else has written a row that a session works on.                  *)
LEMMA OwnRows ==
  ASSUME TypeOK, OneWriter, NEW t \in Txn, NEW u \in Txn \ {t}, TxInv(t), TxInv(u),
         NEW r \in target[u],
         \/ r \in Changed(u)
         \/ kind[u] \in {"update", "delete", "purge"} /\ pc[u] \notin {"lockRec", "read"}
  PROVE  recW[t][r] = Unset
<1> SUFFICES ASSUME recW[t][r] # Unset PROVE FALSE
  OBVIOUS
<1>1. r \in Rec /\ r \in Changed(t) /\ r \in target[t]
  BY DEF TypeOK, TxInv, Ownership, Changed
<1>2. r \notin Changed(u)
  BY <1>1 DEF OneWriter, Changed
<1>3. recLock[r] = u /\ rec[r] # NoRow
  BY <1>2 DEF TxInv, Ownership
<1>4. kind[t] \in {"update", "delete", "purge"}
  BY <1>1, <1>3 DEF TxInv, Ownership, TypeOK, AllKinds
<1>5. pc[t] # "lockRec"
  BY <1>1 DEF TxInv, Buffers
<1>6. QED
  BY <1>1, <1>3, <1>4, <1>5 DEF TxInv, Ownership

LEMMA WritersKeep ==
  ASSUME TypeOK, OneWriter, NEW t \in Txn, \A u \in Txn : TxInv(u),
         Begin(t) \/ Statement(t) \/ End(t)
  PROVE  OneWriter'
<1>1. \A u \in Txn \ {t} : recW'[u] = recW[u]
  BY BeginFrames, StatementFrames, EndFrames DEF Frame
<1>2. ASSUME \A u \in Txn \ {t}, r \in Rec : recW'[t][r] # Unset => recW[u][r] = Unset
      PROVE  OneWriter'
  BY <1>1, <1>2 DEF OneWriter
<1>3. CASE recW'[t] = recW[t]
  BY <1>2, <1>3 DEF OneWriter
<1>4. CASE WriteRecord(t)
  <2>1. \A r \in Rec : recW'[t][r] # Unset => r \in target[t]
    BY <1>4 DEF WriteRecord, TypeOK, TxInv, Ownership, Changed
  <2>2. kind[t] \in {"update", "delete", "purge"} /\ pc[t] \notin {"lockRec", "read"}
    BY <1>4 DEF WriteRecord, TxInv, Buffers
  <2>3. \A u \in Txn \ {t}, r \in target[t] : recW[u][r] = Unset
    BY <2>2, OwnRows
  <2>4. QED
    BY <1>2, <2>1, <2>3
<1>5. ASSUME NEW r \in Rec, NEW row \in Row, BeginCreate(t, r, row) PROVE OneWriter'
  <2>1. \A u \in Txn : recW[u][r] = Unset
    BY <1>5 DEF BeginCreate, Fresh, TxInv, Ownership, Changed
  <2>2. recW'[t] = [recW[t] EXCEPT ![r] = row]
    BY <1>5 DEF BeginCreate, TypeOK
  <2>3. QED
    BY <1>2, <2>1, <2>2 DEF OneWriter, TypeOK
<1>6. ASSUME NEW r \in Rec, NEW row \in Row, RestoreInsert(t, r, row) PROVE OneWriter'
  <2>1. \A u \in Txn : recW[u][r] = Unset
    BY <1>6 DEF RestoreInsert
  <2>2. recW'[t] = [recW[t] EXCEPT ![r] = row]
    BY <1>6 DEF RestoreInsert, TypeOK
  <2>3. QED
    BY <1>2, <2>1, <2>2 DEF OneWriter, TypeOK
<1>7. CASE End(t)
  BY <1>2, <1>7 DEF End, TypeOK
<1>8. Begin(t) => \/ \E r \in Rec, row \in Row : BeginCreate(t, r, row)
                  \/ recW' = recW
  BY DEF Begin, BeginUpdate, BeginRestore, BeginDelete, BeginPurge, BeginRefresh,
         BeginRebuild, BeginRepair, writes
<1>9. Statement(t) => \/ \E r \in Rec, row \in Row : RestoreInsert(t, r, row)
                      \/ WriteRecord(t)
                      \/ recW' = recW
  BY DEF Statement, LockRecord, ReadExisting, LockShared, LockKey, KeysLocked,
         AggregateDay, PutDay, AggregateMonth, PutMonth, RepairDelete, RepairUpsert,
         RestoreRebuild, LockExclusive, RebuildDropDays, RebuildFillDays,
         RebuildDropMonths, RebuildFillMonths, writes
<1>10. QED
  BY <1>3, <1>4, <1>5, <1>6, <1>7, <1>8, <1>9

(* A commit changes nothing that another session holds the key lock or the *)
(* rebuild lock for.                                                       *)
LEMMA Isolation ==
  ASSUME IInv, NEW t \in Txn, NEW u \in Txn \ {t}, Commit(t),
         NEW s \in Slice, Guards(u, KeyOf[s])
  PROVE  /\ Aggregate(RecSeen(u)', s) = Aggregate(RecSeen(u), s)
         /\ DaySeen(u)'[s] = DaySeen(u)[s]
<1> USE RollupAssumption DEF IInv
<1>1. ~ Guards(t, KeyOf[s])
  <2>1. KeyOf[s] \in Key /\ t # NoTx /\ u # NoTx
    OBVIOUS
  <2>2. QED
    BY <2>1 DEF Guards, LockDiscipline
<1>2. s \notin DayDone(t)
  BY <1>1 DEF TxInv, Holding
<1>3. Frame(u)
  BY EndFrames DEF Commit
<1>4. DaySeen(u)'[s] = DaySeen(u)[s]
  BY <1>2, <1>3 DEF Commit, DaySeen, DayDone, Frame
<1>5. \A r \in Changed(t) : s \notin Touches(t, r)
  BY <1>2 DEF Commit, TxInv, Covered, Buffers
<1>6. ASSUME NEW r \in Rec
      PROVE  \/ RecSeen(u)'[r] = RecSeen(u)[r]
             \/ s \notin SliceOf(RecSeen(u)'[r]) /\ s \notin SliceOf(RecSeen(u)[r])
  <2>1. CASE recW[u][r] # Unset
    BY <1>3, <2>1 DEF RecSeen, Frame
  <2>2. CASE recW[u][r] = Unset /\ recW[t][r] = Unset
    BY <1>3, <2>2 DEF Commit, RecSeen, Frame
  <2>3. CASE recW[u][r] = Unset /\ recW[t][r] # Unset
    <3>1. RecSeen(u)[r] = rec[r] /\ RecSeen(u)'[r] = recW[t][r]
      BY <1>3, <2>3 DEF Commit, RecSeen, Frame
    <3>2. s \notin Touches(t, r)
      BY <1>5, <2>3 DEF Changed
    <3>3. QED
      BY <3>1, <3>2 DEF Touches
  <2>4. QED
    BY <2>1, <2>2, <2>3
<1>7. Agree(RecSeen(u)', RecSeen(u), s)
  BY <1>6 DEF Agree
<1>8. QED
  BY <1>4, <1>7, AggregateSame

LEMMA MonthIsolation ==
  ASSUME IInv, NEW t \in Txn, NEW u \in Txn \ {t}, Commit(t),
         NEW k \in Key, Guards(u, k)
  PROVE  MonthTotal(DaySeen(u)', k) = MonthTotal(DaySeen(u), k)
  BY Isolation, MonthTotalSame

LEMMA CommitKeepsOthers ==
  ASSUME IInv, NEW t \in Txn, NEW u \in Txn \ {t}, Commit(t)
  PROVE  TxInv(u)'
<1>0. /\ Frame(u) /\ TxInv(u) /\ TypeOK /\ OneWriter /\ TxInv(t)
      /\ \A r \in Rec : rec'[r] = RecSeen(t)[r]
  BY EndFrames DEF Commit, IInv, RecSeen
<1>1. /\ Changed(u)' = Changed(u) /\ DayDone(u)' = DayDone(u) /\ MonDone(u)' = MonDone(u)
  BY <1>0 DEF Frame, Changed, DayDone, MonDone
<1>2. ASSUME NEW r \in target[u],
             \/ r \in Changed(u)
             \/ /\ kind[u] \in {"update", "delete", "purge"}
                /\ pc[u] \notin {"lockRec", "read"}
      PROVE  rec'[r] = rec[r]
  <2>1. r \in Rec
    BY <1>0 DEF TypeOK
  <2>2. recW[t][r] = Unset
    BY <1>0, <1>2, OwnRows
  <2>3. QED
    BY <1>0, <2>1, <2>2 DEF RecSeen
<1>3. \A r \in Changed(u) : rec'[r] = rec[r] /\ Touches(u, r)' = Touches(u, r)
  <2>1. Changed(u) \subseteq target[u]
    BY <1>0 DEF TxInv, Ownership
  <2>2. QED
    BY <1>0, <1>2, <2>1 DEF Touches, Frame, SliceOf
<1>4. Ownership(u)'
  <2>1. kind[u] \in {"create", "restore"} => \A r \in target[u] : r \in Changed(u)
    BY <1>0 DEF TxInv, Ownership, Changed, TypeOK
  <2>2. QED
    BY <1>0, <1>1, <1>2, <1>3, <2>1 DEF TxInv, Ownership, Frame, TypeOK, SliceOf
<1>5. Buffers(u)'
  BY <1>0, <1>1 DEF TxInv, Buffers, Frame
<1>6. Holding(u)'
  BY <1>0, <1>1, RollupAssumption DEF TypeOK, TxInv, Holding, Frame, Guards, DayDone, MonDone
<1>7. Covered(u)'
  <2>1. pc[u] = "write" => \A r \in target[u] : rec'[r] = rec[r]
    BY <1>0, <1>2 DEF TxInv, Buffers
  <2>2. pc[u] = "fillDays" =>
          \A s \in Slice : Aggregate(RecSeen(u)', s) = Aggregate(RecSeen(u), s)
    BY <1>0, Isolation DEF TxInv, Holding, Guards
  <2>3. pc[u] = "fillMonths" =>
          \A k \in Key : MonthTotal(DaySeen(u)', k) = MonthTotal(DaySeen(u), k)
    BY <1>0, MonthIsolation DEF TxInv, Holding, Guards
  <2>4. QED
    BY ONLY <1>0, <1>1, <1>3, <2>1, <2>2, <2>3 DEF TxInv, Covered, Frame, SliceOf
<1>8. Current(u)'
  <2>1. \A s \in DayDone(u) : Aggregate(RecSeen(u)', s) = Aggregate(RecSeen(u), s)
    BY <1>0, Isolation DEF TxInv, Holding, DayDone
  <2>2. \A k \in MonDone(u) : MonthTotal(DaySeen(u)', k) = MonthTotal(DaySeen(u), k)
    BY <1>0, MonthIsolation DEF TxInv, Holding, MonDone
  <2>3. pc[u] = "putDay" =>
          \A s \in todo[u] : Aggregate(RecSeen(u)', s) = Aggregate(RecSeen(u), s)
    BY <1>0, Isolation DEF TxInv, Holding, Guards, TypeOK
  <2>4. pc[u] = "putMonth" =>
          \A k \in keyTodo[u] : MonthTotal(DaySeen(u)', k) = MonthTotal(DaySeen(u), k)
    BY <1>0, MonthIsolation DEF TxInv, Holding, Guards, TypeOK
  <2>5. QED
    BY ONLY <1>0, <1>1, <2>1, <2>2, <2>3, <2>4 DEF TxInv, Current, Frame
<1>9. QED
  BY <1>4, <1>5, <1>6, <1>7, <1>8 DEF TxInv

(* A commit publishes exact totals.                                        *)
LEMMA CommitExact ==
  ASSUME IInv, NEW t \in Txn, Commit(t)
  PROVE  DailyExact' /\ MonthlyExact'
<1>1. /\ todo[t] = {} /\ keyTodo[t] = {}
      /\ \A r \in Changed(t) : \A s \in Touches(t, r) : s \in DayDone(t)
      /\ \A s \in DayDone(t) : KeyOf[s] \in MonDone(t)
      /\ \A s \in DayDone(t) : dayW[t][s] = Aggregate(RecSeen(t), s)
      /\ \A k \in MonDone(t) : monW[t][k] = MonthTotal(DaySeen(t), k)
  BY DEF Commit, IInv, TxInv, Buffers, Covered, Current
<1>2. rec' = RecSeen(t) /\ daily' = DaySeen(t) /\ monthly' = MonSeen(t)
  BY DEF Commit
<1>3. ASSUME NEW s \in Slice PROVE daily'[s] = Aggregate(rec', s)
  <2>1. CASE s \in DayDone(t)
    BY <1>1, <1>2, <2>1 DEF DaySeen, DayDone
  <2>2. CASE s \notin DayDone(t)
    <3>1. daily'[s] = Aggregate(rec, s)
      BY <1>2, <2>2 DEF DaySeen, DayDone, IInv, DailyExact
    <3>2. ASSUME NEW r \in Rec
          PROVE  \/ rec[r] = rec'[r]
                 \/ s \notin SliceOf(rec[r]) /\ s \notin SliceOf(rec'[r])
      BY <1>1, <1>2, <2>2 DEF RecSeen, Changed, Touches
    <3>3. Agree(rec, rec', s)
      BY <3>2 DEF Agree
    <3>4. QED
      BY <3>1, <3>3, AggregateSame
  <2>3. QED
    BY <2>1, <2>2
<1>4. ASSUME NEW k \in Key PROVE monthly'[k] = MonthTotal(daily', k)
  <2>1. CASE k \in MonDone(t)
    BY <1>1, <1>2, <2>1 DEF MonSeen, MonDone
  <2>2. CASE k \notin MonDone(t)
    <3>1. monthly'[k] = MonthTotal(daily, k)
      BY <1>2, <2>2 DEF MonSeen, MonDone, IInv, MonthlyExact
    <3>2. \A s \in Slice : KeyOf[s] = k => daily[s] = daily'[s]
      BY <1>1, <1>2, <2>2 DEF DaySeen, DayDone
    <3>3. QED
      BY <3>1, <3>2, MonthTotalSame
  <2>3. QED
    BY <2>1, <2>2
<1>5. QED
  BY <1>3, <1>4 DEF DailyExact, MonthlyExact
-----------------------------------------------------------------------------
LEMMA IInvInit == Init => IInv
<1> SUFFICES ASSUME Init PROVE IInv
  OBVIOUS
<1>1. TypeOK
  BY TypeInit
<1>2. DailyExact
  <2>1. \A s \in Slice : Aggregate(rec, s) = {}
    BY RollupAssumption DEF Init, Aggregate, Entry
  <2>2. QED
    BY <2>1 DEF Init, DailyExact
<1>3. MonthlyExact
  BY DEF Init, MonthlyExact, MonthTotal
<1>4. LockDiscipline /\ OneWriter
  BY DEF Init, LockDiscipline, OneWriter
<1>5. ASSUME NEW t \in Txn PROVE TxInv(t)
  BY DEF Init, TxInv, Ownership, Buffers, Holding, Covered, Current, Changed, DayDone, MonDone
<1>6. QED
  BY <1>1, <1>2, <1>3, <1>4, <1>5 DEF IInv

LEMMA IInvNext == IInv /\ [Next]_vars => IInv'
<1> SUFFICES ASSUME IInv, [Next]_vars PROVE IInv'
  OBVIOUS
<1>1. TypeOK'
  BY TypeNext DEF IInv
<1>2. CASE UNCHANGED vars
  <2>1. \A t : Frame(t)
    BY <1>2 DEF vars, work, writes, locks, Frame
  <2>2. \A t \in Txn : TxInv(t)'
    BY <1>2, <2>1, FrameKeeps DEF IInv, vars
  <2>3. QED
    BY <1>1, <1>2, <2>2
       DEF IInv, vars, store, locks, writes, DailyExact, MonthlyExact, LockDiscipline, OneWriter
<1>3. ASSUME NEW t \in Txn, Begin(t) \/ Statement(t) \/ (End(t) /\ UNCHANGED store)
      PROVE  IInv'
  <2>1. UNCHANGED store
    <3>1. Begin(t) => UNCHANGED store
      BY DEF Begin, BeginCreate, BeginUpdate, BeginRestore, BeginDelete, BeginPurge,
             BeginRefresh, BeginRebuild, BeginRepair
    <3>2. Statement(t) => UNCHANGED store
      BY DEF Statement, LockRecord, ReadExisting, WriteRecord, LockShared, LockKey,
             KeysLocked, AggregateDay, PutDay, AggregateMonth, PutMonth, RepairDelete,
             RepairUpsert, RestoreInsert, RestoreRebuild, LockExclusive, RebuildDropDays,
             RebuildFillDays, RebuildDropMonths, RebuildFillMonths
    <3>3. QED
      BY <1>3, <3>1, <3>2
  <2>2. DailyExact' /\ MonthlyExact'
    BY <2>1 DEF store, IInv, DailyExact, MonthlyExact
  <2>3. LockDiscipline' /\ OneWriter'
    BY <1>3, LocksKeep, WritersKeep DEF IInv
  <2>4. TxInv(t)'
    BY <1>3, BeginKeeps, StatementKeeps, EndKeeps DEF IInv
  <2>5. ASSUME NEW u \in Txn \ {t} PROVE TxInv(u)'
    <3>1. Frame(u)
      BY <1>3, BeginFrames, StatementFrames, EndFrames DEF IInv
    <3>2. QED
      BY <2>1, <3>1, FrameKeeps DEF IInv
  <2>6. QED
    BY <1>1, <2>2, <2>3, <2>4, <2>5 DEF IInv
<1>4. ASSUME NEW t \in Txn, Commit(t) PROVE IInv'
  <2>1. LockDiscipline' /\ OneWriter'
    BY <1>4, LocksKeep, WritersKeep DEF IInv, Commit
  <2>2. TxInv(t)'
    BY <1>4, EndKeeps DEF IInv, Commit
  <2>3. QED
    BY <1>1, <1>4, <2>1, <2>2, CommitExact, CommitKeepsOthers DEF IInv
<1>5. QED
  BY <1>2, <1>3, <1>4 DEF Next, Statement, ReturnUnchanged, Rollback

(* The committed daily rollup of every slice is the aggregate of the       *)
(* committed ledger, whatever transactions interleave.                     *)
THEOREM DailyCorrect == Spec => []DailyExact
<1>1. IInv => DailyExact
  BY DEF IInv
<1>2. QED
  BY <1>1, IInvInit, IInvNext, PTL DEF Spec

(* The committed monthly rollup of every key is the sum of its days.       *)
THEOREM MonthlyCorrect == Spec => []MonthlyExact
<1>1. IInv => MonthlyExact
  BY DEF IInv
<1>2. QED
  BY <1>1, IInvInit, IInvNext, PTL DEF Spec

(* A retention purge never removes a payment that was moved past the       *)
(* cutoff while the purge was under way.                                   *)
THEOREM PurgeCorrect == Spec => PurgeOnlyExpired
<1>1. IInv /\ [Next]_vars =>
        [\A t \in Txn, r \in Rec :
           /\ kind[t] = "purge" /\ pc[t] = "commit" /\ r \in target[t]
           /\ rec[r] # NoRow /\ rec'[r] = NoRow
           => SliceOf(rec[r]) \cap Expired # {}]_vars
  BY DEF IInv, TxInv, Ownership
<1>2. QED
  BY <1>1, IInvInit, IInvNext, PTL DEF Spec, PurgeOnlyExpired
-----------------------------------------------------------------------------
(* Lock waits.  Record locks come first and in id order, then the rebuild  *)
(* lock, then the key locks in key order: what a session holds comes       *)
(* before what it waits for.                                               *)
Queued(t) ==
  /\ \A r \in Rec : recLock[r] = t => kind[t] \in {"update", "delete", "purge"}
  /\ pc[t] = "lockRec" => /\ RecsWanted(t) # {}
                          /\ \A r \in Rec, w \in RecsWanted(t) : recLock[r] = t => r < w
  /\ pc[t] = "lockKeys" => \A k \in Key, w \in KeysWanted(t) : keyLock[k] = t => k < w
  /\ t \in shared => pc[t] \in {"lockKeys", "day", "putDay", "month", "putMonth",
                                "repairDelete", "repairUpsert", "commit"}
  /\ excl = t => pc[t] \in {"dropDays", "fillDays", "dropMonths", "fillMonths", "commit"}

QueueInv == IInv /\ \A t \in Txn : Queued(t)

(* A set of numbers that is not empty has a least one.                     *)
LEMMA LeastNat ==
  ASSUME NEW S \in SUBSET Nat, S # {}
  PROVE  \E n \in S : \A m \in S : n <= m
<1> DEFINE R == OpToRel(<, Nat)
<1>1. IsWellFoundedOn(R, Nat)
  BY NatLessThanWellFounded
<1>2. \A m, n \in Nat : m < n => <<m, n>> \in R
  BY DEF OpToRel
<1> HIDE DEF R
<1>3. \E n \in S : \A m \in S : ~ (<<m, n>> \in R)
  BY <1>1, WFMin
<1>4. PICK n \in S : \A m \in S : ~ (<<m, n>> \in R)
  BY <1>3
<1>5. \A m \in S : ~ (m < n)
  <2> SUFFICES ASSUME NEW m \in S PROVE ~ (m < n)
    OBVIOUS
  <2>1. m \in Nat /\ n \in Nat
    OBVIOUS
  <2> QED BY <2>1, <1>2, <1>4, Zenon
<1> QED BY <1>5

LEMMA Smallest ==
  ASSUME NEW S \in SUBSET Nat, S # {}
  PROVE  SmallestOf(S) \in S /\ \A y \in S : SmallestOf(S) <= y
  BY LeastNat DEF SmallestOf

LEMMA Wanted ==
  ASSUME TypeOK, NEW t \in Txn
  PROVE  /\ RecsWanted(t) \in SUBSET Rec /\ RecsWanted(t) \in SUBSET Nat
         /\ KeysWanted(t) \in SUBSET Key /\ KeysWanted(t) \in SUBSET Nat
<1>1. RecsWanted(t) \in SUBSET Rec
  BY DEF TypeOK, RecsWanted
<1>2. KeysWanted(t) \in SUBSET Key
  BY RollupAssumption DEF TypeOK, KeysWanted, KeysOf, Scope
<1> QED BY <1>1, <1>2, RollupAssumption

(* A step of one session leaves the locks of another as they are.          *)
LEMMA OthersLocks ==
  ASSUME TypeOK, NEW t \in Txn, NEW u \in Txn \ {t}, Begin(t) \/ Statement(t) \/ End(t)
  PROVE  /\ \A r \in Rec : recLock'[r] = u <=> recLock[r] = u
         /\ \A k \in Key : keyLock'[k] = u <=> keyLock[k] = u
         /\ u \in shared' <=> u \in shared
         /\ excl' = u <=> excl = u
<1> USE RollupAssumption DEF TypeOK
<1>1. CASE UNCHANGED locks
  BY <1>1 DEF locks
<1>2. CASE LockShared(t)
  BY <1>2 DEF LockShared
<1>3. CASE LockKey(t)
  BY <1>3 DEF LockKey
<1>4. CASE LockExclusive(t)
  BY <1>4 DEF LockExclusive
<1>5. CASE LockRecord(t)
  BY <1>5 DEF LockRecord
<1>6. CASE End(t)
  BY <1>6 DEF End
<1> QED BY <1>1, <1>2, <1>3, <1>4, <1>5, <1>6, LockSteps

LEMMA QueuedOthers ==
  ASSUME TypeOK, NEW t \in Txn, NEW u \in Txn \ {t}, Queued(u),
         Begin(t) \/ Statement(t) \/ End(t)
  PROVE  Queued(u)'
<1>1. Frame(u)
  BY BeginFrames, StatementFrames, EndFrames
<1>2. RecsWanted(u)' = RecsWanted(u)
  BY <1>1, OthersLocks DEF RecsWanted, Frame, TypeOK
<1>3. KeysWanted(u)' = KeysWanted(u)
  <2>1. KeysOf(Scope(u)) \in SUBSET Key
    BY RollupAssumption DEF TypeOK, KeysOf, Scope
  <2>2. Scope(u)' = Scope(u)
    BY <1>1 DEF Frame, Scope
  <2> QED BY <2>1, <2>2, OthersLocks DEF KeysWanted, KeysOf
<1> QED BY <1>1, <1>2, <1>3, OthersLocks DEF Queued, Frame

LEMMA QueuedBegin ==
  ASSUME IInv, NEW t \in Txn, Queued(t), Begin(t)
  PROVE  Queued(t)'
<1>1. pc[t] = "idle" /\ kind[t] = "none"
  BY DEF Begin, BeginCreate, BeginUpdate, BeginRestore, BeginDelete, BeginPurge,
         BeginRefresh, BeginRebuild, BeginRepair, Start, IInv, TxInv, Buffers
<1>2. UNCHANGED locks
  BY LockSteps
<1>3. /\ \A r \in Rec : recLock'[r] # t
      /\ t \notin shared'
      /\ excl' # t
  BY <1>1, <1>2 DEF Queued, locks
<1>4. \A k \in Key : keyLock'[k] # t
  BY <1>2, <1>3, RollupAssumption DEF IInv, LockDiscipline, locks
<1>5. pc'[t] = "lockRec" => target'[t] # {} /\ target'[t] \subseteq Rec
  <2>0. TypeOK
    BY DEF IInv
  <2> USE <2>0 DEF Start, Goto, TypeOK
  <2>1. CASE \E r \in Rec, row \in Row : BeginCreate(t, r, row)
    BY <2>1 DEF BeginCreate
  <2>2. CASE \E r \in Rec, row \in Row : BeginUpdate(t, r, row)
    BY <2>2 DEF BeginUpdate
  <2>3. CASE \E r \in Rec : BeginDelete(t, r)
    BY <2>3 DEF BeginDelete
  <2>4. CASE BeginPurge(t)
    BY <2>4 DEF BeginPurge
  <2>5. CASE \E s \in Slice : BeginRefresh(t, s)
    BY <2>5 DEF BeginRefresh
  <2>6. CASE BeginRebuild(t) \/ BeginRestore(t)
    BY <2>6 DEF BeginRebuild, BeginRestore
  <2>7. CASE \E S \in RepairScopes : BeginRepair(t, S)
    BY <2>7 DEF BeginRepair
  <2> QED BY <2>1, <2>2, <2>3, <2>4, <2>5, <2>6, <2>7 DEF Begin
<1>6. pc'[t] = "lockRec" => RecsWanted(t)' # {}
  BY <1>3, <1>5 DEF RecsWanted
<1> QED BY <1>3, <1>4, <1>6 DEF Queued

LEMMA QueuedStatement ==
  ASSUME IInv, NEW t \in Txn, Queued(t), Statement(t)
  PROVE  Queued(t)'
<1>0. /\ TypeOK /\ LockDiscipline /\ Buffers(t)
      /\ RecsWanted(t) \in SUBSET Nat /\ KeysWanted(t) \in SUBSET Nat
      /\ RecsWanted(t) \in SUBSET Rec /\ KeysWanted(t) \in SUBSET Key
  BY Wanted DEF IInv, TxInv
<1>1. CASE LockRecord(t)
  <2> DEFINE m == SmallestOf(RecsWanted(t))
  <2>1. /\ m \in RecsWanted(t) /\ \A w \in RecsWanted(t) : m <= w
        /\ m \in Rec /\ \A w \in RecsWanted(t) : w \in Nat
    BY <1>0, <1>1, Smallest DEF LockRecord
  <2>2. /\ recLock' = [recLock EXCEPT ![m] = t] /\ target' = target /\ kind' = kind
        /\ pc[t] = "lockRec" /\ pc'[t] = IF RecsWanted(t) = {m} THEN "read" ELSE "lockRec"
        /\ shared' = shared /\ excl' = excl
    BY <1>0, <1>1 DEF LockRecord, work, Goto, TypeOK
  <2> HIDE DEF m
  <2>3. RecsWanted(t)' = RecsWanted(t) \ {m}
    BY <1>0, <2>1, <2>2 DEF RecsWanted, TypeOK
  <2>4. kind'[t] \in {"update", "delete", "purge"}
    BY <1>0, <2>2 DEF Buffers
  <2>5. ASSUME NEW r \in Rec, NEW w \in RecsWanted(t)', recLock'[r] = t
        PROVE  r < w
    <3>1. w \in RecsWanted(t) /\ w # m /\ w \in Nat /\ m \in Nat /\ m <= w
      BY <2>1, <2>3, <2>5
    <3>2. CASE r = m
      BY <3>1, <3>2
    <3>3. CASE r # m
      <4>1. recLock[r] = t
        BY <2>2, <2>5, <3>3, <1>0 DEF TypeOK
      <4> QED BY <2>2, <3>1, <4>1 DEF Queued
    <3> QED BY <3>2, <3>3
  <2>6. pc'[t] = "lockRec" => RecsWanted(t)' # {}
    BY <2>1, <2>2, <2>3
  <2>7. t \notin shared' /\ excl' # t
    BY <2>2 DEF Queued
  <2>8. pc'[t] # "lockKeys"
    BY <2>2
  <2> QED BY <2>4, <2>5, <2>6, <2>7, <2>8 DEF Queued
<1>2. CASE LockKey(t)
  <2> DEFINE m == SmallestOf(KeysWanted(t))
  <2>1. /\ m \in KeysWanted(t) /\ \A w \in KeysWanted(t) : m <= w
        /\ m \in Key /\ \A w \in KeysWanted(t) : w \in Nat
    BY <1>0, <1>2, Smallest DEF LockKey
  <2>2. /\ keyLock' = [keyLock EXCEPT ![m] = t] /\ kind' = kind /\ todo' = todo /\ curDay' = curDay
        /\ pc[t] = "lockKeys" /\ pc' = pc
        /\ shared' = shared /\ excl' = excl /\ recLock' = recLock
    BY <1>2 DEF LockKey, work
  <2> HIDE DEF m
  <2>3. KeysWanted(t)' = KeysWanted(t) \ {m}
    <3>1. KeysOf(Scope(t))' = KeysOf(Scope(t))
      BY <2>2 DEF KeysOf, Scope
    <3>2. KeysOf(Scope(t)) \in SUBSET Key
      BY <1>0, RollupAssumption DEF TypeOK, KeysOf, Scope
    <3> QED BY <1>0, <2>1, <2>2, <3>1, <3>2 DEF KeysWanted, TypeOK
  <2>4. ASSUME NEW k \in Key, NEW w \in KeysWanted(t)', keyLock'[k] = t
        PROVE  k < w
    <3>1. w \in KeysWanted(t) /\ w # m /\ w \in Nat /\ m \in Nat /\ m <= w
      BY <2>1, <2>3, <2>4
    <3>2. CASE k = m
      BY <3>1, <3>2
    <3>3. CASE k # m
      <4>1. keyLock[k] = t
        BY <2>2, <2>4, <3>3, <1>0 DEF TypeOK
      <4> QED BY <2>2, <3>1, <4>1 DEF Queued
    <3> QED BY <3>2, <3>3
  <2> QED BY <2>2, <2>4 DEF Queued
<1>3. CASE LockShared(t)
  <2>1. /\ pc[t] = "shared" /\ pc'[t] = "lockKeys" /\ kind' = kind
        /\ keyLock' = keyLock /\ excl' = excl /\ recLock' = recLock
    BY <1>0, <1>3 DEF LockShared, work, Goto, TypeOK
  <2>2. t \notin shared /\ excl # t
    BY <2>1 DEF Queued
  <2>3. \A k \in Key : keyLock[k] # t
    BY <1>0, <2>2, RollupAssumption DEF LockDiscipline
  <2> QED BY <2>1, <2>2, <2>3 DEF Queued
<1>4. CASE LockExclusive(t)
  <2>1. /\ pc[t] = "excl" /\ pc'[t] = "dropDays" /\ kind' = kind
        /\ shared' = shared /\ recLock' = recLock
    BY <1>0, <1>4 DEF LockExclusive, work, Goto, TypeOK
  <2> QED BY <2>1 DEF Queued
<1>5. CASE UNCHANGED locks /\ ~LockRecord(t) /\ ~LockKey(t)
  <2>1. /\ kind' = kind /\ pc'[t] \notin {"lockRec", "lockKeys"}
        /\ pc[t] \in {"lockKeys", "day", "putDay", "month", "putMonth", "repairDelete",
                      "repairUpsert"}
             => pc'[t] \in {"day", "putDay", "month", "putMonth", "repairDelete",
                            "repairUpsert", "commit"}
        /\ pc[t] \in {"dropDays", "fillDays", "dropMonths", "fillMonths"}
             => pc'[t] \in {"fillDays", "dropMonths", "fillMonths", "commit"}
        /\ pc[t] # "commit"
    <3> USE <1>0, <1>5 DEF Goto, work, TypeOK
    <3>1. CASE ReadExisting(t) \/ WriteRecord(t) \/ KeysLocked(t)
      BY <3>1 DEF ReadExisting, WriteRecord, KeysLocked
    <3>2. CASE \E s \in Slice : AggregateDay(t, s)
      BY <3>2 DEF AggregateDay
    <3>3. CASE PutDay(t) \/ PutMonth(t)
      BY <3>3 DEF PutDay, PutMonth
    <3>4. CASE \E k \in Key : AggregateMonth(t, k)
      BY <3>4 DEF AggregateMonth
    <3>5. CASE RepairDelete(t) \/ RepairUpsert(t)
      BY <3>5 DEF RepairDelete, RepairUpsert
    <3>6. CASE \E r \in Rec, row \in Row : RestoreInsert(t, r, row)
      BY <3>6 DEF RestoreInsert
    <3>7. CASE RestoreRebuild(t)
      BY <3>7 DEF RestoreRebuild
    <3>8. CASE RebuildDropDays(t) \/ RebuildFillDays(t)
      BY <3>8 DEF RebuildDropDays, RebuildFillDays
    <3>9. CASE RebuildDropMonths(t) \/ RebuildFillMonths(t)
      BY <3>9 DEF RebuildDropMonths, RebuildFillMonths
    <3>10. CASE LockShared(t)
      <4>1. t \notin shared /\ t \in shared'
        BY <3>10 DEF LockShared, Queued
      <4> QED BY <4>1 DEF locks
    <3>11. CASE LockExclusive(t)
      <4>1. excl # t /\ excl' = t
        BY <3>11 DEF LockExclusive, Queued
      <4> QED BY <4>1 DEF locks
    <3> QED BY <3>1, <3>2, <3>3, <3>4, <3>5, <3>6, <3>7, <3>8, <3>9, <3>10, <3>11
            DEF Statement
  <2> QED BY <1>5, <2>1 DEF Queued, locks
<1> QED BY <1>1, <1>2, <1>3, <1>4, <1>5, LockSteps

LEMMA QueuedEnd ==
  ASSUME TypeOK, LockDiscipline, NEW t \in Txn, End(t)
  PROVE  Queued(t)'
<1>1. /\ \A r \in Rec : recLock'[r] # t
      /\ t \notin shared' /\ excl' # t /\ pc'[t] = "idle"
  BY RollupAssumption DEF End, TypeOK, Goto
<1> QED BY <1>1 DEF Queued

(* At every moment, every session waits in the order of the locks.         *)
THEOREM WaitsAreOrdered == Spec => []QueueInv
<1>1. Init => QueueInv
  <2> SUFFICES ASSUME Init PROVE QueueInv
    OBVIOUS
  <2>1. ASSUME NEW t \in Txn PROVE Queued(t)
    BY RollupAssumption DEF Init, Queued
  <2> QED BY <2>1, IInvInit DEF QueueInv
<1>2. QueueInv /\ [Next]_vars => QueueInv'
  <2> SUFFICES ASSUME QueueInv, [Next]_vars PROVE QueueInv'
    OBVIOUS
  <2>1. IInv'
    BY IInvNext DEF QueueInv
  <2>2. CASE UNCHANGED vars
    <3>1. ASSUME NEW u \in Txn PROVE Queued(u)'
      BY <2>2 DEF QueueInv, vars, locks, work, Queued, RecsWanted, KeysWanted, KeysOf, Scope
    <3> QED BY <2>1, <3>1 DEF QueueInv
  <2>3. ASSUME NEW t \in Txn, Begin(t) \/ Statement(t) \/ End(t), NEW u \in Txn
        PROVE  Queued(u)'
    BY <2>3, QueuedOthers, QueuedBegin, QueuedStatement, QueuedEnd DEF QueueInv, IInv
  <2>4. Next => \E t \in Txn : Begin(t) \/ Statement(t) \/ End(t)
    BY DEF Next, Statement, Commit, ReturnUnchanged, Rollback
  <2> QED BY <2>1, <2>2, <2>3, <2>4 DEF QueueInv
<1> QED BY <1>1, <1>2, PTL DEF Spec

(* How far a waiting session has come in the order of the locks.           *)
Level(t) == CASE pc[t] = "lockRec" -> 1
              [] pc[t] \in {"shared", "excl"} -> 2
              [] OTHER -> 3
Number(t) == CASE pc[t] = "lockRec" -> SmallestOf(RecsWanted(t))
               [] pc[t] = "lockKeys" /\ KeysWanted(t) # {} -> SmallestOf(KeysWanted(t))
               [] OTHER -> 0
Later(t, u) == Level(t) < Level(u) \/ (Level(t) = Level(u) /\ Number(t) < Number(u))

(* A session that is waited for, and waits itself, waits further on.       *)
LEMMA WaitsAhead ==
  ASSUME QueueInv, NEW t \in Txn, NEW u \in WaitsFor(t), u \in Txn, WaitsFor(u) # {}
  PROVE  Later(t, u)
<1>0. /\ TypeOK /\ LockDiscipline /\ Queued(t) /\ Queued(u) /\ u # t /\ u # NoTx
      /\ Buffers(t) /\ Buffers(u)
  BY DEF QueueInv, IInv, TxInv, WaitsFor
<1>1. /\ pc[u] \in {"lockRec", "shared", "lockKeys", "excl"}
      /\ pc[u] = "lockKeys" => KeysWanted(u) # {}
  BY DEF WaitsFor
<1>2. CASE pc[t] = "lockRec"
  <2>1. RecsWanted(t) # {} /\ recLock[SmallestOf(RecsWanted(t))] = u
    BY <1>0, <1>2 DEF WaitsFor, Queued
  <2>2. SmallestOf(RecsWanted(t)) \in Rec
    BY <1>0, <2>1, Wanted, Smallest
  <2>3. CASE pc[u] = "lockRec"
    <3>1. SmallestOf(RecsWanted(u)) \in RecsWanted(u)
      BY <1>0, <2>3, Wanted, Smallest DEF Queued
    <3>2. SmallestOf(RecsWanted(t)) < SmallestOf(RecsWanted(u))
      BY <1>0, <2>1, <2>2, <2>3, <3>1 DEF Queued
    <3> QED BY <1>2, <2>3, <3>2 DEF Later, Level, Number
  <2>4. CASE pc[u] # "lockRec"
    BY <1>2, <2>4 DEF Later, Level
  <2> QED BY <2>3, <2>4
<1>3. CASE pc[t] = "shared"
  <2>1. excl = u
    BY <1>3 DEF WaitsFor
  <2> QED BY <1>0, <1>1, <2>1 DEF Queued
<1>4. CASE pc[t] = "excl"
  <2>1. excl = u \/ u \in shared
    BY <1>4 DEF WaitsFor
  <2>2. pc[u] = "lockKeys"
    BY <1>0, <1>1, <2>1 DEF Queued
  <2> QED BY <1>4, <2>2 DEF Later, Level
<1>5. CASE pc[t] = "lockKeys"
  <2>1. KeysWanted(t) # {} /\ keyLock[SmallestOf(KeysWanted(t))] = u
    BY <1>0, <1>5 DEF WaitsFor
  <2>2. SmallestOf(KeysWanted(t)) \in Key
    BY <1>0, <2>1, Wanted, Smallest
  <2>3. u \in shared
    BY <1>0, <2>1, <2>2 DEF LockDiscipline
  <2>4. pc[u] = "lockKeys" /\ KeysWanted(u) # {}
    BY <1>0, <1>1, <2>3 DEF Queued
  <2>5. SmallestOf(KeysWanted(u)) \in KeysWanted(u)
    BY <1>0, <2>4, Wanted, Smallest
  <2>6. SmallestOf(KeysWanted(t)) < SmallestOf(KeysWanted(u))
    BY <1>0, <2>1, <2>2, <2>4, <2>5 DEF Queued
  <2> QED BY <1>5, <2>1, <2>4, <2>6 DEF Later, Level, Number
<1>6. pc[t] \in {"lockRec", "shared", "lockKeys", "excl"}
  BY DEF WaitsFor
<1> QED BY <1>2, <1>3, <1>4, <1>5, <1>6

LEMMA RankIsNat ==
  ASSUME QueueInv, NEW t \in Txn
  PROVE  Level(t) \in Nat /\ Number(t) \in Nat
<1>1. TypeOK /\ Queued(t)
  BY DEF QueueInv, IInv
<1>2. pc[t] = "lockRec" => SmallestOf(RecsWanted(t)) \in Nat
  BY <1>1, Wanted, Smallest DEF Queued
<1>3. KeysWanted(t) # {} => SmallestOf(KeysWanted(t)) \in Nat
  BY <1>1, Wanted, Smallest
<1> QED BY <1>2, <1>3 DEF Level, Number

(* Sorted record locks, the rebuild lock and sorted key locks never        *)
(* deadlock, however many sessions refresh, purge, repair and rebuild: no  *)
(* group of sessions waits only for one another.                           *)
THEOREM LocksNeverCycle == Spec => []NoLockCycle
<1>1. QueueInv => NoLockCycle
  <2> SUFFICES ASSUME QueueInv, NEW T \in SUBSET Txn, T # {},
                      \A t \in T : WaitsFor(t) \cap T # {}
               PROVE  FALSE
    BY DEF NoLockCycle
  <2> DEFINE Above(t) == {w \in T : Later(t, w)}
             N == {Cardinality(Above(t)) : t \in T}
  <2>1. ASSUME NEW t \in T, NEW u \in WaitsFor(t) \cap T
        PROVE  Later(t, u)
    BY WaitsAhead
  <2>2. \A t \in T : Level(t) \in Nat /\ Number(t) \in Nat
    BY RankIsNat
  <2>3. IsFiniteSet(T)
    BY RollupAssumption, FS_Subset
  <2>4. \A t \in T : IsFiniteSet(Above(t)) /\ Cardinality(Above(t)) \in Nat
    BY <2>3, FS_Subset, FS_CardinalityType
  <2>5. N \in SUBSET Nat /\ N # {}
    BY <2>4
  <2>6. PICK n \in N : \A m \in N : n <= m
    BY <2>5, LeastNat
  <2>7. PICK t \in T : n = Cardinality(Above(t))
    BY <2>6
  <2>8. PICK u \in T : u \in WaitsFor(t)
    OBVIOUS
  <2>9. Later(t, u)
    BY <2>1, <2>8
  <2>10. u \in Above(t) /\ u \notin Above(u)
    BY <2>2, <2>9 DEF Later
  <2>11. Above(u) \subseteq Above(t)
    BY <2>2, <2>9 DEF Later
  <2>12. Cardinality(Above(u)) <= Cardinality(Above(t)) /\ Cardinality(Above(u)) # Cardinality(Above(t))
    BY <2>4, <2>10, <2>11, FS_Subset
  <2>13. Cardinality(Above(t)) <= Cardinality(Above(u))
    BY <2>6, <2>7
  <2>14. Cardinality(Above(t)) \in Nat /\ Cardinality(Above(u)) \in Nat
    BY <2>4
  <2> HIDE DEF Above
  <2> QED BY <2>12, <2>13, <2>14
<1> QED BY <1>1, WaitsAreOrdered, PTL
-----------------------------------------------------------------------------
(* What a session writes is what it was asked to write, and nothing else.  *)
Faithful(t) ==
  /\ kind[t] = "update" => newRow[t] \in Row
  /\ kind[t] # "update" => newRow[t] = NoRow
  /\ kind[t] \in {"create", "update", "delete"} => \E r \in Rec : target[t] = {r}
  /\ kind[t] \in {"create", "restore"} => \A r \in Changed(t) : recW[t][r] \in Row
  /\ kind[t] \in {"update", "delete", "purge"} /\ pc[t] \notin {"lockRec", "read", "write"}
       => \A r \in target[t] : recW[t][r] = newRow[t]

LedgerInv == IInv /\ \A t \in Txn : Faithful(t)

LEMMA FaithfulBegin ==
  ASSUME IInv, NEW t \in Txn, Faithful(t), Begin(t)
  PROVE  Faithful(t)'
<1>0. /\ TypeOK /\ pc[t] = "idle" /\ kind[t] = "none" /\ newRow[t] = NoRow
      /\ target[t] = {} /\ \A r \in Rec : recW[t][r] = Unset
  <2>1. pc[t] = "idle"
    BY DEF Begin, BeginCreate, BeginUpdate, BeginRestore, BeginDelete, BeginPurge,
           BeginRefresh, BeginRebuild, BeginRepair, Start
  <2> QED BY <2>1 DEF IInv, TxInv, Buffers, Ownership, Changed, Faithful
<1> USE <1>0 DEF TypeOK, Start, Goto, Faithful, Changed, writes
<1>1. CASE \E r \in Rec, row \in Row : BeginCreate(t, r, row)
  <2>1. PICK r \in Rec, row \in Row : BeginCreate(t, r, row)
    BY <1>1
  <2>2. /\ kind'[t] = "create" /\ target'[t] = {r} /\ newRow'[t] = NoRow
        /\ \A q \in Rec : recW'[t][q] = IF q = r THEN row ELSE Unset
    BY <2>1 DEF BeginCreate
  <2> QED BY <2>2
<1>2. CASE \E r \in Rec, row \in Row : BeginUpdate(t, r, row)
  BY <1>2 DEF BeginUpdate
<1>3. CASE \E r \in Rec : BeginDelete(t, r)
  BY <1>3 DEF BeginDelete
<1>4. CASE BeginPurge(t)
  BY <1>4 DEF BeginPurge
<1>5. CASE \E s \in Slice : BeginRefresh(t, s)
  BY <1>5 DEF BeginRefresh
<1>6. CASE BeginRebuild(t)
  BY <1>6 DEF BeginRebuild
<1>7. CASE BeginRestore(t)
  BY <1>7 DEF BeginRestore
<1>8. CASE \E S \in RepairScopes : BeginRepair(t, S)
  BY <1>8 DEF BeginRepair
<1> QED BY <1>1, <1>2, <1>3, <1>4, <1>5, <1>6, <1>7, <1>8 DEF Begin

(* Only three statements change which rows a session works on, or write    *)
(* some; the others run before all of these, or after them.                *)
LEMMA OtherStatements ==
  ASSUME TypeOK, NEW t \in Txn, Statement(t),
         ~ReadExisting(t), ~WriteRecord(t), \A r \in Rec, row \in Row : ~RestoreInsert(t, r, row)
  PROVE  /\ kind' = kind /\ target' = target /\ newRow' = newRow /\ recW' = recW
         /\ \/ LockRecord(t) /\ pc[t] = "lockRec"
            \/ pc[t] \notin {"lockRec", "read", "write"}
<1> USE DEF work, writes
<1>1. CASE LockRecord(t)
  BY <1>1 DEF LockRecord
<1>2. CASE LockShared(t) \/ LockKey(t) \/ KeysLocked(t)
  BY <1>2 DEF LockShared, LockKey, KeysLocked
<1>3. CASE \E s \in Slice : AggregateDay(t, s)
  BY <1>3 DEF AggregateDay
<1>4. CASE PutDay(t) \/ PutMonth(t)
  BY <1>4 DEF PutDay, PutMonth
<1>5. CASE \E k \in Key : AggregateMonth(t, k)
  BY <1>5 DEF AggregateMonth
<1>6. CASE RepairDelete(t) \/ RepairUpsert(t)
  BY <1>6 DEF RepairDelete, RepairUpsert
<1>7. CASE RestoreRebuild(t) \/ LockExclusive(t)
  BY <1>7 DEF RestoreRebuild, LockExclusive
<1>8. CASE RebuildDropDays(t) \/ RebuildFillDays(t)
  BY <1>8 DEF RebuildDropDays, RebuildFillDays
<1>9. CASE RebuildDropMonths(t) \/ RebuildFillMonths(t)
  BY <1>9 DEF RebuildDropMonths, RebuildFillMonths
<1> QED BY <1>1, <1>2, <1>3, <1>4, <1>5, <1>6, <1>7, <1>8, <1>9 DEF Statement

(* A single record's operation keeps its record.                           *)
LEMMA OneTarget ==
  ASSUME IInv, NEW t \in Txn, Faithful(t), Statement(t),
         kind[t] \in {"create", "update", "delete"}
  PROVE  target'[t] = target[t]
<1>1. TypeOK /\ Buffers(t)
  BY DEF IInv, TxInv
<1>2. CASE ReadExisting(t)
  <2>1. PICK r \in Rec : target[t] = {r}
    BY DEF Faithful
  <2>2. target'[t] = Existing(t) /\ Existing(t) # {}
    BY <1>1, <1>2 DEF ReadExisting, TypeOK
  <2>3. Existing(t) \subseteq target[t]
    BY DEF Existing
  <2> QED BY <2>1, <2>2, <2>3
<1>3. ~ \E r \in Rec, row \in Row : RestoreInsert(t, r, row)
  BY <1>1 DEF RestoreInsert, Buffers
<1>4. CASE WriteRecord(t)
  BY <1>4 DEF WriteRecord
<1> QED BY <1>1, <1>2, <1>3, <1>4, OtherStatements

LEMMA FaithfulStatement ==
  ASSUME IInv, NEW t \in Txn, Faithful(t), Statement(t)
  PROVE  Faithful(t)'
<1>0. TypeOK /\ Buffers(t)
  BY DEF IInv, TxInv
<1>1. CASE ReadExisting(t)
  <2>1. kind' = kind /\ newRow' = newRow /\ recW' = recW /\ pc'[t] = "write"
    BY <1>0, <1>1 DEF ReadExisting, writes, Goto, TypeOK
  <2> QED BY <2>1, OneTarget DEF Faithful, Changed
<1>2. CASE WriteRecord(t)
  <2>1. /\ kind' = kind /\ newRow' = newRow /\ target' = target
        /\ \A r \in target[t] : recW'[t][r] = newRow[t]
        /\ kind[t] \in {"update", "delete", "purge"}
    BY <1>0, <1>2 DEF WriteRecord, Buffers, TypeOK
  <2> QED BY <2>1 DEF Faithful
<1>3. ASSUME NEW r \in Rec, NEW row \in Row, RestoreInsert(t, r, row)
      PROVE  Faithful(t)'
  <2>1. /\ kind' = kind /\ newRow' = newRow /\ kind[t] = "restore"
        /\ \A q \in Rec : recW'[t][q] = IF q = r THEN row ELSE recW[t][q]
    BY <1>0, <1>3 DEF RestoreInsert, Buffers, TypeOK
  <2>2. \A q \in Changed(t)' : recW'[t][q] \in Row
    BY <2>1 DEF Faithful, Changed
  <2> QED BY <2>1, <2>2 DEF Faithful
<1>4. CASE ~ReadExisting(t) /\ ~WriteRecord(t) /\ \A r \in Rec, row \in Row : ~RestoreInsert(t, r, row)
  <2>1. /\ kind' = kind /\ target' = target /\ newRow' = newRow /\ recW' = recW
        /\ \/ LockRecord(t) /\ pc[t] = "lockRec"
           \/ pc[t] \notin {"lockRec", "read", "write"}
    BY <1>0, <1>4, OtherStatements
  <2>2. LockRecord(t) => pc'[t] \in {"lockRec", "read"}
    BY <1>0 DEF LockRecord, Goto, TypeOK
  <2> QED BY <2>1, <2>2 DEF Faithful, Changed
<1> QED BY <1>1, <1>2, <1>3, <1>4

LEMMA FaithfulEnd ==
  ASSUME TypeOK, NEW t \in Txn, End(t)
  PROVE  Faithful(t)'
BY DEF End, TypeOK, Faithful

LEMMA FaithfulOthers ==
  ASSUME NEW u, Faithful(u), Frame(u)
  PROVE  Faithful(u)'
BY DEF Faithful, Frame, Changed

(* What a session was asked changes only when it begins or ends.           *)
LEMMA AskedElse ==
  ASSUME NEW t \in Txn, \A u \in Txn \ {t} : Frame(u)
  PROVE  Asked' = [Asked EXCEPT ![t] = Asked'[t]]
<1>1. ASSUME NEW u \in Txn PROVE Asked'[u] = [Asked EXCEPT ![t] = Asked'[t]][u]
  <2>1. u \in DOMAIN Asked
    BY DEF Asked
  <2>2. CASE u = t
    BY <2>1, <2>2
  <2>3. CASE u # t
    <3>1. kind'[u] = kind[u] /\ target'[u] = target[u] /\ newRow'[u] = newRow[u]
      BY <2>3 DEF Frame
    <3>2. Asked'[u] = Asked[u]
      BY <3>1 DEF Asked
    <3> QED BY <2>1, <2>3, <3>2
  <2> QED BY <2>2, <2>3
<1>2. /\ Asked' = [u \in Txn |-> Asked'[u]]
      /\ [Asked EXCEPT ![t] = Asked'[t]] = [u \in Txn |-> [Asked EXCEPT ![t] = Asked'[t]][u]]
  BY DEF Asked
<1> QED BY <1>1, <1>2

LEMMA BeginAsks ==
  ASSUME LedgerInv, LedgerInv', NEW t \in Txn, Begin(t)
  PROVE  Ledger!Ask(t)
<1>1. TypeOK /\ TypeOK' /\ Faithful(t) /\ Faithful(t)'
  BY DEF LedgerInv, IInv
<1>2. UNCHANGED store /\ \A u \in Txn \ {t} : Frame(u)
  <2>1. Begin(t) => UNCHANGED store
    BY DEF Begin, BeginCreate, BeginUpdate, BeginRestore, BeginDelete, BeginPurge,
           BeginRefresh, BeginRebuild, BeginRepair
  <2> QED BY <1>1, <2>1, BeginFrames
<1>3. kind[t] = "none"
  <2>1. pc[t] = "idle"
    BY DEF Begin, BeginCreate, BeginUpdate, BeginRestore, BeginDelete, BeginPurge,
           BeginRefresh, BeginRebuild, BeginRepair, Start
  <2> QED BY <2>1 DEF LedgerInv, IInv, TxInv, Buffers
<1>4. Asked[t] = Ledger!Nothing
  BY <1>1, <1>3 DEF Asked, Faithful, Ledger!Nothing
<1>5. kind'[t] \in AllKinds
  <2>1. \E k \in Kinds : kind' = [kind EXCEPT ![t] = k]
    BY DEF Begin, BeginCreate, BeginUpdate, BeginRestore, BeginDelete, BeginPurge,
           BeginRefresh, BeginRebuild, BeginRepair, Start
  <2> QED BY <1>1, <2>1, RollupAssumption DEF TypeOK
<1>6. Asked'[t] \in Ledger!Request
  <2>1. Asked'[t] = [kind |-> kind'[t],
                     ids  |-> IF kind'[t] \in {"create", "update", "delete"} THEN target'[t] ELSE {},
                     row  |-> newRow'[t]]
    BY DEF Asked
  <2>2. kind'[t] \in {"create", "update", "delete"} => target'[t] \in Ledger!One
    BY <1>1 DEF Faithful, Ledger!One
  <2>3. /\ kind'[t] = "update" => newRow'[t] \in Ledger!Row
        /\ kind'[t] # "update" => newRow'[t] = NoRow
    BY <1>1 DEF Faithful, Row, Ledger!Row
  <2>4. CASE kind'[t] \in {"create", "delete"}
    BY <2>1, <2>2, <2>3, <2>4 DEF Ledger!Request
  <2>5. CASE kind'[t] = "update"
    BY <2>1, <2>2, <2>3, <2>5 DEF Ledger!Request
  <2>6. CASE kind'[t] \in {"purge", "restore", "refresh", "rebuild", "repair"}
    BY <2>1, <2>3, <2>6 DEF Ledger!Request
  <2> QED BY <1>5, <2>4, <2>5, <2>6 DEF AllKinds
<1>7. Asked' = [Asked EXCEPT ![t] = Asked'[t]]
  BY <1>2, AskedElse
<1> QED BY <1>2, <1>4, <1>6, <1>7 DEF Ledger!Ask, store

LEMMA StatementHidden ==
  ASSUME LedgerInv, LedgerInv', NEW t \in Txn, Statement(t)
  PROVE  UNCHANGED <<rec, daily, monthly, Asked>>
<1>1. TypeOK /\ TypeOK' /\ Faithful(t) /\ IInv
  BY DEF LedgerInv, IInv
<1>2. UNCHANGED store
  BY DEF Statement, LockRecord, ReadExisting, WriteRecord, LockShared, LockKey,
         KeysLocked, AggregateDay, PutDay, AggregateMonth, PutMonth, RepairDelete,
         RepairUpsert, RestoreInsert, RestoreRebuild, LockExclusive, RebuildDropDays,
         RebuildFillDays, RebuildDropMonths, RebuildFillMonths
<1>3. \A u \in Txn \ {t} : Frame(u)
  BY <1>1, StatementFrames
<1>4. kind' = kind /\ newRow' = newRow
  <2>1. ReadExisting(t) \/ WriteRecord(t) => kind' = kind /\ newRow' = newRow
    BY DEF ReadExisting, WriteRecord
  <2>2. \A r \in Rec, row \in Row : RestoreInsert(t, r, row) => kind' = kind /\ newRow' = newRow
    BY DEF RestoreInsert
  <2> QED BY <1>1, <2>1, <2>2, OtherStatements
<1>5. Asked' = Asked
  BY <1>1, <1>3, <1>4, OneTarget DEF Asked, Frame
<1> QED BY <1>2, <1>5 DEF store

LEMMA EndAnswers ==
  ASSUME LedgerInv, LedgerInv', NEW t \in Txn, End(t), pc[t] # "idle"
  PROVE  /\ Asked[t] # Ledger!Nothing
         /\ Asked' = [Asked EXCEPT ![t] = Ledger!Nothing]
<1>1. TypeOK /\ TypeOK' /\ Buffers(t)
  BY DEF LedgerInv, IInv, TxInv
<1>2. kind[t] # "none"
  BY <1>1 DEF Buffers
<1>3. Asked[t].kind # "none"
  BY <1>2 DEF Asked
<1>4. Asked'[t] = Ledger!Nothing
  BY <1>1 DEF End, Asked, TypeOK, Ledger!Nothing
<1>5. \A u \in Txn \ {t} : Frame(u)
  BY <1>1, EndFrames
<1>6. Asked' = [Asked EXCEPT ![t] = Asked'[t]]
  BY <1>5, AskedElse
<1> QED BY <1>3, <1>4, <1>6 DEF Ledger!Nothing

(* A commit does what was asked to the payments of that moment.            *)
LEMMA CommitEffect ==
  ASSUME LedgerInv, LedgerInv', NEW t \in Txn, Commit(t)
  PROVE  Ledger!Effect(Asked[t])
<1>0. /\ TypeOK /\ Faithful(t) /\ Ownership(t) /\ Buffers(t) /\ pc[t] = "commit"
      /\ target[t] \subseteq Rec
  BY DEF LedgerInv, IInv, TxInv, Commit, TypeOK
<1>1. /\ Asked[t].kind = kind[t] /\ Asked[t].row = newRow[t]
      /\ Asked[t].ids = IF kind[t] \in {"create", "update", "delete"} THEN target[t] ELSE {}
  BY DEF Asked
<1>2. /\ rec \in [Rec -> Row \cup {NoRow}]
      /\ rec' = [r \in Rec |-> IF recW[t][r] = Unset THEN rec[r] ELSE recW[t][r]]
      /\ \A r \in Rec : r \notin target[t] => recW[t][r] = Unset
  BY <1>0 DEF TypeOK, Commit, RecSeen, Ownership, Changed
<1>3. CASE kind[t] = "create"
  <2>1. PICK r \in Rec : target[t] = {r}
    BY <1>0, <1>3 DEF Faithful
  <2>2. rec[r] = NoRow /\ recW[t][r] # Unset /\ recW[t][r] \in Row
    BY <1>0, <1>3, <2>1 DEF Ownership, Faithful, Changed
  <2>3. rec' = [q \in Rec |-> IF q \in {r} THEN recW[t][r] ELSE rec[q]]
    BY <1>2, <2>1, <2>2
  <2> QED BY <1>1, <1>3, <2>1, <2>2, <2>3
          DEF Ledger!Effect, Ledger!Present, Ledger!Put, Ledger!Row, Row
<1>4. CASE kind[t] \in {"update", "delete"}
  <2>1. \A r \in target[t] : rec[r] # NoRow /\ recW[t][r] = newRow[t] /\ newRow[t] # Unset
    BY <1>0, <1>4, RollupAssumption DEF Ownership, Faithful
  <2>2. rec' = [q \in Rec |-> IF q \in target[t] THEN newRow[t] ELSE rec[q]]
    BY <1>2, <2>1
  <2> QED BY <1>0, <1>1, <1>4, <2>1, <2>2 DEF Ledger!Effect, Ledger!Present, Ledger!Put
<1>5. CASE kind[t] = "purge"
  <2>1. \A r \in target[t] : /\ rec[r] # NoRow /\ SliceOf(rec[r]) \cap Expired # {}
                             /\ recW[t][r] = NoRow /\ NoRow # Unset
    BY <1>0, <1>5, RollupAssumption DEF Ownership, Faithful
  <2>2. rec' = [q \in Rec |-> IF q \in target[t] THEN NoRow ELSE rec[q]]
    BY <1>2, <2>1
  <2>3. target[t] \in SUBSET Ledger!Overdue
    BY <1>0, <2>1 DEF SliceOf, Ledger!Overdue, Ledger!Present
  <2> QED BY <1>1, <1>5, <2>2, <2>3 DEF Ledger!Effect, Ledger!Put
<1>6. CASE kind[t] = "restore"
  <2>1. \A r \in target[t] : rec[r] = NoRow /\ recW[t][r] # Unset /\ recW[t][r] \in Row
    BY <1>0, <1>6 DEF Ownership, Faithful, Changed
  <2> DEFINE f == [r \in target[t] |-> recW[t][r]]
  <2>2. f \in [target[t] -> Ledger!Row]
    BY <2>1 DEF Ledger!Row, Row
  <2>3. rec' = [q \in Rec |-> IF q \in target[t] THEN f[q] ELSE rec[q]]
    BY <1>2, <2>1
  <2>4. target[t] \in SUBSET (Rec \ Ledger!Present)
    BY <1>0, <2>1 DEF Ledger!Present
  <2> HIDE DEF f
  <2> QED BY <1>1, <1>6, <2>2, <2>3, <2>4 DEF Ledger!Effect
<1>7. CASE kind[t] \in {"refresh", "rebuild", "repair"}
  <2>1. target[t] = {}
    BY <1>0, <1>7 DEF Ownership
  <2>2. rec' = rec
    BY <1>2, <2>1
  <2> QED BY <1>1, <1>7, <2>2 DEF Ledger!Effect
<1>8. kind[t] \in AllKinds
  BY <1>0 DEF TypeOK, Buffers
<1> QED BY <1>3, <1>4, <1>5, <1>6, <1>7, <1>8 DEF AllKinds

LEMMA TotalsExact == IInv => Ledger!Totals
<1> SUFFICES ASSUME IInv PROVE Ledger!Totals
  OBVIOUS
<1>1. daily = [s \in Slice |-> Aggregate(rec, s)]
  BY DEF IInv, TypeOK, DailyExact
<1>2. monthly = [k \in Key |-> MonthTotal(daily, k)]
  BY DEF IInv, TypeOK, MonthlyExact
<1> QED BY <1>1, <1>2 DEF Ledger!Totals, Aggregate, MonthTotal, Entry, Row, Ledger!Row

LEMMA LedgerInvariant == Spec => []LedgerInv
<1>1. Init => LedgerInv
  <2> SUFFICES ASSUME Init PROVE LedgerInv
    OBVIOUS
  <2>1. ASSUME NEW t \in Txn PROVE Faithful(t)
    BY DEF Init, Faithful
  <2> QED BY <2>1, IInvInit DEF LedgerInv
<1>2. LedgerInv /\ [Next]_vars => LedgerInv'
  <2> SUFFICES ASSUME LedgerInv, [Next]_vars PROVE LedgerInv'
    OBVIOUS
  <2>1. IInv'
    BY IInvNext DEF LedgerInv
  <2>2. CASE UNCHANGED vars
    <3>1. ASSUME NEW u \in Txn PROVE Faithful(u)'
      BY <2>2 DEF LedgerInv, vars, work, writes, Faithful, Changed
    <3> QED BY <2>1, <3>1 DEF LedgerInv
  <2>3. ASSUME NEW t \in Txn, Begin(t) \/ Statement(t) \/ End(t), NEW u \in Txn
        PROVE  Faithful(u)'
    <3>1. CASE u # t
      BY <2>3, <3>1, FaithfulOthers, BeginFrames, StatementFrames, EndFrames DEF LedgerInv, IInv
    <3>2. CASE u = t
      BY <2>3, <3>2, FaithfulBegin, FaithfulStatement, FaithfulEnd DEF LedgerInv, IInv
    <3> QED BY <3>1, <3>2
  <2>4. Next => \E t \in Txn : Begin(t) \/ Statement(t) \/ End(t)
    BY DEF Next, Statement, Commit, ReturnUnchanged, Rollback
  <2> QED BY <2>1, <2>2, <2>3, <2>4 DEF LedgerInv
<1> QED BY <1>1, <1>2, PTL DEF Spec

(* The transactions implement CollectionLedger: each operation takes       *)
(* effect at its commit, on the payments of that moment and together with  *)
(* its totals, or not at all.                                              *)
THEOREM OperationsAreAtomic == Spec => ImplementsLedger
<1>1. Init => Ledger!Init
  <2> SUFFICES ASSUME Init PROVE Ledger!Init
    OBVIOUS
  <2>1. Ledger!Totals
    BY IInvInit, TotalsExact
  <2>2. Asked = [t \in Txn |-> Ledger!Nothing]
    BY DEF Init, Asked, Ledger!Nothing
  <2> QED BY <2>1, <2>2 DEF Init, Ledger!Init
<1>2. LedgerInv /\ LedgerInv' /\ [Next]_vars => [Ledger!Next]_<<rec, daily, monthly, Asked>>
  <2> SUFFICES ASSUME LedgerInv, LedgerInv', [Next]_vars
               PROVE  [Ledger!Next]_<<rec, daily, monthly, Asked>>
    OBVIOUS
  <2>1. CASE UNCHANGED vars
    BY <2>1 DEF vars, store, work, Asked
  <2>2. ASSUME NEW t \in Txn, Begin(t)
        PROVE  Ledger!Next
    BY <2>2, BeginAsks DEF Ledger!Next
  <2>3. ASSUME NEW t \in Txn, Statement(t)
        PROVE  UNCHANGED <<rec, daily, monthly, Asked>>
    BY <2>3, StatementHidden
  <2>4. ASSUME NEW t \in Txn, Commit(t)
        PROVE  Ledger!Next
    <3>1. End(t) /\ pc[t] # "idle"
      BY <2>4 DEF Commit
    <3>2. Ledger!Effect(Asked[t])
      BY <2>4, CommitEffect
    <3>3. Ledger!Totals'
      BY TotalsExact, PTL DEF LedgerInv
    <3> QED BY <3>1, <3>2, <3>3, EndAnswers DEF Ledger!Perform, Ledger!Next
  <2>5. ASSUME NEW t \in Txn, ReturnUnchanged(t) \/ Rollback(t)
        PROVE  Ledger!Next
    <3>1. End(t) /\ pc[t] # "idle" /\ UNCHANGED store
      BY <2>5 DEF ReturnUnchanged, Rollback
    <3> QED BY <3>1, EndAnswers DEF Ledger!GiveUp, Ledger!Next, store
  <2> QED BY <2>1, <2>2, <2>3, <2>4, <2>5 DEF Next, Statement
<1> QED BY <1>1, <1>2, LedgerInvariant, PTL DEF Spec, ImplementsLedger, Ledger!Spec
=============================================================================
