----------------------- MODULE SettlementCycleProofs -----------------------
(***************************************************************************)
(* Proofs about the settlement cycles, for any records, cycles, sessions   *)
(* and amounts: types, exact classifications, receipts that count once,    *)
(* justified and pinned settlements, and which waits may form a circle.    *)
(*                                                                         *)
(* The invariant follows a session from statement to statement: the locks  *)
(* it has by then, what it drafted, and why that is still right when it    *)
(* commits, whatever was committed in between.  Sums of amounts stay       *)
(* uninterpreted: only that equal payments have equal sums is used.        *)
(***************************************************************************)
EXTENDS SettlementCycle, FiniteSetTheorems, WellFoundedInduction, TLAPS

(* The statement a session executes next, and which ones an operation has. *)
Stage(t) == IF todo[t] = <<>> THEN "none" ELSE Head(todo[t])

Rests(k) ==
  CASE k = "create" -> {<<"insert", "rollup", "receipts", "sync", "recalc", "commit">>,
                        <<"rollup", "receipts", "sync", "recalc", "commit">>,
                        <<"receipts", "sync", "recalc", "commit">>,
                        <<"sync", "recalc", "commit">>, <<"recalc", "commit">>, <<"commit">>}
    [] k = "update" -> {<<"read", "edit", "receipts", "sync", "recalc", "rollup", "commit">>,
                        <<"edit", "receipts", "sync", "recalc", "rollup", "commit">>,
                        <<"receipts", "sync", "recalc", "rollup", "commit">>,
                        <<"sync", "recalc", "rollup", "commit">>,
                        <<"recalc", "rollup", "commit">>, <<"rollup", "commit">>, <<"commit">>}
    [] k = "attach" -> {<<"read", "receipts", "sync", "recalc", "commit">>,
                        <<"receipts", "sync", "recalc", "commit">>,
                        <<"sync", "recalc", "commit">>, <<"recalc", "commit">>, <<"commit">>}
    [] k \in {"delete", "purge"} -> {<<"read", "erase", "recalc", "rollup", "commit">>,
                        <<"erase", "recalc", "rollup", "commit">>,
                        <<"recalc", "rollup", "commit">>, <<"rollup", "commit">>, <<"commit">>}
    [] k = "settle" -> {<<"anchor", "facts", "activate", "commit">>, <<"facts", "activate", "commit">>,
                        <<"activate", "commit">>, <<"commit">>}
    [] k = "revoke" -> {<<"anchor", "end", "commit">>, <<"end", "commit">>, <<"commit">>}

Following(k, s) ==
  CASE s = "read"   -> IF k = "update" THEN "edit" ELSE IF k = "attach" THEN "receipts" ELSE "erase"
    [] s = "insert" -> "rollup"
    [] s = "edit"   -> "receipts"
    [] s = "erase"  -> "recalc"
    [] s = "receipts" -> "sync"
    [] s = "sync"   -> "recalc"
    [] s = "recalc" -> IF k \in {"create", "attach"} THEN "commit" ELSE "rollup"
    [] s = "rollup" -> IF k = "create" THEN "receipts" ELSE "commit"
    [] s = "anchor" -> IF k = "settle" THEN "facts" ELSE "end"
    [] s = "facts"  -> "activate"
    [] OTHER        -> "commit"

Has(k) ==
  CASE k = "create" -> {"insert", "rollup", "receipts", "sync", "recalc", "commit"}
    [] k = "update" -> {"read", "edit", "receipts", "sync", "recalc", "rollup", "commit"}
    [] k = "attach" -> {"read", "receipts", "sync", "recalc", "commit"}
    [] k \in {"delete", "purge"} -> {"read", "erase", "recalc", "rollup", "commit"}
    [] k = "settle" -> {"anchor", "facts", "activate", "commit"}
    [] k = "revoke" -> {"anchor", "end", "commit"}

Saves == {"create", "update", "attach"}
Removals == {"delete", "purge"}
Manual == {"settle", "revoke"}

Proper(o) ==
  /\ o.recs \subseteq Rec
  /\ \/ o = Idle
     \/ o.kind = "create" /\ \E r \in Rec, c \in Cycle, a \in Amount, f \in Receipt :
          o.recs = {r} /\ o.edit = [do |-> "new", arg |-> <<c, a, f>>]
     \/ o.kind = "update" /\ (\E r \in Rec : o.recs = {r}) /\ o.edit \in Moves \cup Amounts \cup Receipts
     \/ o.kind = "attach" /\ (\E r \in Rec : o.recs = {r}) /\ o.edit \in Receipts \cup {Resync}
     \/ o.kind \in Removals \cup {"revoke"} /\ o.edit = Resync /\ (o.kind = "revoke" => \E r \in Rec : o.recs = {r})
     \/ o.kind = "settle" /\ (\E r \in Rec : o.recs = {r}) /\ o.edit \in Dates

(* How far a session is. *)
Chosen(t)       == Stage(t) \notin {"none", "read", "anchor"}
Locked(t)       == Chosen(t) /\ Stage(t) \notin {"insert", "edit", "erase", "facts", "end"}
                     /\ ~(op[t].kind = "attach" /\ Stage(t) = "receipts")
HasReceipts(t)  == op[t].kind \in Saves /\ (Stage(t) \in {"sync", "recalc", "commit"} \/ (op[t].kind = "update" /\ Stage(t) = "rollup"))
Synced(t)       == HasReceipts(t) /\ Stage(t) # "sync"
Recalculated(t) == op[t].kind \in Saves \cup Removals
                     /\ (Stage(t) = "commit" \/ (op[t].kind # "create" /\ Stage(t) = "rollup"))

Alike(x, y) == /\ x.st = y.st /\ x.cycle = y.cycle /\ x.amount = y.amount
               /\ x.receipt = y.receipt /\ x.dup = y.dup
Counted(row) == row.st = "live" /\ row.receipt = "file" /\ ~row.dup

Running(t) ==
  /\ Proper(op[t])
  /\ op[t] = Idle <=> todo[t] = <<>>
  /\ op[t] # Idle => todo[t] \in Rests(op[t].kind)
  /\ op[t] = Idle => Held(t) = {} /\ DOMAIN draft[t] = {} /\ keys[t] = {}
  /\ keys[t] \subseteq Cycle

LocksHeld(t) ==
  /\ Chosen(t) /\ op[t].kind # "create" => \A r \in op[t].recs : owner[RecordLock(r)] = t
  /\ Locked(t) => \A c \in keys[t] : owner[CycleLock(c)] = t
  /\ HasReceipts(t) /\ Adds(t) => owner[HashLock] = t

Origin(t) ==
  \A r \in op[t].recs : op[t].kind = "create" <=> rows[r].st = "new"

KeysRead(t) ==
  /\ Chosen(t) /\ op[t].kind # "create" => \A r \in op[t].recs :
       /\ (rows[r].st = "live" /\ (Protected(t) => rows[r].override # "ACTIVE")) => rows[r].cycle \in keys[t]
       /\ op[t].kind \notin Removals => rows[r].st = "live" /\ (Protected(t) => rows[r].override # "ACTIVE")
  /\ Chosen(t) /\ op[t].edit.do = "move" => op[t].edit.arg \in keys[t]
  /\ op[t].kind = "create" => keys[t] = {op[t].edit.arg[1]}

(* What a draft d of a record, committed as row, may be: a new label only,  *)
(* or what the operation of kind k, which has cycles ks, makes of its own.  *)
Relabelled(d, row) == row.st = "live" /\ Alike(d, row) /\ d.override = row.override
Changed(d, row, k, added) ==
  /\ row.st = "live" \/ k = "create"
  /\ d.st = IF k \in Removals THEN "gone" ELSE "live"
  /\ d.st = "gone" => d.override = "none" /\ d.receipt = "none"
  /\ row.override = "ACTIVE" => d.st = "live" /\ d.cycle = row.cycle
  /\ k \in Manual => Alike(d, row)
  /\ k \in Saves => d.override = row.override
  /\ d.st = "live" /\ d.receipt = "file" => row.receipt = "file" \/ added
Fits(d, row, k, ks, own, added) ==
  /\ d \in Row
  /\ row.st = "live" => row.cycle \in ks
  /\ d.st = "live" => d.cycle \in ks
  /\ Relabelled(d, row) \/ (own /\ Changed(d, row, k, added))
  /\ k \in Manual => d.class = row.class

Drafted(t) ==
  /\ DOMAIN draft[t] \subseteq Rec
  /\ DOMAIN draft[t] # {} => Locked(t)
  /\ \A r \in DOMAIN draft[t] :
       Fits(draft[t][r], rows[r], op[t].kind, keys[t], r \in op[t].recs, HasReceipts(t) /\ Adds(t))

Inserted(t) ==
  /\ op[t].kind = "create" /\ Stage(t) # "insert" => op[t].recs \subseteq DOMAIN draft[t]
  /\ op[t].kind = "settle" /\ Stage(t) = "commit" => \A r \in op[t].recs : r \in DOMAIN draft[t] /\ draft[t][r].override = "ACTIVE"

Exact(v, C) == \A c \in C : \A r \in Members(v, c) : v[r].class = Classify(v, c, r)
ClassesExact(t) == Recalculated(t) => Exact(View(t), keys[t])

CountsOnce(t) ==
  Synced(t) => \A r \in op[t].recs : Counted(View(t)[r]) =>
    /\ \A q \in Rec \ {r} : ~Counted(rows[q])
    /\ IF Adds(t) THEN \A q \in Rec \ {r} : q \notin Holders(rows) ELSE r \in Holders(rows)

FactsHold(t) ==
  op[t].kind = "settle" /\ Stage(t) \in {"activate", "commit"} => \A r \in op[t].recs :
    LET c == rows[r].cycle IN
    /\ Actives(rows, c) \subseteq {r}
    /\ Aborts(rows, c) = {}
    /\ SystemCollected(rows, c, op[t].edit.arg) + Pool >= Due

Local(t) == /\ Running(t) /\ LocksHeld(t) /\ Origin(t) /\ KeysRead(t) /\ Drafted(t) /\ Inserted(t)
            /\ ClassesExact(t) /\ CountsOnce(t) /\ FactsHold(t)

Apart ==
  \A t, u \in Txn : t # u =>
    /\ op[t].kind = "create" /\ op[u].kind = "create" => op[t].recs \cap op[u].recs = {}
    /\ Synced(t) /\ Synced(u) => \A r \in op[t].recs, q \in op[u].recs : ~(Counted(View(t)[r]) /\ Counted(View(u)[q]))

Committed ==
  /\ \A r \in Rec : rows[r].st # "live" => rows[r].override = "none" /\ rows[r].receipt = "none"
  /\ Exact(rows, Cycle)
  /\ \A r, q \in Rec : Counted(rows[r]) /\ Counted(rows[q]) => r = q

Shapes ==
  /\ DOMAIN draft = Txn /\ DOMAIN op = Txn /\ DOMAIN todo = Txn /\ DOMAIN keys = Txn
  /\ rows \in [Rec -> Row] /\ owner \in [Lock -> Txn \cup {NoTxn}] /\ begun \in 0 .. MaxOps

IInv == Shapes /\ (\A t \in Txn : Local(t)) /\ Apart /\ Committed
-----------------------------------------------------------------------------
LEMMA ScriptBegins ==
  ASSUME NEW k \in Kind
  PROVE  /\ Script(k) \in Rests(k) /\ Script(k) # <<>>
         /\ Head(Script(k)) = IF k = "create" THEN "insert"
                              ELSE IF k \in Manual THEN "anchor" ELSE "read"
<1>1. CASE k = "create"
  BY <1>1 DEF Script, Rests, Manual
<1>2. CASE k = "update"
  BY <1>2 DEF Script, Rests, Manual
<1>3. CASE k = "attach"
  BY <1>3 DEF Script, Rests, Manual
<1>4. CASE k \in {"delete", "purge"}
  BY <1>4 DEF Script, Rests, Manual
<1>5. CASE k = "settle"
  BY <1>5 DEF Script, Rests, Manual
<1>6. CASE k = "revoke"
  BY <1>6 DEF Script, Rests, Manual
<1> QED BY <1>1, <1>2, <1>3, <1>4, <1>5, <1>6 DEF Kind

LEMMA RestFollows ==
  ASSUME NEW k \in Kind, NEW w \in Rests(k)
  PROVE  /\ w # <<>> /\ Head(w) \in Has(k)
         /\ Head(w) # "commit" => /\ Tail(w) \in Rests(k) /\ Tail(w) # <<>>
                                  /\ Head(Tail(w)) = Following(k, Head(w))
<1>1. CASE k = "create"
  <2>1. CASE w = <<"insert", "rollup", "receipts", "sync", "recalc", "commit">>
    BY <1>1, <2>1 DEF Rests, Has, Following
  <2>2. CASE w = <<"rollup", "receipts", "sync", "recalc", "commit">>
    BY <1>1, <2>2 DEF Rests, Has, Following
  <2>3. CASE w = <<"receipts", "sync", "recalc", "commit">>
    BY <1>1, <2>3 DEF Rests, Has, Following
  <2>4. CASE w = <<"sync", "recalc", "commit">>
    BY <1>1, <2>4 DEF Rests, Has, Following
  <2>5. CASE w = <<"recalc", "commit">>
    BY <1>1, <2>5 DEF Rests, Has, Following
  <2>6. CASE w = <<"commit">>
    BY <1>1, <2>6 DEF Rests, Has, Following
  <2> QED BY <1>1, <2>1, <2>2, <2>3, <2>4, <2>5, <2>6 DEF Rests
<1>2. CASE k = "update"
  <2>1. CASE w = <<"read", "edit", "receipts", "sync", "recalc", "rollup", "commit">>
    BY <1>2, <2>1 DEF Rests, Has, Following
  <2>2. CASE w = <<"edit", "receipts", "sync", "recalc", "rollup", "commit">>
    BY <1>2, <2>2 DEF Rests, Has, Following
  <2>3. CASE w = <<"receipts", "sync", "recalc", "rollup", "commit">>
    BY <1>2, <2>3 DEF Rests, Has, Following
  <2>4. CASE w = <<"sync", "recalc", "rollup", "commit">>
    BY <1>2, <2>4 DEF Rests, Has, Following
  <2>5. CASE w = <<"recalc", "rollup", "commit">>
    BY <1>2, <2>5 DEF Rests, Has, Following
  <2>6. CASE w = <<"rollup", "commit">>
    BY <1>2, <2>6 DEF Rests, Has, Following
  <2>7. CASE w = <<"commit">>
    BY <1>2, <2>7 DEF Rests, Has, Following
  <2> QED BY <1>2, <2>1, <2>2, <2>3, <2>4, <2>5, <2>6, <2>7 DEF Rests
<1>3. CASE k = "attach"
  <2>1. CASE w = <<"read", "receipts", "sync", "recalc", "commit">>
    BY <1>3, <2>1 DEF Rests, Has, Following
  <2>2. CASE w = <<"receipts", "sync", "recalc", "commit">>
    BY <1>3, <2>2 DEF Rests, Has, Following
  <2>3. CASE w = <<"sync", "recalc", "commit">>
    BY <1>3, <2>3 DEF Rests, Has, Following
  <2>4. CASE w = <<"recalc", "commit">>
    BY <1>3, <2>4 DEF Rests, Has, Following
  <2>5. CASE w = <<"commit">>
    BY <1>3, <2>5 DEF Rests, Has, Following
  <2> QED BY <1>3, <2>1, <2>2, <2>3, <2>4, <2>5 DEF Rests
<1>4. CASE k \in {"delete", "purge"}
  <2>1. CASE w = <<"read", "erase", "recalc", "rollup", "commit">>
    BY <1>4, <2>1 DEF Rests, Has, Following
  <2>2. CASE w = <<"erase", "recalc", "rollup", "commit">>
    BY <1>4, <2>2 DEF Rests, Has, Following
  <2>3. CASE w = <<"recalc", "rollup", "commit">>
    BY <1>4, <2>3 DEF Rests, Has, Following
  <2>4. CASE w = <<"rollup", "commit">>
    BY <1>4, <2>4 DEF Rests, Has, Following
  <2>5. CASE w = <<"commit">>
    BY <1>4, <2>5 DEF Rests, Has, Following
  <2> QED BY <1>4, <2>1, <2>2, <2>3, <2>4, <2>5 DEF Rests
<1>5. CASE k = "settle"
  <2>1. CASE w = <<"anchor", "facts", "activate", "commit">>
    BY <1>5, <2>1 DEF Rests, Has, Following
  <2>2. CASE w = <<"facts", "activate", "commit">>
    BY <1>5, <2>2 DEF Rests, Has, Following
  <2>3. CASE w = <<"activate", "commit">>
    BY <1>5, <2>3 DEF Rests, Has, Following
  <2>4. CASE w = <<"commit">>
    BY <1>5, <2>4 DEF Rests, Has, Following
  <2> QED BY <1>5, <2>1, <2>2, <2>3, <2>4 DEF Rests
<1>6. CASE k = "revoke"
  <2>1. CASE w = <<"anchor", "end", "commit">>
    BY <1>6, <2>1 DEF Rests, Has, Following
  <2>2. CASE w = <<"end", "commit">>
    BY <1>6, <2>2 DEF Rests, Has, Following
  <2>3. CASE w = <<"commit">>
    BY <1>6, <2>3 DEF Rests, Has, Following
  <2> QED BY <1>6, <2>1, <2>2, <2>3 DEF Rests
<1> QED BY <1>1, <1>2, <1>3, <1>4, <1>5, <1>6 DEF Kind

(* A session that executes a statement goes on to the one that follows.    *)
LEMMA Follows ==
  ASSUME Shapes, NEW t \in Txn, Running(t), NEW s, At(t, s)
  PROVE  /\ Stage(t) = s /\ op[t] # Idle /\ op[t].kind \in Kind /\ s \in Has(op[t].kind)
         /\ s # "commit" /\ Done(t) /\ UNCHANGED op =>
              /\ todo'[t] \in Rests(op[t].kind) /\ todo'[t] # <<>>
              /\ Stage(t)' = Following(op[t].kind, s)
<1>1. op[t] # Idle /\ todo[t] \in Rests(op[t].kind) /\ Stage(t) = s
  BY DEF Running, At, Stage
<1>2. op[t].kind \in Kind
  BY <1>1 DEF Running, Proper, Kind, Removals
<1>3. /\ s \in Has(op[t].kind)
      /\ s # "commit" => /\ Tail(todo[t]) \in Rests(op[t].kind) /\ Tail(todo[t]) # <<>>
                         /\ Head(Tail(todo[t])) = Following(op[t].kind, s)
  BY <1>1, <1>2, RestFollows DEF At
<1>4. ASSUME s # "commit", Done(t), UNCHANGED op
      PROVE  /\ todo'[t] \in Rests(op[t].kind) /\ todo'[t] # <<>>
             /\ Stage(t)' = Following(op[t].kind, s)
  <2>1. todo'[t] = Tail(todo[t])
    BY <1>4 DEF Done, Shapes
  <2> QED BY <1>3, <1>4, <2>1 DEF Stage
<1> QED BY <1>1, <1>2, <1>3, <1>4

(* What a client may ask for is a proper operation.                        *)
LEMMA RequestsAreProper ==
  ASSUME NEW o \in Requests
  PROVE  /\ Proper(o) /\ o.kind \in Kind /\ o # Idle
         /\ \A r \in o.recs : o.kind = "create" <=> rows[r].st = "new"
         /\ o.kind = "create" => \A u \in Txn : op[u].kind = "create" => o.recs \cap op[u].recs = {}
<1>1. \/ o \in Some("create", Unused, Payments)
      \/ o \in Some("update", Known, Moves \cup Amounts \cup Receipts)
      \/ o \in Some("attach", Known, Receipts \cup {Resync})
      \/ o \in Some("delete", Known, {Resync})
      \/ o \in Some("purge", {{r \in Old : rows[r].st = "live" /\ rows[r].override # "ACTIVE"}} \ {{}}, {Resync})
      \/ o \in Some("settle", Known, Dates)
      \/ o \in Some("revoke", Known, {Resync})
  BY DEF Requests
<1>2. ASSUME NEW k, NEW recs, NEW edits, o \in Some(k, recs, edits)
      PROVE  o.kind = k /\ o.recs \in recs /\ o.edit \in edits
  BY <1>2 DEF Some
<1>3. \A R \in Known : \E r \in Rec : R = {r} /\ rows[r].st = "live"
  BY DEF Known
<1>4. \A R \in Unused : \E r \in Rec :
        R = {r} /\ rows[r].st = "new" /\ \A u \in Txn : ~ (op[u].kind = "create" /\ r \in op[u].recs)
  BY DEF Unused
<1>5. Idle.kind = "idle"
  BY DEF Idle
<1> USE DEF Removals
<1>6. CASE o \in Some("create", Unused, Payments)
  <2>1. o.kind = "create" /\ o.recs \in Unused /\ o.edit \in Payments
    BY <1>2, <1>6
  <2>2. \E c \in Cycle, a \in Amount, f \in Receipt : o.edit = [do |-> "new", arg |-> <<c, a, f>>]
    BY <2>1 DEF Payments
  <2>3. PICK r \in Rec : o.recs = {r} /\ rows[r].st = "new" /\ \A u \in Txn : ~ (op[u].kind = "create" /\ r \in op[u].recs)
    BY <1>4, <2>1
  <2>4. Proper(o)
    BY <2>1, <2>2, <2>3 DEF Proper
  <2> QED BY <1>5, <2>1, <2>3, <2>4 DEF Kind
<1>7. CASE o \in Some("update", Known, Moves \cup Amounts \cup Receipts)
  <2>1. o.kind = "update" /\ o.recs \in Known /\ o.edit \in Moves \cup Amounts \cup Receipts
    BY <1>2, <1>7
  <2> QED BY <1>3, <1>5, <2>1 DEF Proper, Kind
<1>8. CASE o \in Some("attach", Known, Receipts \cup {Resync})
  <2>1. o.kind = "attach" /\ o.recs \in Known /\ o.edit \in Receipts \cup {Resync}
    BY <1>2, <1>8
  <2> QED BY <1>3, <1>5, <2>1 DEF Proper, Kind
<1>9. CASE o \in Some("delete", Known, {Resync}) \/ o \in Some("revoke", Known, {Resync})
  <2>1. o.kind \in {"delete", "revoke"} /\ o.recs \in Known /\ o.edit = Resync
    BY <1>2, <1>9
  <2> QED BY <1>3, <1>5, <2>1 DEF Proper, Kind
<1>10. CASE o \in Some("purge", {{r \in Old : rows[r].st = "live" /\ rows[r].override # "ACTIVE"}} \ {{}}, {Resync})
  <2>1. o.kind = "purge" /\ o.edit = Resync /\ o.recs = {r \in Old : rows[r].st = "live" /\ rows[r].override # "ACTIVE"}
    BY <1>2, <1>10
  <2> QED BY <1>5, <2>1, SettlementAssumption DEF Proper, Kind
<1>11. CASE o \in Some("settle", Known, Dates)
  <2>1. o.kind = "settle" /\ o.recs \in Known /\ o.edit \in Dates
    BY <1>2, <1>11
  <2> QED BY <1>3, <1>5, <2>1 DEF Proper, Kind
<1> QED BY <1>1, <1>6, <1>7, <1>8, <1>9, <1>10, <1>11

(* A step of one session that commits nothing leaves the others as they are*)
OthersSame(t) ==
  /\ rows' = rows
  /\ \A u \in Txn \ {t} :
       /\ draft'[u] = draft[u] /\ op'[u] = op[u] /\ todo'[u] = todo[u] /\ keys'[u] = keys[u]
       /\ \A l \in Lock : owner'[l] = u <=> owner[l] = u

LEMMA LocksExist ==
  /\ HashLock \in Lock /\ MonthLock \in Lock
  /\ \A r \in Rec : RecordLock(r) \in Lock /\ RowLock(r) \in Lock
  /\ \A c \in Cycle : CycleLock(c) \in Lock
BY DEF Lock

LEMMA Frame ==
  ASSUME NEW t \in Txn, OthersSame(t), NEW u \in Txn \ {t}, Local(u)
  PROVE  Local(u)' /\ View(u)' = View(u) /\ Stage(u)' = Stage(u)
<1>1. /\ rows' = rows /\ draft'[u] = draft[u] /\ op'[u] = op[u] /\ todo'[u] = todo[u] /\ keys'[u] = keys[u]
      /\ \A l \in Lock : owner'[l] = u <=> owner[l] = u
  BY DEF OthersSame
<1>2. View(u)' = View(u) /\ Stage(u)' = Stage(u)
  BY <1>1 DEF View, Stage
<1>3. /\ Chosen(u)' = Chosen(u) /\ Locked(u)' = Locked(u) /\ HasReceipts(u)' = HasReceipts(u)
      /\ Synced(u)' = Synced(u) /\ Recalculated(u)' = Recalculated(u) /\ Adds(u)' = Adds(u)
      /\ Protected(u)' = Protected(u)
  BY <1>1, <1>2 DEF Chosen, Locked, HasReceipts, Synced, Recalculated, Adds, Protected
<1>4. Held(u)' = Held(u)
  BY <1>1 DEF Held
<1>5. Running(u)'
  BY <1>1, <1>4 DEF Local, Running
<1>6. op[u].recs \subseteq Rec /\ keys[u] \subseteq Cycle
  BY DEF Local, Running, Proper
<1>7. LocksHeld(u)'
  BY <1>1, <1>3, <1>6, LocksExist DEF Local, LocksHeld
<1>8. Origin(u)' /\ KeysRead(u)'
  BY <1>1, <1>3 DEF Local, Origin, KeysRead
<1>9. Drafted(u)'
  BY <1>1, <1>3 DEF Local, Drafted
<1>10. Inserted(u)' /\ FactsHold(u)'
  BY <1>1, <1>2 DEF Local, Inserted, FactsHold
<1>11. ClassesExact(u)' /\ CountsOnce(u)'
  BY <1>1, <1>2, <1>3 DEF Local, ClassesExact, CountsOnce
<1> QED BY <1>2, <1>5, <1>7, <1>8, <1>9, <1>10, <1>11 DEF Local

-----------------------------------------------------------------------------
(* Statements that write.  f holds the new rows of the records of R.       *)
Write(t, R, f) ==
  /\ draft' = [draft EXCEPT ![t] = [r \in DOMAIN @ \cup R |-> IF r \in R THEN f[r] ELSE @[r]]]
  /\ Done(t)
  /\ UNCHANGED <<rows, owner, op, keys, begun>>

LEMMA WriteEffect ==
  ASSUME Shapes, NEW t \in Txn, NEW R \in SUBSET Rec, NEW f, Write(t, R, f)
  PROVE  /\ OthersSame(t) /\ Shapes'
         /\ DOMAIN draft'[t] = DOMAIN draft[t] \cup R
         /\ \A r \in R : draft'[t][r] = f[r]
         /\ \A r \in DOMAIN draft[t] \ R : draft'[t][r] = draft[t][r]
         /\ \A r \in Rec : View(t)'[r] = IF r \in R THEN f[r] ELSE View(t)[r]
<1>1. draft'[t] = [r \in DOMAIN draft[t] \cup R |-> IF r \in R THEN f[r] ELSE draft[t][r]]
  BY DEF Write, Shapes
<1>2. \A u \in Txn \ {t} : draft'[u] = draft[u] /\ todo'[u] = todo[u]
  BY DEF Write, Done, Shapes
<1>3. Shapes'
  BY DEF Write, Done, Shapes
<1>4. OthersSame(t)
  BY <1>2 DEF Write, OthersSame
<1>5. \A r \in Rec : View(t)'[r] = IF r \in R THEN f[r] ELSE View(t)[r]
  BY <1>1 DEF View, Write
<1> QED BY <1>1, <1>3, <1>4, <1>5

(* A statement between the first and the last of a session keeps its locks,*)
(* and what it knows of its records.                                       *)
LEMMA Advance ==
  ASSUME Shapes, NEW t \in Txn, Local(t), NEW s, Ready(t, s), s \notin {"read", "anchor", "commit"},
         Done(t), UNCHANGED <<rows, owner, op, keys>>
  PROVE  /\ Running(t)' /\ LocksHeld(t)' /\ Origin(t)' /\ KeysRead(t)'
         /\ Stage(t)' = Following(op[t].kind, s) /\ Stage(t) = s /\ s \in Has(op[t].kind)
         /\ op[t].kind \in Kind /\ op[t] # Idle
         /\ Chosen(t) /\ Locked(t)'
         /\ HasReceipts(t) => HasReceipts(t)'
<1>0. At(t, s) /\ Missing(t) = {} /\ Running(t)
  BY DEF Ready, Local
<1>1. /\ Stage(t) = s /\ op[t] # Idle /\ op[t].kind \in Kind /\ s \in Has(op[t].kind)
      /\ todo'[t] \in Rests(op[t].kind) /\ todo'[t] # <<>>
      /\ Stage(t)' = Following(op[t].kind, s)
  BY <1>0, Follows
<1>2. Chosen(t) /\ Chosen(t)'
  BY <1>1 DEF Chosen, Has, Kind, Following
<1>3. Locked(t)'
  BY <1>1, <1>2 DEF Locked, Has, Kind, Following
<1>4. HasReceipts(t) => HasReceipts(t)'
  BY <1>1 DEF HasReceipts, Has, Kind, Following, Saves
<1>5. Running(t)'
  BY <1>0, <1>1 DEF Running
<1>6. Origin(t)' /\ KeysRead(t)'
  BY <1>2 DEF Local, Origin, KeysRead, Protected
<1>7. Needs(t, s) \subseteq Held(t)
  BY <1>0 DEF Missing, At
<1>8. ~Locked(t) => \A c \in keys[t] : owner[CycleLock(c)] = t
  <2> SUFFICES ASSUME ~Locked(t) PROVE CycleLocks(t) \subseteq Needs(t, s)
    BY <1>7, LocksExist DEF CycleLocks, Held
  <2>1. s \in {"insert", "edit", "erase", "facts", "end", "receipts"}
    BY <1>1, <1>2 DEF Locked
  <2> QED BY <2>1 DEF Needs, FactsLocks
<1>9. ~HasReceipts(t) /\ HasReceipts(t)' => HashLocks(t) \subseteq Needs(t, s)
  <2> SUFFICES ASSUME ~HasReceipts(t), HasReceipts(t)' PROVE s = "receipts"
    BY DEF Needs
  <2> QED BY <1>1 DEF HasReceipts, Has, Kind, Following, Saves
<1>10. Adds(t)' = Adds(t)
  BY DEF Adds
<1>11. HasReceipts(t)' /\ Adds(t) => owner[HashLock] = t
  BY <1>7, <1>9, LocksExist DEF HashLocks, Held, Local, LocksHeld
<1>12. LocksHeld(t)'
  BY <1>2, <1>8, <1>10, <1>11 DEF Local, LocksHeld
<1> QED BY <1>1, <1>2, <1>3, <1>4, <1>5, <1>6, <1>12

(* The rows of a session's own records, as it sees them.                   *)
LEMMA Targets ==
  ASSUME Shapes, NEW t \in Txn, Local(t), Chosen(t), NEW r \in op[t].recs
  PROVE  /\ r \in Rec /\ rows[r] \in Row /\ View(t)[r] \in Row
         /\ View(t)[r] = IF r \in DOMAIN draft[t] THEN draft[t][r] ELSE rows[r]
         /\ op[t].kind \in (Saves \cup Manual) \ {"create"} =>
              /\ rows[r].st = "live" /\ View(t)[r].st = "live"
              /\ rows[r].cycle \in keys[t] /\ View(t)[r].cycle \in keys[t]
         /\ op[t].kind = "create" /\ Stage(t) # "insert" => View(t)[r].st = "live" /\ r \in DOMAIN draft[t]
<1>1. r \in Rec /\ rows[r] \in Row
  BY DEF Shapes, Local, Running, Proper
<1>2. View(t)[r] = IF r \in DOMAIN draft[t] THEN draft[t][r] ELSE rows[r]
  BY <1>1 DEF View
<1>3. r \in DOMAIN draft[t] => Fits(draft[t][r], rows[r], op[t].kind, keys[t], r \in op[t].recs, HasReceipts(t) /\ Adds(t))
  BY DEF Local, Drafted
<1>4. View(t)[r] \in Row
  BY <1>1, <1>2, <1>3 DEF Fits
<1>5. ASSUME op[t].kind \in (Saves \cup Manual) \ {"create"}
      PROVE  /\ rows[r].st = "live" /\ View(t)[r].st = "live"
             /\ rows[r].cycle \in keys[t] /\ View(t)[r].cycle \in keys[t]
  <2>1. op[t].kind \notin Removals /\ op[t].kind # "create"
    BY <1>5 DEF Saves, Manual, Removals
  <2>2. rows[r].st = "live" /\ rows[r].cycle \in keys[t]
    BY <2>1 DEF Local, KeysRead
  <2>3. r \in DOMAIN draft[t] => draft[t][r].st = "live" /\ draft[t][r].cycle \in keys[t]
    BY <1>3, <2>1 DEF Fits, Relabelled, Alike, Changed
  <2> QED BY <1>2, <2>2, <2>3
<1>6. ASSUME op[t].kind = "create", Stage(t) # "insert"
      PROVE  View(t)[r].st = "live" /\ r \in DOMAIN draft[t]
  <2>1. r \in DOMAIN draft[t]
    BY <1>6 DEF Local, Inserted
  <2>2. rows[r].st = "new"
    BY <1>6 DEF Local, Origin
  <2> QED BY <1>2, <1>3, <1>6, <2>1, <2>2 DEF Fits, Relabelled, Changed, Removals
<1> QED BY <1>1, <1>2, <1>4, <1>5, <1>6

-----------------------------------------------------------------------------
(* Equal payments have equal sums and classes.                             *)
LEMMA SamePayments ==
  ASSUME NEW v, NEW w, NEW c, Members(v, c) = Members(w, c),
         \A q \in Members(v, c) : v[q].amount = w[q].amount /\ v[q].dup = w[q].dup
  PROVE  /\ Eligible(v, c) = Eligible(w, c)
         /\ \A r : /\ CollectedUpTo(v, c, r) = CollectedUpTo(w, c, r)
                   /\ Classify(v, c, r) = Classify(w, c, r)
<1>1. Eligible(v, c) = Eligible(w, c)
  BY DEF Eligible
<1>2. \A q \in Eligible(v, c) : v[q].amount = w[q].amount
  BY DEF Eligible
<1>3. ASSUME NEW R \in SUBSET Eligible(v, c)
      PROVE  Total(v, R) = Total(w, R)
  <2>1. [q \in R |-> v[q].amount] = [q \in R |-> w[q].amount]
    BY <1>2
  <2> QED BY <2>1 DEF Total
<1>4. ASSUME NEW r
      PROVE  /\ CollectedUpTo(v, c, r) = CollectedUpTo(w, c, r)
             /\ CollectedBefore(v, c, r) = CollectedBefore(w, c, r)
  <2>1. /\ {q \in Eligible(v, c) : q <= r} \in SUBSET Eligible(v, c)
        /\ {q \in Eligible(v, c) : q < r} \in SUBSET Eligible(v, c)
    OBVIOUS
  <2> QED BY <1>1, <1>3, <2>1 DEF CollectedUpTo, CollectedBefore
<1> QED BY <1>1, <1>4 DEF Classify

LEMMA SameExact ==
  ASSUME NEW v, NEW w, NEW C, Exact(v, C),
         \A c \in C : /\ Members(v, c) = Members(w, c)
                      /\ \A q \in Members(v, c) : /\ v[q].amount = w[q].amount /\ v[q].dup = w[q].dup
                                                  /\ v[q].class = w[q].class
  PROVE  Exact(w, C)
BY SamePayments DEF Exact

(* What a session's first write finds: nothing drafted.                    *)
LEMMA NothingDrafted ==
  ASSUME Shapes, NEW t \in Txn, Local(t), ~Locked(t)
  PROVE  DOMAIN draft[t] = {} /\ \A r \in Rec : View(t)[r] = rows[r]
BY DEF Local, Drafted, View

(* What a write must show of its own session's drafts.                     *)
LEMMA DraftedBy ==
  ASSUME Shapes, NEW t \in Txn, Local(t), NEW R \in SUBSET Rec, NEW f, Write(t, R, f),
         Locked(t)', HasReceipts(t) => HasReceipts(t)',
         \A r \in R : Fits(f[r], rows[r], op[t].kind, keys[t], r \in op[t].recs, HasReceipts(t)' /\ Adds(t))
  PROVE  Drafted(t)'
<1>1. /\ DOMAIN draft'[t] = DOMAIN draft[t] \cup R
      /\ \A r \in R : draft'[t][r] = f[r]
      /\ \A r \in DOMAIN draft[t] \ R : draft'[t][r] = draft[t][r]
  BY WriteEffect
<1>2. rows' = rows /\ op' = op /\ keys' = keys
  BY DEF Write
<1>3. DOMAIN draft'[t] \subseteq Rec
  BY <1>1 DEF Local, Drafted
<1>4. Adds(t)' = Adds(t)
  BY <1>2 DEF Adds
<1>5. ASSUME NEW r \in DOMAIN draft'[t]
      PROVE  Fits(draft'[t][r], rows[r], op[t].kind, keys[t], r \in op[t].recs, HasReceipts(t)' /\ Adds(t))
  <2>1. CASE r \in R
    BY <1>1, <2>1
  <2>2. CASE r \notin R
    <3>1. Fits(draft[t][r], rows[r], op[t].kind, keys[t], r \in op[t].recs, HasReceipts(t) /\ Adds(t))
      BY <1>1, <1>5, <2>2 DEF Local, Drafted
    <3>2. draft'[t][r] = draft[t][r]
      BY <1>1, <1>5, <2>2
    <3> QED BY <3>1, <3>2 DEF Fits, Changed
  <2> QED BY <2>1, <2>2
<1> QED BY <1>2, <1>3, <1>4, <1>5 DEF Drafted

-----------------------------------------------------------------------------
LEMMA NewRowTyped ==
  /\ NewRow \in Row /\ NewRow.st = "new" /\ NewRow.receipt = "none" /\ NewRow.override = "none"
  /\ NewRow.class = "none" /\ NewRow.dup = FALSE
<1>1. FirstCycle \in Cycle
  BY SettlementAssumption DEF FirstCycle
<1> QED BY <1>1 DEF NewRow, Row, Receipt, Class, Override

LEMMA CreateIs ==
  ASSUME NEW t \in Txn, Local(t), op[t].kind = "create"
  PROVE  /\ op[t].edit.arg[1] \in Cycle /\ op[t].edit.arg[2] \in Amount /\ op[t].edit.do = "new"
         /\ keys[t] = {op[t].edit.arg[1]}
         /\ \E r \in Rec : op[t].recs = {r}
<1>1. op[t] # Idle
  BY DEF Idle
<1>2. \E r \in Rec, c \in Cycle, a \in Amount, f \in Receipt :
          op[t].recs = {r} /\ op[t].edit = [do |-> "new", arg |-> <<c, a, f>>]
  BY <1>1 DEF Local, Running, Proper, Removals
<1> QED BY <1>2 DEF Local, KeysRead

LEMMA TargetIs ==
  ASSUME NEW t \in Txn, Local(t), op[t].kind \in Saves \cup Manual
  PROVE  Target(t) \in Rec /\ op[t].recs = {Target(t)}
<1>1. op[t] # Idle
  BY DEF Idle, Saves, Manual
<1>2. \E r \in Rec : op[t].recs = {r}
  BY <1>1 DEF Local, Running, Proper, Removals, Saves, Manual
<1> QED BY <1>2 DEF Target

(* Parts of the invariant that do not concern a session yet.               *)
LEMMA NotYet ==
  ASSUME NEW t \in Txn, ~Synced(t)', ~Recalculated(t)', op'[t].kind # "settle"
  PROVE  ClassesExact(t)' /\ CountsOnce(t)' /\ FactsHold(t)'
BY DEF ClassesExact, CountsOnce, FactsHold

LEMMA InsertKeeps ==
  ASSUME Shapes, Committed, NEW t \in Txn, Local(t), Insert(t)
  PROVE  Local(t)' /\ Shapes' /\ OthersSame(t) /\ ~Synced(t)'
<1> DEFINE f == [r \in op[t].recs |-> [NewRow EXCEPT !.st = "live", !.cycle = op[t].edit.arg[1],
                                                     !.amount = op[t].edit.arg[2]]]
<1>0. Ready(t, "insert") /\ op[t].recs \in SUBSET Rec
  BY DEF Insert, Local, Running, Proper
<1>1. Write(t, op[t].recs, f)
  BY DEF Insert, Put, Write
<1>2. /\ Running(t)' /\ LocksHeld(t)' /\ Origin(t)' /\ KeysRead(t)'
      /\ Stage(t)' = Following(op[t].kind, "insert") /\ Stage(t) = "insert" /\ "insert" \in Has(op[t].kind)
      /\ op[t].kind \in Kind /\ Chosen(t) /\ Locked(t)'
      /\ HasReceipts(t) => HasReceipts(t)'
  BY <1>0, <1>1, Advance DEF Write
<1>3. op[t].kind = "create" /\ op' = op /\ Stage(t)' = "rollup"
  BY <1>1, <1>2 DEF Has, Kind, Following, Write
<1>4. ASSUME NEW r \in op[t].recs
      PROVE  Fits(f[r], rows[r], op[t].kind, keys[t], r \in op[t].recs, HasReceipts(t)' /\ Adds(t))
  <2>1. rows[r].st = "new" /\ rows[r].override = "none"
    BY <1>0, <1>3 DEF Local, Origin, Committed
  <2>2. /\ f[r] \in Row /\ f[r].st = "live" /\ f[r].cycle \in keys[t]
        /\ f[r].override = "none" /\ f[r].receipt = "none"
    BY <1>3, CreateIs, NewRowTyped DEF Row, NewRow
  <2> HIDE DEF f
  <2> QED BY <1>3, <2>1, <2>2 DEF Fits, Changed, Removals, Manual
<1> HIDE DEF f
<1>5. Drafted(t)'
  BY <1>0, <1>1, <1>2, <1>4, DraftedBy
<1>6. /\ OthersSame(t) /\ Shapes' /\ DOMAIN draft'[t] = DOMAIN draft[t] \cup op[t].recs
  BY <1>0, <1>1, WriteEffect
<1>7. Inserted(t)'
  BY <1>3, <1>6 DEF Inserted
<1>8. ~Synced(t)' /\ ~Recalculated(t)'
  BY <1>3 DEF Synced, HasReceipts, Recalculated
<1>9. ClassesExact(t)' /\ CountsOnce(t)' /\ FactsHold(t)'
  BY <1>3, <1>8, NotYet
<1> QED BY <1>2, <1>5, <1>6, <1>7, <1>8, <1>9 DEF Local

LEMMA EditKeeps ==
  ASSUME Shapes, Committed, NEW t \in Txn, Local(t), Edit(t)
  PROVE  Local(t)' /\ Shapes' /\ OthersSame(t) /\ ~Synced(t)'
<1> DEFINE f == [r \in op[t].recs |-> Edited(t)]
<1>0. Ready(t, "edit") /\ op[t].recs \in SUBSET Rec
  BY DEF Edit, Local, Running, Proper
<1>1. Write(t, op[t].recs, f)
  BY DEF Edit, Put, Write
<1>2. /\ Running(t)' /\ LocksHeld(t)' /\ Origin(t)' /\ KeysRead(t)'
      /\ Stage(t)' = Following(op[t].kind, "edit") /\ Stage(t) = "edit" /\ "edit" \in Has(op[t].kind)
      /\ op[t].kind \in Kind /\ Chosen(t) /\ Locked(t)' /\ op[t] # Idle
      /\ HasReceipts(t) => HasReceipts(t)'
  BY <1>0, <1>1, Advance DEF Write
<1>3. op[t].kind = "update" /\ op' = op /\ Stage(t)' = "receipts"
  BY <1>1, <1>2 DEF Has, Kind, Following, Write
<1>4. ~Locked(t)
  BY <1>2 DEF Locked
<1>5. op[t].edit \in Moves \cup Amounts \cup Receipts
  BY <1>2, <1>3 DEF Local, Running, Proper, Removals
<1>6. ASSUME NEW r \in op[t].recs
      PROVE  Fits(f[r], rows[r], op[t].kind, keys[t], r \in op[t].recs, HasReceipts(t)' /\ Adds(t))
  <2>1. /\ r = Target(t) /\ View(t)[r] = rows[r] /\ rows[r] \in Row
        /\ rows[r].st = "live" /\ rows[r].cycle \in keys[t]
    BY <1>0, <1>2, <1>3, <1>4, TargetIs, Targets, NothingDrafted DEF Saves
  <2>2. CASE op[t].edit.do = "move"
    <3>1. op[t].edit.arg \in keys[t] /\ rows[r].override # "ACTIVE"
      BY <1>2, <1>3, <2>2 DEF Local, KeysRead, Protected, Removals
    <3>2. f[r] = [rows[r] EXCEPT !.cycle = op[t].edit.arg]
      BY <2>1, <2>2 DEF Edited
    <3>3. keys[t] \subseteq Cycle
      BY DEF Local, Running
    <3>4. /\ f[r] \in Row /\ f[r].st = "live" /\ f[r].cycle \in keys[t]
          /\ f[r].override = rows[r].override /\ f[r].receipt = rows[r].receipt
      BY <2>1, <3>1, <3>2, <3>3 DEF Row
    <3> HIDE DEF f
    <3> QED BY <1>3, <2>1, <3>1, <3>4 DEF Fits, Changed, Removals, Manual
  <2>3. CASE op[t].edit.do # "move"
    <3>1. op[t].edit \in Amounts \/ op[t].edit.do \in {"add", "drop"}
      BY <1>5, <2>3 DEF Moves, Receipts
    <3>2. f[r] = rows[r] \/ (op[t].edit.arg \in Amount /\ f[r] = [rows[r] EXCEPT !.amount = op[t].edit.arg])
      BY <2>1, <2>3, <3>1 DEF Edited, Amounts
    <3>3. /\ f[r] \in Row /\ f[r].st = "live" /\ f[r].cycle = rows[r].cycle
          /\ f[r].override = rows[r].override /\ f[r].receipt = rows[r].receipt
      BY <2>1, <3>2 DEF Row
    <3> HIDE DEF f
    <3> QED BY <1>3, <2>1, <3>3 DEF Fits, Changed, Removals, Manual
  <2> QED BY <2>2, <2>3
<1> HIDE DEF f
<1>7. Drafted(t)'
  BY <1>0, <1>1, <1>2, <1>6, DraftedBy
<1>8. OthersSame(t) /\ Shapes'
  BY <1>0, <1>1, WriteEffect
<1>9. Inserted(t)' /\ ~Synced(t)' /\ ~Recalculated(t)'
  BY <1>3 DEF Inserted, Synced, HasReceipts, Recalculated
<1>10. ClassesExact(t)' /\ CountsOnce(t)' /\ FactsHold(t)'
  BY <1>3, <1>9, NotYet
<1> QED BY <1>2, <1>7, <1>8, <1>9, <1>10 DEF Local

LEMMA EraseKeeps ==
  ASSUME Shapes, Committed, NEW t \in Txn, Local(t), Erase(t)
  PROVE  Local(t)' /\ Shapes' /\ OthersSame(t) /\ ~Synced(t)'
<1> DEFINE f == [r \in Found(t) |-> [NewRow EXCEPT !.st = "gone"]]
<1>0. Ready(t, "erase") /\ op[t].recs \in SUBSET Rec /\ Found(t) \in SUBSET op[t].recs
  BY DEF Erase, Local, Running, Proper, Found
<1>1. Write(t, Found(t), f)
  BY DEF Erase, Put, Write
<1>2. /\ Running(t)' /\ LocksHeld(t)' /\ Origin(t)' /\ KeysRead(t)'
      /\ Stage(t)' = Following(op[t].kind, "erase") /\ Stage(t) = "erase" /\ "erase" \in Has(op[t].kind)
      /\ op[t].kind \in Kind /\ Chosen(t) /\ Locked(t)' /\ op[t] # Idle
      /\ HasReceipts(t) => HasReceipts(t)'
  BY <1>0, <1>1, Advance DEF Write
<1>3. op[t].kind \in Removals /\ op' = op /\ Stage(t)' = "recalc"
  BY <1>1, <1>2 DEF Has, Kind, Following, Write, Removals
<1>4. ~Locked(t)
  BY <1>2 DEF Locked
<1>5. ASSUME NEW r \in Found(t)
      PROVE  Fits(f[r], rows[r], op[t].kind, keys[t], r \in op[t].recs, HasReceipts(t)' /\ Adds(t))
  <2>1. /\ View(t)[r] = rows[r] /\ r \in op[t].recs /\ r \in Rec
        /\ rows[r].st = "live" /\ rows[r].override # "ACTIVE"
    BY <1>0, <1>3, <1>4, NothingDrafted DEF Found, Protected, Removals
  <2>2. rows[r].cycle \in keys[t]
    BY <1>2, <1>3, <2>1 DEF Local, KeysRead, Removals
  <2>3. /\ f[r] \in Row /\ f[r].st = "gone" /\ f[r].override = "none" /\ f[r].receipt = "none"
    BY NewRowTyped DEF Row, NewRow
  <2> HIDE DEF f
  <2> QED BY <1>3, <2>1, <2>2, <2>3 DEF Fits, Changed, Removals, Manual, Saves
<1> HIDE DEF f
<1>6. Drafted(t)'
  BY <1>0, <1>1, <1>2, <1>5, DraftedBy
<1>7. OthersSame(t) /\ Shapes'
  BY <1>0, <1>1, WriteEffect
<1>8. Inserted(t)' /\ ~Synced(t)' /\ ~Recalculated(t)'
  BY <1>3 DEF Inserted, Synced, HasReceipts, Recalculated, Removals, Saves
<1>9. ClassesExact(t)' /\ CountsOnce(t)' /\ FactsHold(t)'
  BY <1>3, <1>8, NotYet DEF Removals
<1> QED BY <1>2, <1>6, <1>7, <1>8, <1>9 DEF Local

(* A save's own record, as it sees it.                                     *)
LEMMA OwnRow ==
  ASSUME Shapes, NEW t \in Txn, Local(t), Chosen(t), op[t].kind \in Saves, Stage(t) # "insert",
         NEW r \in op[t].recs
  PROVE  /\ View(t)[r] \in Row /\ View(t)[r].st = "live" /\ View(t)[r].cycle \in keys[t]
         /\ View(t)[r].override = rows[r].override
         /\ rows[r].override = "ACTIVE" => View(t)[r].cycle = rows[r].cycle
         /\ View(t)[r].receipt = "file" => rows[r].receipt = "file" \/ (HasReceipts(t) /\ Adds(t))
         /\ op[t].kind # "create" => rows[r].st = "live" /\ rows[r].cycle \in keys[t]
         /\ op[t].kind = "create" => rows[r].st = "new"
<1> DEFINE v == View(t)[r]
<1>1. /\ v \in Row /\ rows[r] \in Row
      /\ op[t].kind # "create" => rows[r].st = "live" /\ rows[r].cycle \in keys[t]
  BY Targets DEF Saves
<1>2. op[t].kind = "create" => rows[r].st = "new"
  BY DEF Local, Origin
<1>3. op[t].kind \notin Removals /\ op[t].kind \notin Manual
  BY DEF Saves, Removals, Manual
<1>4. /\ v.st = "live" /\ v.cycle \in keys[t] /\ v.override = rows[r].override
      /\ rows[r].override = "ACTIVE" => v.cycle = rows[r].cycle
      /\ v.receipt = "file" => rows[r].receipt = "file" \/ (HasReceipts(t) /\ Adds(t))
  <2>1. CASE r \in DOMAIN draft[t]
    <3>1. Fits(draft[t][r], rows[r], op[t].kind, keys[t], r \in op[t].recs, HasReceipts(t) /\ Adds(t)) /\ v = draft[t][r]
      BY <2>1, Targets DEF Local, Drafted
    <3> HIDE DEF v
    <3> QED BY <1>3, <3>1 DEF Fits, Relabelled, Changed, Alike
  <2>2. CASE r \notin DOMAIN draft[t]
    <3>1. v = rows[r] /\ op[t].kind # "create"
      BY <2>2, Targets
    <3> QED BY <1>1, <3>1
  <2> QED BY <2>1, <2>2
<1> QED BY <1>1, <1>2, <1>4

LEMMA AttachKeeps ==
  ASSUME Shapes, Committed, NEW t \in Txn, Local(t), AttachReceipts(t)
  PROVE  Local(t)' /\ Shapes' /\ OthersSame(t) /\ ~Synced(t)'
<1> DEFINE f == [r \in op[t].recs |-> WithReceipt(t, View(t)[r])]
<1>0. Ready(t, "receipts") /\ op[t].recs \in SUBSET Rec
  BY DEF AttachReceipts, Local, Running, Proper
<1>1. Write(t, op[t].recs, f)
  BY DEF AttachReceipts, Put, Write
<1>2. /\ Running(t)' /\ LocksHeld(t)' /\ Origin(t)' /\ KeysRead(t)'
      /\ Stage(t)' = Following(op[t].kind, "receipts") /\ Stage(t) = "receipts" /\ "receipts" \in Has(op[t].kind)
      /\ op[t].kind \in Kind /\ Chosen(t) /\ Locked(t)' /\ op[t] # Idle
      /\ HasReceipts(t) => HasReceipts(t)'
  BY <1>0, <1>1, Advance DEF Write
<1>3. op[t].kind \in Saves /\ op' = op /\ Stage(t)' = "sync"
  BY <1>1, <1>2 DEF Has, Kind, Following, Write, Saves
<1>4. HasReceipts(t)' /\ ~HasReceipts(t)
  BY <1>2, <1>3 DEF HasReceipts
<1>5. ASSUME NEW r \in op[t].recs
      PROVE  Fits(f[r], rows[r], op[t].kind, keys[t], r \in op[t].recs, HasReceipts(t)' /\ Adds(t))
  <2> DEFINE v == View(t)[r]
  <2>1. /\ v \in Row /\ v.st = "live" /\ v.cycle \in keys[t] /\ v.override = rows[r].override
        /\ rows[r].override = "ACTIVE" => v.cycle = rows[r].cycle
        /\ v.receipt = "file" => rows[r].receipt = "file"
        /\ op[t].kind # "create" => rows[r].st = "live" /\ rows[r].cycle \in keys[t]
        /\ op[t].kind = "create" => rows[r].st = "new"
    BY <1>2, <1>3, <1>4, OwnRow
  <2>2. /\ f[r] \in Row /\ f[r].st = "live" /\ f[r].cycle = v.cycle /\ f[r].override = v.override
        /\ f[r].receipt = "file" => v.receipt = "file" \/ Adds(t)
    BY <2>1 DEF WithReceipt, Row, Receipt
  <2>3. op[t].kind \notin Removals /\ op[t].kind \notin Manual
    BY <1>3 DEF Saves, Removals, Manual
  <2> HIDE DEF f, v
  <2> QED BY <1>3, <1>4, <2>1, <2>2, <2>3 DEF Fits, Changed
<1> HIDE DEF f
<1>6. Drafted(t)'
  BY <1>0, <1>1, <1>2, <1>5, DraftedBy
<1>7. OthersSame(t) /\ Shapes' /\ DOMAIN draft'[t] = DOMAIN draft[t] \cup op[t].recs
  BY <1>0, <1>1, WriteEffect
<1>8. Inserted(t)' /\ ~Synced(t)' /\ ~Recalculated(t)'
  BY <1>3, <1>7 DEF Inserted, Synced, HasReceipts, Recalculated, Saves
<1>9. ClassesExact(t)' /\ CountsOnce(t)' /\ FactsHold(t)'
  BY <1>3, <1>8, NotYet DEF Saves
<1> QED BY <1>2, <1>6, <1>7, <1>8, <1>9 DEF Local

(* A synchronised receipt that counts: no other record held the file.      *)
LEMMA SyncKeeps ==
  ASSUME Shapes, Committed, NEW t \in Txn, Local(t), Sync(t)
  PROVE  /\ Local(t)' /\ Shapes' /\ OthersSame(t)
         /\ HasReceipts(t) /\ Chosen(t) /\ op' = op
         /\ \A r \in op[t].recs : Counted(View(t)'[r]) =>
              /\ \A q \in Rec \ {r} : q \notin Holders(rows)
              /\ ~Adds(t) => r \in Holders(rows)
<1> DEFINE f == [r \in op[t].recs |-> [View(t)[r] EXCEPT !.dup = Duplicate(t, r)]]
<1>0. Ready(t, "sync") /\ op[t].recs \in SUBSET Rec
  BY DEF Sync, Local, Running, Proper
<1>1. Write(t, op[t].recs, f)
  BY DEF Sync, Put, Write
<1>2. /\ Running(t)' /\ LocksHeld(t)' /\ Origin(t)' /\ KeysRead(t)'
      /\ Stage(t)' = Following(op[t].kind, "sync") /\ Stage(t) = "sync" /\ "sync" \in Has(op[t].kind)
      /\ op[t].kind \in Kind /\ Chosen(t) /\ Locked(t)' /\ op[t] # Idle
      /\ HasReceipts(t) => HasReceipts(t)'
  BY <1>0, <1>1, Advance DEF Write
<1>3. op[t].kind \in Saves /\ op' = op /\ Stage(t)' = "recalc"
  BY <1>1, <1>2 DEF Has, Kind, Following, Write, Saves
<1>4. HasReceipts(t)' /\ HasReceipts(t)
  BY <1>2, <1>3 DEF HasReceipts
<1>5. op[t].kind \notin Removals /\ op[t].kind \notin Manual
  BY <1>3 DEF Saves, Removals, Manual
<1>6. ASSUME NEW r \in op[t].recs
      PROVE  /\ View(t)[r] \in Row /\ View(t)[r].st = "live" /\ View(t)[r].cycle \in keys[t]
             /\ View(t)[r].override = rows[r].override
             /\ rows[r].override = "ACTIVE" => View(t)[r].cycle = rows[r].cycle
             /\ View(t)[r].receipt = "file" => rows[r].receipt = "file" \/ Adds(t)
             /\ op[t].kind # "create" => rows[r].st = "live" /\ rows[r].cycle \in keys[t]
             /\ op[t].kind = "create" => rows[r].st = "new"
  BY <1>2, <1>3, <1>4, OwnRow
<1>7. ASSUME NEW r \in op[t].recs
      PROVE  /\ f[r] \in Row /\ Alike([f[r] EXCEPT !.dup = View(t)[r].dup], View(t)[r])
             /\ f[r].st = View(t)[r].st /\ f[r].cycle = View(t)[r].cycle /\ f[r].override = View(t)[r].override
             /\ f[r].receipt = View(t)[r].receipt /\ f[r].dup = Duplicate(t, r)
  <2>1. Duplicate(t, r) \in BOOLEAN
    BY DEF Duplicate
  <2> QED BY <1>6, <2>1 DEF Row, Alike
<1> HIDE DEF f
<1>8. ASSUME NEW r \in op[t].recs
      PROVE  Fits(f[r], rows[r], op[t].kind, keys[t], r \in op[t].recs, HasReceipts(t)' /\ Adds(t))
  BY <1>3, <1>4, <1>5, <1>6, <1>7 DEF Fits, Changed
<1>9. Drafted(t)'
  BY <1>0, <1>1, <1>2, <1>8, DraftedBy
<1>10. /\ OthersSame(t) /\ Shapes' /\ DOMAIN draft'[t] = DOMAIN draft[t] \cup op[t].recs
       /\ \A r \in op[t].recs : View(t)'[r] = f[r]
  <2>1. OthersSame(t) /\ Shapes' /\ DOMAIN draft'[t] = DOMAIN draft[t] \cup op[t].recs
    BY <1>0, <1>1, WriteEffect
  <2>2. ASSUME NEW r \in op[t].recs
        PROVE  View(t)'[r] = f[r]
    BY <1>0, <1>1, <2>2, WriteEffect
  <2> QED BY <2>1, <2>2
<1>11. ASSUME NEW r \in op[t].recs, Counted(View(t)'[r])
       PROVE  /\ \A q \in Rec \ {r} : q \notin Holders(rows)
              /\ ~Adds(t) => r \in Holders(rows)
  <2>1. Holders(View(t)) = {r} /\ View(t)[r].receipt = "file"
    BY <1>7, <1>10, <1>11 DEF Counted, Duplicate
  <2>2. op[t].recs = {r}
    BY <1>3, TargetIs
  <2>3. ASSUME NEW q \in Rec \ {r}
        PROVE  q \in Holders(rows) => q \in Holders(View(t))
    <3>1. CASE q \in DOMAIN draft[t]
      <4>1. View(t)[q] = draft[t][q] /\ Relabelled(draft[t][q], rows[q])
        BY <2>2, <3>1 DEF View, Local, Drafted, Fits
      <4> QED BY <4>1 DEF Relabelled, Alike, Holders
    <3>2. CASE q \notin DOMAIN draft[t]
      BY <3>2 DEF View, Holders
    <3> QED BY <3>1, <3>2
  <2>4. ~Adds(t) => r \in Holders(rows)
    <3>1. rows[r].st # "live" => rows[r].receipt = "none"
      BY <1>0 DEF Committed
    <3> QED BY <1>0, <1>6, <2>1, <3>1 DEF Holders
  <2> QED BY <2>1, <2>3, <2>4
<1>12. \A q \in Rec : q \notin Holders(rows) => ~Counted(rows[q])
  BY DEF Holders, Counted
<1>13. rows' = rows /\ op' = op /\ Adds(t)' = Adds(t)
  BY <1>1 DEF Write, Adds
<1>14. CountsOnce(t)'
  BY <1>11, <1>12, <1>13 DEF CountsOnce
<1>15. Inserted(t)' /\ ~Recalculated(t)'
  BY <1>3, <1>10 DEF Inserted, Recalculated, Saves
<1>16. ClassesExact(t)' /\ FactsHold(t)'
  BY <1>3, <1>15 DEF Saves, ClassesExact, FactsHold
<1> QED BY <1>2, <1>4, <1>9, <1>10, <1>11, <1>13, <1>14, <1>15, <1>16 DEF Local

LEMMA RecalcKeeps ==
  ASSUME Shapes, Committed, NEW t \in Txn, Local(t), Recalc(t)
  PROVE  /\ Local(t)' /\ Shapes' /\ OthersSame(t)
         /\ Synced(t)' => Synced(t) /\ \A r \in op[t].recs : Counted(View(t)'[r]) => Counted(View(t)[r])
<1> DEFINE v == View(t)
           R == UNION {Members(v, c) : c \in keys[t]}
           f == [r \in R |-> [v[r] EXCEPT !.class = Classify(v, v[r].cycle, r)]]
<1>0. Ready(t, "recalc") /\ R \in SUBSET Rec /\ op[t].recs \subseteq Rec
  BY DEF Recalc, Members, Local, Running, Proper
<1>1. Write(t, R, f)
  BY DEF Recalc, RecalcKeys, Put, Write
<1>2. /\ Running(t)' /\ LocksHeld(t)' /\ Origin(t)' /\ KeysRead(t)'
      /\ Stage(t)' = Following(op[t].kind, "recalc") /\ Stage(t) = "recalc" /\ "recalc" \in Has(op[t].kind)
      /\ op[t].kind \in Kind /\ Chosen(t) /\ Locked(t)' /\ op[t] # Idle
      /\ HasReceipts(t) => HasReceipts(t)'
  BY <1>0, <1>1, Advance DEF Write
<1>3. op[t].kind \in Saves \cup Removals /\ op' = op /\ Stage(t)' = IF op[t].kind \in {"create", "attach"} THEN "commit" ELSE "rollup"
  BY <1>1, <1>2 DEF Has, Kind, Following, Write, Saves, Removals
<1>4. op[t].kind \notin Manual /\ rows' = rows /\ keys' = keys
  BY <1>1, <1>3 DEF Saves, Removals, Manual, Write
<1>5. ASSUME NEW r \in R
      PROVE  /\ v[r] \in Row /\ v[r].st = "live" /\ v[r].cycle \in keys[t] /\ r \in Rec
             /\ v[r] = IF r \in DOMAIN draft[t] THEN draft[t][r] ELSE rows[r]
             /\ r \in DOMAIN draft[t] => Fits(draft[t][r], rows[r], op[t].kind, keys[t], r \in op[t].recs, HasReceipts(t) /\ Adds(t))
  <2>1. r \in Rec /\ v[r].st = "live" /\ v[r].cycle \in keys[t]
    BY DEF Members
  <2>2. v[r] = IF r \in DOMAIN draft[t] THEN draft[t][r] ELSE rows[r]
    BY <2>1 DEF View
  <2>3. r \in DOMAIN draft[t] => Fits(draft[t][r], rows[r], op[t].kind, keys[t], r \in op[t].recs, HasReceipts(t) /\ Adds(t))
    BY DEF Local, Drafted
  <2>4. v[r] \in Row
    BY <2>1, <2>2, <2>3 DEF Fits, Shapes
  <2> QED BY <2>1, <2>2, <2>3, <2>4
<1>6. ASSUME NEW r \in R
      PROVE  /\ f[r] \in Row /\ Alike(f[r], v[r]) /\ f[r].override = v[r].override
             /\ f[r].class = Classify(v, v[r].cycle, r)
  <2>1. Classify(v, v[r].cycle, r) \in Class
    BY DEF Classify, Class
  <2> HIDE DEF v, R
  <2> QED BY <1>5, <2>1 DEF Row, Alike
<1> HIDE DEF f
<1>7. ASSUME NEW r \in R
      PROVE  Fits(f[r], rows[r], op[t].kind, keys[t], r \in op[t].recs, HasReceipts(t)' /\ Adds(t))
  <2> HIDE DEF v, R
  <2>1. CASE r \in DOMAIN draft[t]
    BY <1>2, <1>4, <1>5, <1>6, <2>1 DEF Fits, Relabelled, Changed, Alike
  <2>2. CASE r \notin DOMAIN draft[t]
    BY <1>4, <1>5, <1>6, <2>2 DEF Fits, Relabelled, Alike
  <2> QED BY <2>1, <2>2
<1>8. Drafted(t)'
  <2> HIDE DEF v, R
  <2> QED BY <1>0, <1>1, <1>2, <1>7, DraftedBy
<1>9. /\ OthersSame(t) /\ Shapes' /\ DOMAIN draft'[t] = DOMAIN draft[t] \cup R
      /\ \A r \in Rec : View(t)'[r] = IF r \in R THEN f[r] ELSE v[r]
  <2> HIDE DEF R
  <2> QED BY <1>0, <1>1, WriteEffect
<1>10. \A r \in Rec : /\ Alike(View(t)'[r], v[r]) /\ View(t)'[r].override = v[r].override
                      /\ r \in R => View(t)'[r].class = Classify(v, v[r].cycle, r)
  <2> HIDE DEF v, R
  <2> QED BY <1>0, <1>6, <1>9 DEF Alike
<1>11. Exact(View(t)', keys[t])
  <2> SUFFICES ASSUME NEW c \in keys[t], NEW r \in Members(View(t)', c)
               PROVE  View(t)'[r].class = Classify(View(t)', c, r)
    BY DEF Exact
  <2>1. Members(View(t)', c) = Members(v, c)
    BY <1>10 DEF Members, Alike
  <2>2. \A q \in Members(v, c) : View(t)'[q].amount = v[q].amount /\ View(t)'[q].dup = v[q].dup
    BY <1>10 DEF Members, Alike
  <2>3. Classify(View(t)', c, r) = Classify(v, c, r)
    <3> HIDE DEF v
    <3> QED BY <2>1, <2>2, SamePayments
  <2>4. r \in R /\ r \in Rec /\ v[r].cycle = c
    BY <2>1 DEF Members
  <2> QED BY <1>10, <2>3, <2>4
<1>12. \A r \in Rec : Counted(View(t)'[r]) => Counted(View(t)[r])
  BY <1>10 DEF Counted, Alike
<1>13. ClassesExact(t)'
  BY <1>4, <1>11 DEF ClassesExact
<1>14. Synced(t)' => Synced(t)
  BY <1>2, <1>3 DEF Synced, HasReceipts
<1>15. Adds(t)' = Adds(t)
  BY <1>3 DEF Adds
<1>16. CountsOnce(t)'
  <2> HIDE DEF v, R
  <2>1. ASSUME Synced(t)', NEW r \in op[t].recs, Counted(View(t)'[r])
        PROVE  /\ \A q \in Rec \ {r} : ~Counted(rows[q])
               /\ IF Adds(t) THEN \A q \in Rec \ {r} : q \notin Holders(rows) ELSE r \in Holders(rows)
    <3>1. Counted(View(t)[r]) /\ Synced(t)
      BY <1>0, <1>12, <1>14, <2>1
    <3> QED BY <3>1 DEF Local, CountsOnce
  <2> QED BY <1>3, <1>4, <1>15, <2>1 DEF CountsOnce
<1>17. Inserted(t)'
  <2> HIDE DEF R
  <2> QED BY <1>2, <1>3, <1>9 DEF Local, Inserted, Saves, Removals
<1>18. FactsHold(t)'
  BY <1>3 DEF FactsHold, Saves, Removals
<1> QED BY <1>0, <1>2, <1>8, <1>9, <1>12, <1>13, <1>14, <1>16, <1>17, <1>18 DEF Local

-----------------------------------------------------------------------------
(* Statements that only read, of a session whose drafts and rows stay.     *)
LEMMA ReadOnly ==
  ASSUME Shapes, NEW t \in Txn, Done(t), UNCHANGED <<rows, draft, owner, op, keys, begun>>
  PROVE  Shapes' /\ OthersSame(t) /\ View(t)' = View(t) /\ Adds(t)' = Adds(t)
<1>1. \A u \in Txn \ {t} : todo'[u] = todo[u]
  BY DEF Done, Shapes
<1>2. Shapes'
  BY DEF Done, Shapes
<1> QED BY <1>1, <1>2 DEF OthersSame, View, Adds

LEMMA RollupKeeps ==
  ASSUME Shapes, Committed, NEW t \in Txn, Local(t), Rollup(t)
  PROVE  /\ Local(t)' /\ Shapes' /\ OthersSame(t)
         /\ Synced(t)' => Synced(t) /\ \A r \in op[t].recs : Counted(View(t)'[r]) => Counted(View(t)[r])
<1>0. Ready(t, "rollup") /\ Done(t) /\ UNCHANGED <<rows, draft, owner, op, keys, begun>>
  BY DEF Rollup
<1>1. Shapes' /\ OthersSame(t) /\ View(t)' = View(t) /\ Adds(t)' = Adds(t)
  BY <1>0, ReadOnly
<1>2. /\ Running(t)' /\ LocksHeld(t)' /\ Origin(t)' /\ KeysRead(t)'
      /\ Stage(t)' = Following(op[t].kind, "rollup") /\ Stage(t) = "rollup" /\ "rollup" \in Has(op[t].kind)
      /\ op[t].kind \in Kind /\ Chosen(t) /\ Locked(t)' /\ op[t] # Idle
      /\ HasReceipts(t) => HasReceipts(t)'
  BY <1>0, Advance
<1>3. op[t].kind \in {"create", "update"} \cup Removals
  BY <1>2 DEF Has, Kind, Removals
<1>4. Stage(t)' = IF op[t].kind = "create" THEN "receipts" ELSE "commit"
  BY <1>2 DEF Following
<1>5. Synced(t)' => Synced(t)
  BY <1>0, <1>2, <1>3, <1>4 DEF Synced, HasReceipts, Saves, Removals
<1>6. Recalculated(t)' => Recalculated(t)
  BY <1>0, <1>2, <1>3, <1>4 DEF Recalculated, Saves, Removals
<1>7. Drafted(t)'
  <2>1. (HasReceipts(t) /\ Adds(t)) => (HasReceipts(t) /\ Adds(t))'
    BY <1>1, <1>2
  <2> QED BY <1>0, <1>2, <2>1 DEF Local, Drafted, Fits, Changed
<1>8. Inserted(t)'
  BY <1>0, <1>2, <1>3 DEF Local, Inserted, Removals
<1>9. ClassesExact(t)' /\ CountsOnce(t)'
  BY <1>0, <1>1, <1>5, <1>6 DEF Local, ClassesExact, CountsOnce
<1>10. FactsHold(t)'
  BY <1>0, <1>3 DEF FactsHold, Removals
<1> QED BY <1>0, <1>1, <1>2, <1>5, <1>7, <1>8, <1>9, <1>10 DEF Local

LEMMA FactsKeeps ==
  ASSUME Shapes, Committed, NEW t \in Txn, Local(t), Facts(t)
  PROVE  Local(t)' /\ Shapes' /\ OthersSame(t) /\ ~Synced(t)'
<1>0. Ready(t, "facts") /\ Done(t) /\ UNCHANGED <<rows, draft, owner, op, keys, begun>>
  BY DEF Facts
<1>1. Shapes' /\ OthersSame(t) /\ View(t)' = View(t) /\ Adds(t)' = Adds(t)
  BY <1>0, ReadOnly
<1>2. /\ Running(t)' /\ LocksHeld(t)' /\ Origin(t)' /\ KeysRead(t)'
      /\ Stage(t)' = Following(op[t].kind, "facts") /\ Stage(t) = "facts" /\ "facts" \in Has(op[t].kind)
      /\ op[t].kind \in Kind /\ Chosen(t) /\ Locked(t)' /\ op[t] # Idle
  BY <1>0, Advance
<1>3. op[t].kind = "settle" /\ Stage(t)' = "activate"
  BY <1>2 DEF Has, Kind, Following
<1>4. DOMAIN draft[t] = {} /\ View(t) = rows
  <2>1. ~Locked(t)
    BY <1>2 DEF Locked
  <2>2. DOMAIN draft[t] = {} /\ \A r \in Rec : View(t)[r] = rows[r]
    BY <2>1, NothingDrafted
  <2> QED BY <2>2 DEF View, Shapes
<1>5. Drafted(t)'
  BY <1>0, <1>2, <1>4 DEF Drafted
<1>6. Inserted(t)' /\ ~Synced(t)' /\ ~Recalculated(t)'
  BY <1>0, <1>3 DEF Inserted, Synced, HasReceipts, Recalculated, Saves, Removals
<1>7. ASSUME NEW r \in op[t].recs
      PROVE  LET c == rows[r].cycle IN
             /\ Actives(rows, c) \subseteq {r}
             /\ Aborts(rows, c) = {}
             /\ SystemCollected(rows, c, op[t].edit.arg) + Pool >= Due
  <2>1. r = Target(t) /\ op[t].recs = {r}
    BY <1>3, TargetIs DEF Manual
  <2> QED BY <1>4, <2>1 DEF Facts
<1>8. FactsHold(t)'
  BY <1>0, <1>7 DEF FactsHold
<1>9. ClassesExact(t)' /\ CountsOnce(t)'
  BY <1>6 DEF ClassesExact, CountsOnce
<1> QED BY <1>1, <1>2, <1>5, <1>6, <1>8, <1>9 DEF Local

(* The last statements of a manual settlement and of its revocation.       *)
LEMMA OverrideKeeps ==
  ASSUME Shapes, Committed, NEW t \in Txn, Local(t), Activate(t) \/ Revoke(t)
  PROVE  Local(t)' /\ Shapes' /\ OthersSame(t) /\ ~Synced(t)'
<1>0. PICK s \in {"activate", "end"}, o \in {"ACTIVE", "REVOKED"} :
        /\ Ready(t, s) /\ SetOverride(t, o)
        /\ s = "activate" => o = "ACTIVE"
  BY DEF Activate, Revoke
<1> DEFINE f == [r \in op[t].recs |-> [View(t)[r] EXCEPT !.override = o]]
<1>1. Write(t, op[t].recs, f)
  BY <1>0 DEF SetOverride, Put, Write
<1>2. /\ Running(t)' /\ LocksHeld(t)' /\ Origin(t)' /\ KeysRead(t)'
      /\ Stage(t)' = Following(op[t].kind, s) /\ Stage(t) = s /\ s \in Has(op[t].kind)
      /\ op[t].kind \in Kind /\ Chosen(t) /\ Locked(t)' /\ op[t] # Idle
      /\ HasReceipts(t) => HasReceipts(t)'
  BY <1>0, <1>1, Advance DEF Write
<1>3. /\ op[t].kind = (IF s = "activate" THEN "settle" ELSE "revoke")
      /\ op' = op /\ rows' = rows /\ Stage(t)' = "commit"
  BY <1>0, <1>1, <1>2 DEF Has, Kind, Following, Write
<1>4. op[t].kind \in Manual /\ op[t].kind \notin Saves /\ op[t].kind \notin Removals
  BY <1>3 DEF Manual, Saves, Removals
<1>5. op[t].recs \in SUBSET Rec
  BY <1>2 DEF Local, Running, Proper
<1>6. ASSUME NEW r \in op[t].recs
      PROVE  Fits(f[r], rows[r], op[t].kind, keys[t], r \in op[t].recs, HasReceipts(t)' /\ Adds(t))
  <2> DEFINE v == View(t)[r]
  <2>1. /\ v \in Row /\ rows[r].st = "live" /\ rows[r].cycle \in keys[t]
        /\ v = IF r \in DOMAIN draft[t] THEN draft[t][r] ELSE rows[r]
    <3>1. op[t].kind \in (Saves \cup Manual) \ {"create"}
      BY <1>3 DEF Manual
    <3> QED BY <1>2, <3>1, Targets
  <2>2. r \in DOMAIN draft[t] => Fits(draft[t][r], rows[r], op[t].kind, keys[t], r \in op[t].recs, HasReceipts(t) /\ Adds(t))
    BY DEF Local, Drafted
  <2> HIDE DEF v
  <2>3. Alike(v, rows[r]) /\ v.class = rows[r].class
    BY <1>4, <2>1, <2>2 DEF Fits, Changed, Relabelled, Alike
  <2>4. f[r] \in Row /\ Alike(f[r], v) /\ f[r].class = v.class
    BY <1>0, <2>1 DEF Row, Alike, Override, v
  <2> HIDE DEF f
  <2> QED BY <1>4, <2>1, <2>3, <2>4 DEF Fits, Changed, Alike
<1>7. \A r \in op[t].recs : f[r].override = o
  BY <1>2, Targets DEF Row
<1> HIDE DEF f
<1>8. Drafted(t)'
  BY <1>1, <1>2, <1>5, <1>6, DraftedBy
<1>9. /\ OthersSame(t) /\ Shapes' /\ DOMAIN draft'[t] = DOMAIN draft[t] \cup op[t].recs
      /\ \A r \in op[t].recs : draft'[t][r] = f[r]
  <2>1. OthersSame(t) /\ Shapes' /\ DOMAIN draft'[t] = DOMAIN draft[t] \cup op[t].recs
    BY <1>1, <1>5, WriteEffect
  <2>2. ASSUME NEW r \in op[t].recs
        PROVE  draft'[t][r] = f[r]
    BY <1>1, <2>2 DEF Write, Shapes
  <2> QED BY <2>1, <2>2
<1>10. Inserted(t)'
  BY <1>0, <1>3, <1>7, <1>9 DEF Inserted
<1>11. ~Synced(t)' /\ ~Recalculated(t)'
  BY <1>3, <1>4 DEF Synced, HasReceipts, Recalculated
<1>12. FactsHold(t)'
  <2>1. op[t].kind = "settle" => Stage(t) = "activate"
    BY <1>2, <1>3
  <2> QED BY <1>3, <2>1 DEF Local, FactsHold
<1>13. ClassesExact(t)' /\ CountsOnce(t)'
  BY <1>11 DEF ClassesExact, CountsOnce
<1> QED BY <1>2, <1>8, <1>9, <1>10, <1>11, <1>12, <1>13 DEF Local

-----------------------------------------------------------------------------
(* The statements that choose the cycles of a session.                     *)
LEMMA ReadKeeps ==
  ASSUME Shapes, Committed, NEW t \in Txn, Local(t), Read(t)
  PROVE  Local(t)' /\ Shapes' /\ OthersSame(t) /\ ~Synced(t)'
<1>0. /\ Ready(t, "read") /\ At(t, "read") /\ Missing(t) = {} /\ Done(t) /\ Found(t) # {}
      /\ UNCHANGED <<rows, draft, owner, op, begun>>
      /\ keys' = [keys EXCEPT ![t] = {View(t)[r].cycle : r \in Found(t)}
                                       \cup IF op[t].edit.do = "move" THEN {op[t].edit.arg} ELSE {}]
  BY DEF Read, Ready
<1>1. /\ Stage(t) = "read" /\ op[t] # Idle /\ op[t].kind \in Kind /\ "read" \in Has(op[t].kind)
      /\ todo'[t] \in Rests(op[t].kind) /\ todo'[t] # <<>>
      /\ Stage(t)' = Following(op[t].kind, "read")
  BY <1>0, Follows DEF Local
<1>2. /\ op[t].kind \in {"update", "attach"} \cup Removals
      /\ Stage(t)' \in {"edit", "receipts", "erase"}
      /\ Stage(t)' = "receipts" => op[t].kind = "attach"
  BY <1>1 DEF Has, Kind, Following, Removals
<1>3. DOMAIN draft[t] = {} /\ \A r \in Rec : View(t)[r] = rows[r]
  BY <1>1, NothingDrafted DEF Locked, Chosen
<1>4. /\ ~Locked(t)' /\ ~HasReceipts(t)' /\ ~Synced(t)' /\ ~Recalculated(t)'
  BY <1>0, <1>2 DEF Locked, HasReceipts, Synced, Recalculated, Saves, Removals
<1>5. Shapes' /\ OthersSame(t)
  BY <1>0 DEF Done, Shapes, OthersSame
<1>6. Proper(op[t]) /\ op[t].recs \subseteq Rec
  BY DEF Local, Running, Proper
<1>7. keys'[t] = {View(t)[r].cycle : r \in Found(t)} \cup IF op[t].edit.do = "move" THEN {op[t].edit.arg} ELSE {}
  BY <1>0 DEF Shapes
<1>8. Found(t) = {r \in op[t].recs : rows[r].st = "live" /\ (Protected(t) => rows[r].override # "ACTIVE")}
  BY <1>3, <1>6 DEF Found
<1>9. keys'[t] \subseteq Cycle
  <2>1. \A r \in Found(t) : View(t)[r].cycle \in Cycle
    BY <1>3, <1>6, <1>8 DEF Shapes, Row
  <2>2. op[t].edit.do = "move" => op[t].edit.arg \in Cycle
    <3>1. op[t].edit \in Moves \cup Amounts \cup Receipts \cup {Resync}
      BY <1>1, <1>2, <1>6 DEF Proper, Removals
    <3> QED BY <3>1 DEF Moves, Amounts, Receipts, Resync
  <2> QED BY <1>7, <2>1, <2>2
<1>10. Running(t)'
  BY <1>0, <1>1, <1>6, <1>9 DEF Running
<1>11. LocksHeld(t)'
  <2>1. {RecordLock(r) : r \in op[t].recs} \subseteq Held(t)
    BY <1>0 DEF Missing, At, Needs
  <2> QED BY <1>0, <1>4, <2>1 DEF LocksHeld, Held
<1>12. Origin(t)'
  BY <1>0 DEF Local, Origin
<1>13. op[t].kind \notin Removals => \E r \in Rec : op[t].recs = {r}
  BY <1>1, <1>2, <1>6 DEF Proper, Removals
<1>14. KeysRead(t)'
  <2>1. Protected(t)' = Protected(t)
    BY <1>0 DEF Protected
  <2>2. \A r \in Found(t) : rows[r].cycle \in keys'[t]
    BY <1>3, <1>6, <1>7, <1>8
  <2>3. op[t].kind \notin Removals => \A r \in op[t].recs : r \in Found(t)
    BY <1>0, <1>8, <1>13
  <2>4. op[t].edit.do = "move" => op[t].edit.arg \in keys'[t]
    BY <1>7
  <2>5. op[t].kind # "create"
    BY <1>2 DEF Removals
  <2> QED BY <1>0, <1>8, <2>1, <2>2, <2>3, <2>4, <2>5 DEF KeysRead
<1>15. Drafted(t)' /\ Inserted(t)'
  BY <1>0, <1>2, <1>3 DEF Drafted, Inserted, Removals
<1>16. ClassesExact(t)' /\ CountsOnce(t)' /\ FactsHold(t)'
  BY <1>0, <1>2, <1>4, NotYet DEF Removals
<1> QED BY <1>4, <1>5, <1>10, <1>11, <1>12, <1>14, <1>15, <1>16 DEF Local

LEMMA AnchorKeeps ==
  ASSUME Shapes, Committed, NEW t \in Txn, Local(t), Anchor(t)
  PROVE  Local(t)' /\ Shapes' /\ OthersSame(t) /\ ~Synced(t)'
<1>0. /\ Ready(t, "anchor") /\ At(t, "anchor") /\ Missing(t) = {} /\ Done(t)
      /\ rows[Target(t)].st = "live"
      /\ UNCHANGED <<rows, draft, owner, op, begun>>
      /\ keys' = [keys EXCEPT ![t] = {rows[Target(t)].cycle}]
  BY DEF Anchor, Ready
<1>1. /\ Stage(t) = "anchor" /\ op[t] # Idle /\ op[t].kind \in Kind /\ "anchor" \in Has(op[t].kind)
      /\ todo'[t] \in Rests(op[t].kind) /\ todo'[t] # <<>>
      /\ Stage(t)' = Following(op[t].kind, "anchor")
  BY <1>0, Follows DEF Local
<1>2. op[t].kind \in Manual /\ Stage(t)' \in {"facts", "end"}
  BY <1>1 DEF Has, Kind, Following, Manual
<1>3. op[t].kind \notin Saves /\ op[t].kind \notin Removals
  BY <1>2 DEF Saves, Removals, Manual
<1>4. DOMAIN draft[t] = {} /\ \A r \in Rec : View(t)[r] = rows[r]
  BY <1>1, NothingDrafted DEF Locked, Chosen
<1>5. /\ ~Locked(t)' /\ ~HasReceipts(t)' /\ ~Synced(t)' /\ ~Recalculated(t)'
  BY <1>0, <1>2, <1>3 DEF Locked, HasReceipts, Synced, Recalculated
<1>6. Shapes' /\ OthersSame(t)
  BY <1>0 DEF Done, Shapes, OthersSame
<1>7. Target(t) \in Rec /\ op[t].recs = {Target(t)} /\ Proper(op[t])
  BY <1>2, TargetIs DEF Local, Running
<1>8. keys'[t] = {rows[Target(t)].cycle} /\ rows[Target(t)].cycle \in Cycle
  BY <1>0, <1>7 DEF Shapes, Row
<1>9. Running(t)'
  BY <1>0, <1>1, <1>7, <1>8 DEF Running
<1>10. LocksHeld(t)'
  <2>1. RecordLock(Target(t)) \in Held(t)
    BY <1>0 DEF Missing, At, Needs
  <2> QED BY <1>0, <1>5, <1>7, <2>1 DEF LocksHeld, Held
<1>11. Origin(t)'
  BY <1>0 DEF Local, Origin
<1>12. KeysRead(t)'
  <2>1. op[t].edit.do # "move" /\ op[t].kind # "create"
    BY <1>1, <1>2, <1>7 DEF Proper, Removals, Manual, Dates, Resync
  <2>2. ~Protected(t)
    BY <1>2, <2>1 DEF Protected, Manual
  <2>3. ~Protected(t)'
    BY <1>0, <2>2 DEF Protected
  <2> QED BY <1>0, <1>7, <1>8, <2>1, <2>3 DEF KeysRead
<1>13. Drafted(t)' /\ Inserted(t)' /\ FactsHold(t)'
  BY <1>0, <1>2, <1>4 DEF Drafted, Inserted, FactsHold, Manual
<1>14. ClassesExact(t)' /\ CountsOnce(t)'
  BY <1>5 DEF ClassesExact, CountsOnce
<1> QED BY <1>5, <1>6, <1>9, <1>10, <1>11, <1>12, <1>13, <1>14 DEF Local

(* The first and the last step of a session.                               *)
LEMMA BeginKeeps ==
  ASSUME Shapes, Committed, NEW t \in Txn, Local(t), Begin(t)
  PROVE  /\ Local(t)' /\ Shapes' /\ OthersSame(t) /\ ~Synced(t)'
         /\ op'[t].kind = "create" => \A u \in Txn : op[u].kind = "create" => op'[t].recs \cap op[u].recs = {}
<1>1. PICK o \in Requests :
        /\ op' = [op EXCEPT ![t] = o]
        /\ todo' = [todo EXCEPT ![t] = Script(o.kind)]
        /\ keys' = [keys EXCEPT ![t] = IF o.kind = "create" THEN {o.edit.arg[1]} ELSE {}]
  BY DEF Begin
<1>2. op[t] = Idle /\ begun < MaxOps /\ begun' = begun + 1 /\ UNCHANGED <<rows, draft, owner>>
  BY DEF Begin
<1>3. /\ Proper(o) /\ o.kind \in Kind /\ o # Idle
      /\ \A r \in o.recs : o.kind = "create" <=> rows[r].st = "new"
      /\ o.kind = "create" => \A u \in Txn : op[u].kind = "create" => o.recs \cap op[u].recs = {}
  BY RequestsAreProper
<1>4. op'[t] = o /\ todo'[t] = Script(o.kind) /\ keys'[t] = IF o.kind = "create" THEN {o.edit.arg[1]} ELSE {}
  BY <1>1 DEF Shapes
<1>5. /\ todo'[t] \in Rests(o.kind) /\ todo'[t] # <<>>
      /\ Stage(t)' = IF o.kind = "create" THEN "insert" ELSE IF o.kind \in Manual THEN "anchor" ELSE "read"
  BY <1>3, <1>4, ScriptBegins DEF Stage
<1>6. Shapes'
  BY <1>1, <1>2, SettlementAssumption DEF Shapes
<1>7. OthersSame(t)
  BY <1>1, <1>2 DEF OthersSame, Shapes
<1>8. DOMAIN draft[t] = {} /\ Held(t) = {}
  BY <1>2 DEF Local, Running
<1>9. o.kind = "create" => o.edit.arg[1] \in Cycle /\ o.edit.do = "new"
  <2> SUFFICES ASSUME o.kind = "create"
               PROVE  o.edit.arg[1] \in Cycle /\ o.edit.do = "new"
    OBVIOUS
  <2>1. \E c \in Cycle, a \in Amount, x \in Receipt : o.edit = [do |-> "new", arg |-> <<c, a, x>>]
    BY <1>3 DEF Proper, Removals
  <2> QED BY <2>1
<1>10. Running(t)'
  BY <1>3, <1>4, <1>5, <1>9 DEF Running
<1>11. /\ o.kind # "create" => ~Chosen(t)'
       /\ ~Locked(t)' /\ ~HasReceipts(t)' /\ ~Synced(t)' /\ ~Recalculated(t)'
  BY <1>5 DEF Chosen, Locked, HasReceipts, Synced, Recalculated
<1>12. LocksHeld(t)' /\ Origin(t)'
  BY <1>2, <1>3, <1>4, <1>11 DEF LocksHeld, Origin
<1>13. KeysRead(t)'
  BY <1>4, <1>9, <1>11 DEF KeysRead
<1>14. Drafted(t)' /\ Inserted(t)'
  BY <1>2, <1>4, <1>5, <1>8 DEF Drafted, Inserted
<1>15. ClassesExact(t)' /\ CountsOnce(t)' /\ FactsHold(t)'
  BY <1>5, <1>11 DEF ClassesExact, CountsOnce, FactsHold
<1> QED BY <1>3, <1>4, <1>6, <1>7, <1>10, <1>11, <1>12, <1>13, <1>14, <1>15 DEF Local

LEMMA AcquireKeeps ==
  ASSUME Shapes, Committed, NEW t \in Txn, Local(t), Acquire(t)
  PROVE  Local(t)' /\ Shapes' /\ OthersSame(t) /\ View(t)' = View(t) /\ Synced(t)' = Synced(t)
<1>1. /\ Missing(t) # {} /\ owner[NextLock(t)] = NoTxn
      /\ owner' = [owner EXCEPT ![NextLock(t)] = t]
      /\ UNCHANGED <<rows, draft, op, todo, keys, begun>>
  BY DEF Acquire
<1>2. \A l \in Lock : owner'[l] = owner[l] \/ (l = NextLock(t) /\ owner[l] = NoTxn /\ owner'[l] = t)
  BY <1>1 DEF Shapes
<1>3. NoTxn \notin Txn
  BY SettlementAssumption
<1>4. Shapes'
  BY <1>1 DEF Shapes
<1>5. OthersSame(t)
  BY <1>1, <1>2, <1>3 DEF OthersSame
<1>6. View(t)' = View(t) /\ Stage(t)' = Stage(t)
  BY <1>1 DEF View, Stage
<1>7. /\ Chosen(t)' = Chosen(t) /\ Locked(t)' = Locked(t) /\ HasReceipts(t)' = HasReceipts(t)
      /\ Synced(t)' = Synced(t) /\ Recalculated(t)' = Recalculated(t) /\ Adds(t)' = Adds(t)
      /\ Protected(t)' = Protected(t)
  BY <1>1, <1>6 DEF Chosen, Locked, HasReceipts, Synced, Recalculated, Adds, Protected
<1>8. op[t] # Idle
  BY <1>1 DEF Missing, Local, Running
<1>9. Running(t)'
  BY <1>1, <1>8 DEF Local, Running
<1>10. \A l \in Lock : owner[l] = t => owner'[l] = t
  BY <1>2
<1>11. op[t].recs \subseteq Rec /\ keys[t] \subseteq Cycle
  BY DEF Local, Running, Proper
<1>12. LocksHeld(t)'
  BY <1>1, <1>7, <1>10, <1>11, LocksExist DEF Local, LocksHeld
<1>13. Origin(t)' /\ KeysRead(t)' /\ Drafted(t)'
  BY <1>1, <1>7 DEF Local, Origin, KeysRead, Drafted
<1>14. Inserted(t)' /\ FactsHold(t)'
  BY <1>1, <1>6 DEF Local, Inserted, FactsHold
<1>15. ClassesExact(t)' /\ CountsOnce(t)'
  BY <1>1, <1>6, <1>7 DEF Local, ClassesExact, CountsOnce
<1> QED BY <1>4, <1>5, <1>6, <1>7, <1>9, <1>12, <1>13, <1>14, <1>15 DEF Local

LEMMA EndKeeps ==
  ASSUME DOMAIN draft = Txn /\ DOMAIN op = Txn /\ DOMAIN todo = Txn /\ DOMAIN keys = Txn,
         owner \in [Lock -> Txn \cup {NoTxn}], NEW t \in Txn, End(t)
  PROVE  /\ Local(t)' /\ ~Synced(t)' /\ op'[t] = Idle
         /\ DOMAIN draft' = Txn /\ DOMAIN op' = Txn /\ DOMAIN todo' = Txn /\ DOMAIN keys' = Txn
         /\ owner' \in [Lock -> Txn \cup {NoTxn}] /\ begun' = begun
         /\ \A u \in Txn \ {t} :
              /\ draft'[u] = draft[u] /\ op'[u] = op[u] /\ todo'[u] = todo[u] /\ keys'[u] = keys[u]
              /\ \A l \in Lock : owner'[l] = u <=> owner[l] = u
<1>0. NoTxn \notin Txn
  BY SettlementAssumption
<1>1. /\ draft'[t] = <<>> /\ op'[t] = Idle /\ todo'[t] = <<>> /\ keys'[t] = {}
      /\ DOMAIN draft' = Txn /\ DOMAIN op' = Txn /\ DOMAIN todo' = Txn /\ DOMAIN keys' = Txn
      /\ begun' = begun
      /\ \A u \in Txn \ {t} : draft'[u] = draft[u] /\ op'[u] = op[u] /\ todo'[u] = todo[u] /\ keys'[u] = keys[u]
  BY DEF End
<1>2. \A l \in Lock : owner'[l] = IF owner[l] = t THEN NoTxn ELSE owner[l]
  BY DEF End, LeftBy, Held
<1>3. owner' \in [Lock -> Txn \cup {NoTxn}]
  BY <1>2 DEF End
<1>4. \A u \in Txn \ {t}, l \in Lock : owner'[l] = u <=> owner[l] = u
  BY <1>0, <1>2
<1>5. Held(t)' = {} /\ DOMAIN draft'[t] = {} /\ Stage(t)' = "none"
  BY <1>0, <1>1, <1>2 DEF Held, Stage
<1>6. op'[t].kind = "idle" /\ op'[t].recs = {} /\ op'[t].edit.do = "sync"
  BY <1>1 DEF Idle, Resync
<1>7. Running(t)'
  BY <1>1, <1>5, <1>6 DEF Running, Proper
<1>8. ~Chosen(t)' /\ ~Locked(t)' /\ ~HasReceipts(t)' /\ ~Synced(t)' /\ ~Recalculated(t)'
  BY <1>5 DEF Chosen, Locked, HasReceipts, Synced, Recalculated
<1>9. LocksHeld(t)' /\ Origin(t)' /\ KeysRead(t)'
  BY <1>6, <1>8 DEF LocksHeld, Origin, KeysRead
<1>10. Drafted(t)' /\ Inserted(t)' /\ ClassesExact(t)' /\ CountsOnce(t)' /\ FactsHold(t)'
  BY <1>5, <1>6, <1>8 DEF Drafted, Inserted, ClassesExact, CountsOnce, FactsHold
<1> QED BY <1>1, <1>3, <1>4, <1>7, <1>8, <1>9, <1>10 DEF Local

-----------------------------------------------------------------------------
(* A step that commits nothing keeps the invariant if its session does.    *)
LEMMA Compose ==
  ASSUME IInv, NEW t \in Txn, Local(t)', Shapes', OthersSame(t),
         op'[t].kind = "create" => \A u \in Txn \ {t} : op[u].kind = "create" => op'[t].recs \cap op[u].recs = {},
         \A u \in Txn \ {t} : Synced(t)' /\ Synced(u) => \A r \in op'[t].recs, q \in op[u].recs :
            ~ (Counted(View(t)'[r]) /\ Counted(View(u)[q]))
  PROVE  IInv'
<1>1. \A u \in Txn \ {t} : /\ op'[u] = op[u] /\ todo'[u] = todo[u]
  BY DEF OthersSame
<1>2. \A u \in Txn \ {t} : Local(u)' /\ View(u)' = View(u)
  BY Frame DEF IInv
<1>3. \A u \in Txn \ {t} : Synced(u)' = Synced(u)
  BY <1>1 DEF Synced, HasReceipts, Stage
<1>4. Committed'
  BY DEF IInv, Committed, OthersSame, Exact, Members, Classify, Eligible, CollectedUpTo, CollectedBefore, Total
<1>5. Apart'
  <2> SUFFICES ASSUME NEW u \in Txn, NEW w \in Txn, u # w
               PROVE  /\ op'[u].kind = "create" /\ op'[w].kind = "create" => op'[u].recs \cap op'[w].recs = {}
                      /\ Synced(u)' /\ Synced(w)' => \A r \in op'[u].recs, q \in op'[w].recs :
                           ~ (Counted(View(u)'[r]) /\ Counted(View(w)'[q]))
    BY DEF Apart
  <2>1. CASE u = t
    BY <1>1, <1>2, <1>3, <2>1
  <2>2. CASE w = t
    BY <1>1, <1>2, <1>3, <2>2
  <2>3. CASE u # t /\ w # t
    BY <1>1, <1>2, <1>3, <2>3 DEF IInv, Apart
  <2> QED BY <2>1, <2>2, <2>3
<1> QED BY <1>2, <1>4, <1>5 DEF IInv

(* No two sessions work on the same record.                                *)
LEMMA OwnersDiffer ==
  ASSUME IInv, NEW t \in Txn, NEW u \in Txn \ {t}, Chosen(t), Chosen(u)
  PROVE  op[t].recs \cap op[u].recs = {}
<1> SUFFICES ASSUME NEW r \in op[t].recs, r \in op[u].recs PROVE FALSE
  OBVIOUS
<1>1. /\ op[t].kind = "create" <=> rows[r].st = "new"
      /\ op[u].kind = "create" <=> rows[r].st = "new"
  BY DEF IInv, Local, Origin
<1>2. CASE op[t].kind = "create"
  BY <1>1, <1>2 DEF IInv, Apart
<1>3. CASE op[t].kind # "create"
  <2>1. owner[RecordLock(r)] = t /\ owner[RecordLock(r)] = u
    BY <1>1, <1>3 DEF IInv, Local, LocksHeld
  <2> QED BY <2>1
<1> QED BY <1>2, <1>3

LEMMA LockedIsChosen ==
  ASSUME NEW t \in Txn
  PROVE  Locked(t) => Chosen(t)
BY DEF Locked

(* What another session drafts of a record one works on is a new label.    *)
LEMMA OthersRelabel ==
  ASSUME IInv, NEW t \in Txn, NEW u \in Txn \ {t}, Chosen(t), NEW r \in op[t].recs, r \in DOMAIN draft[u]
  PROVE  Relabelled(draft[u][r], rows[r])
<1>1. Chosen(u)
  BY LockedIsChosen DEF IInv, Local, Drafted
<1>2. r \notin op[u].recs
  BY <1>1, OwnersDiffer
<1> QED BY <1>2 DEF IInv, Local, Drafted, Fits

(* No two sessions draft the same record.                                  *)
LEMMA DraftsApart ==
  ASSUME IInv, NEW t \in Txn, NEW u \in Txn \ {t}
  PROVE  DOMAIN draft[t] \cap DOMAIN draft[u] = {}
<1> SUFFICES ASSUME NEW r \in DOMAIN draft[t], r \in DOMAIN draft[u] PROVE FALSE
  OBVIOUS
<1>1. /\ Locked(t) /\ Locked(u) /\ Chosen(t) /\ Chosen(u)
      /\ rows[r].st = "live" => rows[r].cycle \in keys[t] /\ rows[r].cycle \in keys[u]
      /\ Relabelled(draft[t][r], rows[r]) \/ r \in op[t].recs
      /\ Relabelled(draft[u][r], rows[r]) \/ r \in op[u].recs
  BY LockedIsChosen DEF IInv, Local, Drafted, Fits
<1>2. CASE rows[r].st = "live"
  <2>1. owner[CycleLock(rows[r].cycle)] = t /\ owner[CycleLock(rows[r].cycle)] = u
    BY <1>1, <1>2 DEF IInv, Local, LocksHeld
  <2> QED BY <2>1
<1>3. CASE rows[r].st # "live"
  <2>1. r \in op[t].recs /\ r \in op[u].recs
    BY <1>1, <1>3 DEF Relabelled
  <2> QED BY <1>1, <2>1, OwnersDiffer
<1> QED BY <1>2, <1>3
-----------------------------------------------------------------------------
(* A commit.  What it changes, and what it leaves alone.                   *)
LEMMA CommitIs ==
  ASSUME IInv, NEW u \in Txn, Commit(u)
  PROVE  /\ \A r \in Rec : rows'[r] = IF r \in DOMAIN draft[u] THEN draft[u][r] ELSE rows[r]
         /\ rows' \in [Rec -> Row] /\ rows' = View(u)
         /\ Stage(u) = "commit" /\ op[u] # Idle /\ Chosen(u) /\ op[u].kind \in Saves \cup Removals \cup Manual
<1>1. rows' = View(u) /\ At(u, "commit")
  BY DEF Commit, Ready
<1>2. \A r \in Rec : rows'[r] = IF r \in DOMAIN draft[u] THEN draft[u][r] ELSE rows[r]
  BY <1>1 DEF View
<1>3. \A r \in DOMAIN draft[u] : draft[u][r] \in Row
  BY DEF IInv, Local, Drafted, Fits
<1>4. rows' \in [Rec -> Row]
  BY <1>1, <1>3 DEF View, IInv, Shapes
<1>5. Stage(u) = "commit" /\ op[u] # Idle /\ op[u].kind \in Kind
  BY <1>1, Follows DEF IInv, Local
<1> QED BY <1>1, <1>2, <1>4, <1>5 DEF Chosen, Kind, Saves, Removals, Manual

LEMMA CommitSpares ==
  ASSUME IInv, NEW u \in Txn, Commit(u), NEW t \in Txn \ {u}, NEW r \in Rec
  PROVE  /\ r \in DOMAIN draft[t] => rows'[r] = rows[r]
         /\ Chosen(t) /\ r \in op[t].recs =>
              Alike(rows'[r], rows[r]) /\ rows'[r].override = rows[r].override
         /\ rows[r].st # "new" => rows'[r].st # "new"
         /\ Locked(t) => \A c \in keys[t] : rows'[r] # rows[r] =>
              /\ rows[r].st = "live" => rows[r].cycle # c
              /\ rows'[r].st = "live" => rows'[r].cycle # c
<1>1. rows'[r] = IF r \in DOMAIN draft[u] THEN draft[u][r] ELSE rows[r]
  BY CommitIs
<1>2. r \in DOMAIN draft[t] => rows'[r] = rows[r]
  BY <1>1, DraftsApart
<1>3. Chosen(t) /\ r \in op[t].recs => Alike(rows'[r], rows[r]) /\ rows'[r].override = rows[r].override
  BY <1>1, OthersRelabel DEF Relabelled, Alike
<1>4. r \in DOMAIN draft[u] =>
        /\ Fits(draft[u][r], rows[r], op[u].kind, keys[u], r \in op[u].recs, HasReceipts(u) /\ Adds(u))
        /\ Locked(u)
  BY DEF IInv, Local, Drafted
<1>5. rows[r].st # "new" => rows'[r].st # "new"
  BY <1>1, <1>4 DEF Fits, Relabelled, Changed, Alike
<1>6. ASSUME Locked(t), NEW c \in keys[t], rows'[r] # rows[r]
      PROVE  /\ rows[r].st = "live" => rows[r].cycle # c
             /\ rows'[r].st = "live" => rows'[r].cycle # c
  <2>1. r \in DOMAIN draft[u] /\ rows'[r] = draft[u][r]
    BY <1>1, <1>6
  <2>2. c \notin keys[u]
    BY <1>4, <1>6, <2>1 DEF IInv, Local, LocksHeld
  <2> QED BY <1>4, <2>1, <2>2 DEF Fits
<1> QED BY <1>2, <1>3, <1>5, <1>6

LEMMA LockedMembers ==
  ASSUME IInv, NEW u \in Txn, Commit(u), NEW t \in Txn \ {u}, Locked(t), NEW c \in keys[t]
  PROVE  /\ Members(rows', c) = Members(rows, c)
         /\ \A q \in Members(rows, c) : rows'[q] = rows[q]
<1>1. \A q \in Rec : rows'[q] # rows[q] =>
        /\ rows[q].st = "live" => rows[q].cycle # c
        /\ rows'[q].st = "live" => rows'[q].cycle # c
  BY CommitSpares
<1>2. ASSUME NEW q \in Rec, rows'[q] # rows[q]
      PROVE  q \notin Members(rows, c) /\ q \notin Members(rows', c)
  <2>1. ~(rows[q].st = "live" /\ rows[q].cycle = c) /\ ~(rows'[q].st = "live" /\ rows'[q].cycle = c)
    BY <1>1, <1>2
  <2> QED BY <2>1 DEF Members
<1>3. \A q \in Rec : q \in Members(rows', c) <=> q \in Members(rows, c)
  BY <1>2 DEF Members
<1>4. Members(rows', c) = Members(rows, c)
  BY <1>3 DEF Members
<1> QED BY <1>2, <1>4 DEF Members

(* A receipt that counts after a commit counted before, or its session     *)
(* synchronised it.                                                        *)
LEMMA CountedAfter ==
  ASSUME IInv, NEW u \in Txn, Commit(u), NEW q \in Rec
  PROVE  /\ Counted(rows'[q]) => Counted(rows[q]) \/ (q \in op[u].recs /\ Synced(u) /\ Counted(View(u)[q]))
         /\ q \in Holders(rows') => q \in Holders(rows) \/ owner[HashLock] = u
<1>1. /\ rows'[q] = IF q \in DOMAIN draft[u] THEN draft[u][q] ELSE rows[q]
      /\ rows'[q] = View(u)[q]
      /\ Stage(u) = "commit" /\ op[u].kind \in Saves \cup Removals \cup Manual
  BY CommitIs
<1>2. q \in DOMAIN draft[u] =>
        Fits(draft[u][q], rows[q], op[u].kind, keys[u], q \in op[u].recs, HasReceipts(u) /\ Adds(u))
  BY DEF IInv, Local, Drafted
<1>3. op[u].kind \in Saves => Synced(u) /\ HasReceipts(u)
  BY <1>1 DEF Synced, HasReceipts
<1>4. CASE q \notin DOMAIN draft[u]
  BY <1>1, <1>4 DEF Holders
<1>5. CASE q \in DOMAIN draft[u] /\ (Relabelled(draft[u][q], rows[q]) \/ op[u].kind \in Manual)
  <2>1. Alike(rows'[q], rows[q])
    BY <1>1, <1>2, <1>5 DEF Fits, Relabelled, Changed
  <2> QED BY <2>1 DEF Alike, Counted, Holders
<1>6. CASE q \in DOMAIN draft[u] /\ ~Relabelled(draft[u][q], rows[q]) /\ op[u].kind \notin Manual
  <2>1. q \in op[u].recs /\ Changed(draft[u][q], rows[q], op[u].kind, HasReceipts(u) /\ Adds(u)) /\ rows'[q] = draft[u][q]
    BY <1>1, <1>2, <1>6 DEF Fits
  <2>2. rows'[q].st = "live" => op[u].kind \in Saves
    BY <1>1, <1>6, <2>1 DEF Changed
  <2>3. rows'[q].st = "live" /\ rows'[q].receipt = "file" => rows[q].receipt = "file" \/ (HasReceipts(u) /\ Adds(u))
    BY <2>1 DEF Changed
  <2>4. HasReceipts(u) /\ Adds(u) => owner[HashLock] = u
    BY DEF IInv, Local, LocksHeld
  <2>5. rows[q].receipt = "file" => rows[q].st = "live"
    BY DEF IInv, Committed
  <2> QED BY <1>1, <1>3, <2>1, <2>2, <2>3, <2>4, <2>5 DEF Counted, Holders
<1> QED BY <1>4, <1>5, <1>6

-----------------------------------------------------------------------------
(* What a session sees of a cycle it locked stays when another one commits.*)
LEMMA LockedView ==
  ASSUME IInv, NEW u \in Txn, Commit(u), NEW t \in Txn \ {u}, Locked(t), NEW c \in keys[t]
  PROVE  /\ Members(View(t)', c) = Members(View(t), c)
         /\ \A q \in Members(View(t), c) : View(t)'[q] = View(t)[q]
<1>1. draft'[t] = draft[t]
  BY EndKeeps DEF IInv, Shapes, Commit
<1>2. \A q \in Rec : /\ View(t)'[q] = IF q \in DOMAIN draft[t] THEN draft[t][q] ELSE rows'[q]
                     /\ View(t)[q] = IF q \in DOMAIN draft[t] THEN draft[t][q] ELSE rows[q]
  BY <1>1 DEF View
<1>3. \A q \in Rec : rows'[q] # rows[q] =>
        /\ rows[q].st = "live" => rows[q].cycle # c
        /\ rows'[q].st = "live" => rows'[q].cycle # c
  BY CommitSpares
<1>4. ASSUME NEW q \in Rec, View(t)'[q] # View(t)[q]
      PROVE  q \notin Members(View(t), c) /\ q \notin Members(View(t)', c)
  <2>1. View(t)'[q] = rows'[q] /\ View(t)[q] = rows[q]
    BY <1>2, <1>4
  <2>2. ~(View(t)[q].st = "live" /\ View(t)[q].cycle = c) /\ ~(View(t)'[q].st = "live" /\ View(t)'[q].cycle = c)
    BY <1>3, <1>4, <2>1
  <2> QED BY <2>2 DEF Members
<1>5. \A q \in Rec : q \in Members(View(t)', c) <=> q \in Members(View(t), c)
  BY <1>4 DEF Members
<1>6. Members(View(t)', c) = Members(View(t), c)
  BY <1>5 DEF Members
<1> QED BY <1>4, <1>6 DEF Members

(* What one's own record shows to one: the same payment.                   *)
LEMMA OwnView ==
  ASSUME IInv, NEW u \in Txn, Commit(u), NEW t \in Txn \ {u}, Chosen(t), NEW r \in op[t].recs
  PROVE  Alike(rows'[r], rows[r]) /\ rows'[r].override = rows[r].override /\ Alike(View(t)'[r], View(t)[r])
<1>0. r \in Rec
  BY DEF IInv, Local, Running, Proper
<1>1. draft'[t] = draft[t]
  BY EndKeeps DEF IInv, Shapes, Commit
<1>2. Alike(rows'[r], rows[r]) /\ rows'[r].override = rows[r].override
  BY <1>0, CommitSpares
<1>3. /\ View(t)'[r] = IF r \in DOMAIN draft[t] THEN draft[t][r] ELSE rows'[r]
      /\ View(t)[r] = IF r \in DOMAIN draft[t] THEN draft[t][r] ELSE rows[r]
  BY <1>0, <1>1 DEF View
<1> QED BY <1>2, <1>3 DEF Alike

LEMMA CommitKeepsOthers ==
  ASSUME IInv, NEW u \in Txn, Commit(u), NEW t \in Txn \ {u}
  PROVE  Local(t)'
<1>1. /\ draft'[t] = draft[t] /\ op'[t] = op[t] /\ todo'[t] = todo[t] /\ keys'[t] = keys[t]
      /\ \A l \in Lock : owner'[l] = t <=> owner[l] = t
  BY EndKeeps DEF IInv, Shapes, Commit
<1>2. Stage(t)' = Stage(t) /\ Held(t)' = Held(t)
  BY <1>1 DEF Stage, Held
<1>3. /\ Chosen(t)' = Chosen(t) /\ Locked(t)' = Locked(t) /\ HasReceipts(t)' = HasReceipts(t)
      /\ Synced(t)' = Synced(t) /\ Recalculated(t)' = Recalculated(t) /\ Adds(t)' = Adds(t)
      /\ Protected(t)' = Protected(t)
  BY <1>1, <1>2 DEF Chosen, Locked, HasReceipts, Synced, Recalculated, Adds, Protected
<1>4. Local(t) /\ op[t].recs \subseteq Rec /\ keys[t] \subseteq Cycle
  BY DEF IInv, Local, Running, Proper
<1>5. Running(t)'
  BY <1>1, <1>2, <1>4 DEF Local, Running
<1>6. LocksHeld(t)'
  BY <1>1, <1>3, <1>4, LocksExist DEF Local, LocksHeld
<1>7. op[t].kind = "create" => Chosen(t)
  <2> SUFFICES ASSUME op[t].kind = "create" PROVE Chosen(t)
    OBVIOUS
  <2>1. op[t] # Idle
    BY DEF Idle
  <2>2. todo[t] \in Rests("create")
    BY <1>4, <2>1 DEF Local, Running
  <2>3. todo[t] # <<>> /\ Head(todo[t]) \in Has("create")
    BY <2>2, RestFollows DEF Kind
  <2> QED BY <2>3 DEF Stage, Has, Chosen
<1>8. Origin(t)'
  <2> SUFFICES ASSUME NEW r \in op[t].recs
               PROVE  op[t].kind = "create" <=> rows'[r].st = "new"
    BY <1>1 DEF Origin
  <2>1. r \in Rec /\ (op[t].kind = "create" <=> rows[r].st = "new")
    BY <1>4 DEF Local, Origin
  <2>2. CASE op[t].kind = "create"
    BY <1>7, <2>1, <2>2, OwnView DEF Alike
  <2>3. CASE op[t].kind # "create"
    BY <2>1, <2>3, CommitSpares
  <2> QED BY <2>2, <2>3
<1>9. KeysRead(t)'
  <2>1. Chosen(t) => \A r \in op[t].recs : /\ rows'[r].st = rows[r].st /\ rows'[r].cycle = rows[r].cycle
                                          /\ rows'[r].override = rows[r].override
    BY OwnView DEF Alike
  <2> QED BY <1>1, <1>3, <1>4, <2>1 DEF Local, KeysRead
<1>10. Drafted(t)'
  <2>1. DOMAIN draft[t] \subseteq Rec
    BY <1>4 DEF Local, Drafted
  <2>2. \A r \in DOMAIN draft[t] : rows'[r] = rows[r]
    BY <2>1, CommitSpares
  <2> QED BY <1>1, <1>3, <1>4, <2>2 DEF Local, Drafted
<1>11. Inserted(t)'
  BY <1>1, <1>2, <1>4 DEF Local, Inserted
<1>12. ClassesExact(t)'
  <2> SUFFICES ASSUME Recalculated(t) PROVE Exact(View(t)', keys[t])
    BY <1>1, <1>3 DEF ClassesExact
  <2>1. Locked(t)
    BY DEF Recalculated, Locked, Chosen
  <2>2. \A c \in keys[t] : /\ Members(View(t), c) = Members(View(t)', c)
                           /\ \A q \in Members(View(t), c) : View(t)[q] = View(t)'[q]
    BY <2>1, LockedView
  <2>3. Exact(View(t), keys[t])
    BY <1>4 DEF Local, ClassesExact
  <2> QED BY <2>2, <2>3, SameExact
<1>13. CountsOnce(t)'
  <2> SUFFICES ASSUME Synced(t), NEW r \in op[t].recs, Counted(View(t)'[r])
               PROVE  /\ \A q \in Rec \ {r} : ~ Counted(rows'[q])
                      /\ IF Adds(t) THEN \A q \in Rec \ {r} : q \notin Holders(rows') ELSE r \in Holders(rows')
    BY <1>1, <1>3 DEF CountsOnce
  <2>1. Chosen(t) /\ HasReceipts(t)
    BY DEF Synced, HasReceipts, Chosen
  <2>2. Alike(rows'[r], rows[r]) /\ Alike(View(t)'[r], View(t)[r])
    BY <2>1, OwnView
  <2>3. Counted(View(t)[r])
    BY <2>2 DEF Alike, Counted
  <2>4. /\ \A q \in Rec \ {r} : ~ Counted(rows[q])
        /\ IF Adds(t) THEN \A q \in Rec \ {r} : q \notin Holders(rows) ELSE r \in Holders(rows)
    BY <1>4, <2>3 DEF Local, CountsOnce
  <2>5. \A q \in Rec \ {r} : ~ Counted(rows'[q])
    BY <2>3, <2>4, CountedAfter DEF IInv, Apart
  <2>6. Adds(t) => owner[HashLock] = t
    BY <1>4, <2>1 DEF Local, LocksHeld
  <2>7. Adds(t) => \A q \in Rec \ {r} : q \notin Holders(rows')
    BY <2>4, <2>6, CountedAfter
  <2>8. ~Adds(t) => r \in Holders(rows')
    BY <2>2, <2>4 DEF Holders, Alike
  <2> QED BY <2>5, <2>7, <2>8
<1>14. FactsHold(t)'
  <2> SUFFICES ASSUME op[t].kind = "settle", Stage(t) \in {"activate", "commit"}, NEW r \in op[t].recs
               PROVE  LET c == rows'[r].cycle IN
                      /\ Actives(rows', c) \subseteq {r}
                      /\ Aborts(rows', c) = {}
                      /\ SystemCollected(rows', c, op[t].edit.arg) + Pool >= Due
    BY <1>1, <1>2 DEF FactsHold
  <2> DEFINE c == rows[r].cycle
  <2>1. Chosen(t) /\ Locked(t)
    BY DEF Chosen, Locked
  <2>2. rows'[r].cycle = c
    BY <2>1, OwnView DEF Alike
  <2>3. c \in keys[t]
    BY <1>4, <2>1, Targets DEF Manual, IInv
  <2>4. Members(rows', c) = Members(rows, c) /\ \A q \in Members(rows, c) : rows'[q] = rows[q]
    BY <2>1, <2>3, LockedMembers
  <2>5. /\ Actives(rows, c) \subseteq {r}
        /\ Aborts(rows, c) = {}
        /\ SystemCollected(rows, c, op[t].edit.arg) + Pool >= Due
    BY <1>4 DEF Local, FactsHold
  <2>6. SystemCollected(rows', c, op[t].edit.arg) = SystemCollected(rows, c, op[t].edit.arg)
    BY <2>4, SamePayments DEF SystemCollected
  <2>7. Actives(rows', c) = Actives(rows, c) /\ Aborts(rows', c) = Aborts(rows, c)
    BY <2>4 DEF Actives, Aborts
  <2> HIDE DEF c
  <2> QED BY <2>2, <2>5, <2>6, <2>7
<1> QED BY <1>5, <1>6, <1>8, <1>9, <1>10, <1>11, <1>12, <1>13, <1>14 DEF Local

LEMMA CommitKeepsCommitted ==
  ASSUME IInv, NEW u \in Txn, Commit(u)
  PROVE  Committed'
<1>1. \A r \in Rec : rows'[r] = IF r \in DOMAIN draft[u] THEN draft[u][r] ELSE rows[r]
  BY CommitIs
<1>2. /\ rows' = View(u) /\ Stage(u) = "commit" /\ op[u] # Idle
      /\ op[u].kind \in Saves \cup Removals \cup Manual
  BY CommitIs
<1>3. \A r \in DOMAIN draft[u] :
        Fits(draft[u][r], rows[r], op[u].kind, keys[u], r \in op[u].recs, HasReceipts(u) /\ Adds(u))
  BY DEF IInv, Local, Drafted
<1>4. ASSUME NEW r \in Rec, rows'[r].st # "live"
      PROVE  rows'[r].override = "none" /\ rows'[r].receipt = "none"
  <2>1. CASE r \in DOMAIN draft[u]
    <3>1. rows'[r] = draft[u][r] /\ Fits(draft[u][r], rows[r], op[u].kind, keys[u], r \in op[u].recs, HasReceipts(u) /\ Adds(u))
      BY <1>1, <1>3, <2>1
    <3> QED BY <1>4, <3>1 DEF Fits, Relabelled, Changed, Alike
  <2>2. CASE r \notin DOMAIN draft[u]
    BY <1>1, <1>4, <2>2 DEF IInv, Committed
  <2> QED BY <2>1, <2>2
<1>5. Exact(rows', Cycle)
  <2>1. CASE op[u].kind \in Manual
    <3>1. ASSUME NEW q \in Rec
          PROVE  Alike(rows'[q], rows[q]) /\ rows'[q].class = rows[q].class
      <4>1. CASE q \in DOMAIN draft[u]
        <5>1. rows'[q] = draft[u][q] /\ Fits(draft[u][q], rows[q], op[u].kind, keys[u], q \in op[u].recs, HasReceipts(u) /\ Adds(u))
          BY <1>1, <1>3, <4>1
        <5> QED BY <2>1, <5>1 DEF Fits, Relabelled, Changed
      <4>2. CASE q \notin DOMAIN draft[u]
        BY <1>1, <4>2 DEF Alike
      <4> QED BY <4>1, <4>2
    <3>2. ASSUME NEW c \in Cycle
          PROVE  /\ Members(rows, c) = Members(rows', c)
                 /\ \A q \in Members(rows, c) : /\ rows[q].amount = rows'[q].amount /\ rows[q].dup = rows'[q].dup
                                                /\ rows[q].class = rows'[q].class
      BY <3>1 DEF Members, Alike
    <3>3. Exact(rows, Cycle)
      BY DEF IInv, Committed
    <3> QED BY <3>2, <3>3, SameExact
  <2>2. CASE op[u].kind \in Saves \cup Removals
    <3>1. Exact(rows', keys[u])
      <4>1. Recalculated(u)
        BY <1>2, <2>2 DEF Recalculated
      <4> QED BY <1>2, <4>1 DEF IInv, Local, ClassesExact
    <3>2. ASSUME NEW c \in Cycle, c \notin keys[u]
          PROVE  Exact(rows', {c})
      <4>1. ASSUME NEW q \in Rec, rows'[q] # rows[q]
            PROVE  q \notin Members(rows, c) /\ q \notin Members(rows', c)
        <5>1. rows'[q] = draft[u][q] /\ Fits(draft[u][q], rows[q], op[u].kind, keys[u], q \in op[u].recs, HasReceipts(u) /\ Adds(u))
          BY <1>1, <1>3, <4>1
        <5> QED BY <3>2, <5>1 DEF Fits, Members
      <4>2. \A q \in Rec : q \in Members(rows', c) <=> q \in Members(rows, c)
        BY <4>1 DEF Members
      <4>3. Members(rows', c) = Members(rows, c)
        BY <4>2 DEF Members
      <4>4. \A q \in Members(rows, c) : rows'[q] = rows[q]
        BY <4>1 DEF Members
      <4>5. Exact(rows, {c})
        BY DEF IInv, Committed, Exact
      <4> QED BY <4>3, <4>4, <4>5, SameExact
    <3> QED BY <3>1, <3>2 DEF Exact
  <2> QED BY <1>2, <2>1, <2>2
<1>6. ASSUME NEW r \in Rec, NEW q \in Rec, Counted(rows'[r]), Counted(rows'[q]), ~Counted(rows[r])
      PROVE  r = q
  <2>1. r \in op[u].recs /\ Synced(u) /\ Counted(View(u)[r])
    BY <1>6, CountedAfter
  <2>2. op[u].kind \in Saves
    BY <2>1 DEF Synced, HasReceipts
  <2>3. op[u].recs = {r}
    BY <2>1, <2>2, TargetIs DEF IInv
  <2>4. \A x \in Rec \ {r} : ~Counted(rows[x])
    BY <2>1 DEF IInv, Local, CountsOnce
  <2>5. Counted(rows[q]) \/ q \in op[u].recs
    BY <1>6, CountedAfter
  <2> QED BY <2>3, <2>4, <2>5
<1>7. ASSUME NEW r \in Rec, NEW q \in Rec, Counted(rows'[r]), Counted(rows'[q])
      PROVE  r = q
  <2>1. CASE Counted(rows[r]) /\ Counted(rows[q])
    BY <2>1 DEF IInv, Committed
  <2>2. CASE ~Counted(rows[r])
    BY <1>6, <1>7, <2>2
  <2>3. CASE ~Counted(rows[q])
    BY <1>6, <1>7, <2>3
  <2> QED BY <2>1, <2>2, <2>3
<1> QED BY <1>4, <1>5, <1>7 DEF Committed

LEMMA CommitKeeps ==
  ASSUME IInv, NEW u \in Txn, Commit(u)
  PROVE  IInv'
<1>1. /\ Local(u)' /\ ~Synced(u)' /\ op'[u] = Idle
      /\ DOMAIN draft' = Txn /\ DOMAIN op' = Txn /\ DOMAIN todo' = Txn /\ DOMAIN keys' = Txn
      /\ owner' \in [Lock -> Txn \cup {NoTxn}] /\ begun' = begun
      /\ \A t \in Txn \ {u} : op'[t] = op[t] /\ todo'[t] = todo[t]
  BY EndKeeps DEF IInv, Shapes, Commit
<1>2. Shapes'
  BY <1>1, CommitIs DEF IInv, Shapes
<1>3. \A t \in Txn : Local(t)'
  BY <1>1, CommitKeepsOthers
<1>4. Apart'
  <2> SUFFICES ASSUME NEW t \in Txn, NEW w \in Txn, t # w
               PROVE  /\ op'[t].kind = "create" /\ op'[w].kind = "create" => op'[t].recs \cap op'[w].recs = {}
                      /\ Synced(t)' /\ Synced(w)' => \A r \in op'[t].recs, q \in op'[w].recs :
                           ~ (Counted(View(t)'[r]) /\ Counted(View(w)'[q]))
    BY DEF Apart
  <2>1. op'[u].kind # "create"
    BY <1>1 DEF Idle
  <2>2. CASE t = u \/ w = u
    BY <1>1, <2>1, <2>2
  <2>3. CASE t # u /\ w # u
    <3>1. ASSUME NEW x \in Txn \ {u}, Synced(x)'
          PROVE  Synced(x) /\ \A r \in op[x].recs : Counted(View(x)'[r]) => Counted(View(x)[r])
      <4>1. Synced(x)
        BY <1>1, <3>1 DEF Synced, HasReceipts, Stage
      <4>2. Chosen(x)
        BY <4>1 DEF Synced, HasReceipts, Chosen
      <4> QED BY <4>1, <4>2, OwnView DEF Alike, Counted
    <3>2. /\ op[t].kind = "create" /\ op[w].kind = "create" => op[t].recs \cap op[w].recs = {}
          /\ Synced(t) /\ Synced(w) => \A r \in op[t].recs, q \in op[w].recs :
               ~ (Counted(View(t)[r]) /\ Counted(View(w)[q]))
      BY DEF IInv, Apart
    <3> QED BY <1>1, <2>3, <3>1, <3>2
  <2> QED BY <2>2, <2>3
<1> QED BY <1>2, <1>3, <1>4, CommitKeepsCommitted DEF IInv

-----------------------------------------------------------------------------
(* Two sessions that synchronise a receipt both need its lock.             *)
LEMMA SyncApart ==
  ASSUME IInv, NEW t \in Txn, Sync(t)
  PROVE  IInv'
<1>1. Shapes /\ Committed /\ Local(t)
  BY DEF IInv
<1>2. /\ Local(t)' /\ Shapes' /\ OthersSame(t) /\ HasReceipts(t) /\ Chosen(t) /\ op' = op
      /\ \A r \in op[t].recs : Counted(View(t)'[r]) =>
           /\ \A q \in Rec \ {r} : q \notin Holders(rows)
           /\ ~Adds(t) => r \in Holders(rows)
  BY <1>1, SyncKeeps
<1>3. ASSUME NEW u \in Txn \ {t}, Synced(u), NEW r \in op[t].recs, NEW q \in op[u].recs,
             Counted(View(t)'[r]), Counted(View(u)[q])
      PROVE  FALSE
  <2>1. Chosen(u) /\ HasReceipts(u)
    BY <1>3 DEF Synced, HasReceipts, Chosen
  <2>2. r # q
    BY <1>2, <2>1, OwnersDiffer
  <2>3. r \in Rec /\ q \in Rec
    BY DEF IInv, Local, Running, Proper
  <2>4. IF Adds(u) THEN \A x \in Rec \ {q} : x \notin Holders(rows) ELSE q \in Holders(rows)
    BY <1>3 DEF IInv, Local, CountsOnce
  <2>5. Adds(u) /\ Adds(t)
    BY <1>2, <1>3, <2>2, <2>3, <2>4
  <2>6. owner[HashLock] = u /\ owner[HashLock] = t
    BY <1>2, <2>1, <2>5 DEF IInv, Local, LocksHeld
  <2> QED BY <2>6
<1>4. \A u \in Txn \ {t} : Synced(t)' /\ Synced(u) => \A r \in op'[t].recs, q \in op[u].recs :
            ~ (Counted(View(t)'[r]) /\ Counted(View(u)[q]))
  BY <1>2, <1>3
<1>5. op'[t].kind = "create" => \A u \in Txn \ {t} : op[u].kind = "create" => op'[t].recs \cap op[u].recs = {}
  BY <1>2 DEF IInv, Apart
<1> QED BY <1>2, <1>4, <1>5, Compose

(* Every step keeps the invariant.                                         *)
LEMMA StepKeeps ==
  ASSUME IInv, [Next]_vars
  PROVE  IInv'
<1>1. CASE UNCHANGED vars
  <2>1. /\ rows' = rows /\ draft' = draft /\ owner' = owner /\ op' = op /\ todo' = todo
        /\ keys' = keys /\ begun' = begun
    BY <1>1 DEF vars
  <2>2. ASSUME NEW t \in Txn
        PROVE  Local(t)' /\ View(t)' = View(t) /\ Synced(t)' = Synced(t)
    <3>1. Stage(t)' = Stage(t) /\ View(t)' = View(t) /\ Held(t)' = Held(t)
      BY <2>1 DEF Stage, View, Held
    <3>2. /\ Chosen(t)' = Chosen(t) /\ Locked(t)' = Locked(t) /\ HasReceipts(t)' = HasReceipts(t)
          /\ Synced(t)' = Synced(t) /\ Recalculated(t)' = Recalculated(t) /\ Adds(t)' = Adds(t)
          /\ Protected(t)' = Protected(t)
      BY <2>1, <3>1 DEF Chosen, Locked, HasReceipts, Synced, Recalculated, Adds, Protected
    <3>3. Running(t)' /\ LocksHeld(t)' /\ Origin(t)' /\ KeysRead(t)'
      BY <2>1, <3>1, <3>2 DEF IInv, Local, Running, LocksHeld, Origin, KeysRead
    <3>4. Drafted(t)' /\ Inserted(t)'
      BY <2>1, <3>1, <3>2 DEF IInv, Local, Drafted, Inserted
    <3>5. ClassesExact(t)' /\ CountsOnce(t)' /\ FactsHold(t)'
      BY <2>1, <3>1, <3>2 DEF IInv, Local, ClassesExact, CountsOnce, FactsHold
    <3> QED BY <3>1, <3>2, <3>3, <3>4, <3>5 DEF Local
  <2>3. Shapes'
    BY <2>1 DEF IInv, Shapes
  <2>4. Committed'
    BY <2>1 DEF IInv, Committed, Exact, Members, Classify, Eligible, CollectedUpTo, CollectedBefore, Total
  <2>5. Apart'
    BY <2>1, <2>2 DEF IInv, Apart
  <2> QED BY <2>2, <2>3, <2>4, <2>5 DEF IInv
<1>2. ASSUME NEW t \in Txn,
             \/ Begin(t) \/ Acquire(t) \/ Read(t) \/ Insert(t) \/ Edit(t) \/ Erase(t)
             \/ AttachReceipts(t) \/ Sync(t) \/ Recalc(t) \/ Rollup(t)
             \/ Anchor(t) \/ Facts(t) \/ Activate(t) \/ Revoke(t)
             \/ Commit(t) \/ Rollback(t)
      PROVE  IInv'
  <2>0. Shapes /\ Committed /\ Local(t)
    BY DEF IInv
  <2>1. \A u \in Txn \ {t} : op[t].kind = "create" /\ op[u].kind = "create" => op[t].recs \cap op[u].recs = {}
    BY DEF IInv, Apart
  <2>2. ASSUME Local(t)', Shapes', OthersSame(t), op' = op, ~Synced(t)'
        PROVE  IInv'
    BY <2>1, <2>2, Compose
  <2>3. ASSUME Local(t)', Shapes', OthersSame(t), op' = op,
               Synced(t)' => Synced(t) /\ \A r \in op[t].recs : Counted(View(t)'[r]) => Counted(View(t)[r])
        PROVE  IInv'
    <3>1. \A u \in Txn \ {t} : Synced(t)' /\ Synced(u) => \A r \in op'[t].recs, q \in op[u].recs :
            ~ (Counted(View(t)'[r]) /\ Counted(View(u)[q]))
      BY <2>3 DEF IInv, Apart
    <3> QED BY <2>1, <2>3, <3>1, Compose
  <2>4. CASE Begin(t)
    BY <2>0, <2>4, BeginKeeps, Compose
  <2>5. CASE Acquire(t)
    <3>1. op' = op /\ Local(t)' /\ Shapes' /\ OthersSame(t) /\ View(t)' = View(t) /\ Synced(t)' = Synced(t)
      BY <2>0, <2>5, AcquireKeeps DEF Acquire
    <3> QED BY <2>3, <3>1
  <2>6. CASE Read(t)
    BY <2>0, <2>2, <2>6, ReadKeeps DEF Read
  <2>7. CASE Insert(t)
    BY <2>0, <2>2, <2>7, InsertKeeps DEF Insert
  <2>8. CASE Edit(t)
    BY <2>0, <2>2, <2>8, EditKeeps DEF Edit
  <2>9. CASE Erase(t)
    BY <2>0, <2>2, <2>9, EraseKeeps DEF Erase
  <2>10. CASE AttachReceipts(t)
    BY <2>0, <2>2, <2>10, AttachKeeps DEF AttachReceipts
  <2>11. CASE Sync(t)
    BY <2>11, SyncApart
  <2>12. CASE Recalc(t)
    BY <2>0, <2>3, <2>12, RecalcKeeps DEF Recalc
  <2>13. CASE Rollup(t)
    BY <2>0, <2>3, <2>13, RollupKeeps DEF Rollup
  <2>14. CASE Anchor(t)
    BY <2>0, <2>2, <2>14, AnchorKeeps DEF Anchor
  <2>15. CASE Facts(t)
    BY <2>0, <2>2, <2>15, FactsKeeps DEF Facts
  <2>16. CASE Activate(t) \/ Revoke(t)
    <3>1. op' = op
      BY <2>16 DEF Activate, Revoke, SetOverride
    <3> QED BY <2>0, <2>2, <2>16, <3>1, OverrideKeeps
  <2>17. CASE Commit(t)
    BY <2>17, CommitKeeps
  <2>18. CASE Rollback(t)
    <3>1. /\ Local(t)' /\ ~Synced(t)' /\ op'[t] = Idle
          /\ DOMAIN draft' = Txn /\ DOMAIN op' = Txn /\ DOMAIN todo' = Txn /\ DOMAIN keys' = Txn
          /\ owner' \in [Lock -> Txn \cup {NoTxn}] /\ begun' = begun /\ rows' = rows
          /\ \A u \in Txn \ {t} :
              /\ draft'[u] = draft[u] /\ op'[u] = op[u] /\ todo'[u] = todo[u] /\ keys'[u] = keys[u]
              /\ \A l \in Lock : owner'[l] = u <=> owner[l] = u
      BY <2>0, <2>18, EndKeeps DEF Rollback, Shapes
    <3>2. Shapes' /\ OthersSame(t)
      BY <2>0, <3>1 DEF Shapes, OthersSame
    <3>3. op'[t].kind # "create"
      BY <3>1 DEF Idle
    <3> QED BY <3>1, <3>2, <3>3, Compose
  <2> QED BY <1>2, <2>4, <2>5, <2>6, <2>7, <2>8, <2>9, <2>10, <2>11, <2>12, <2>13, <2>14, <2>15, <2>16, <2>17, <2>18
<1> QED BY <1>1, <1>2 DEF Next

LEMMA InitKeeps ==
  ASSUME Init
  PROVE  IInv
<1>1. /\ \A r \in Rec : rows[r] = NewRow
      /\ \A l \in Lock : owner[l] = NoTxn
      /\ \A t \in Txn : draft[t] = <<>> /\ op[t] = Idle /\ todo[t] = <<>> /\ keys[t] = {}
  BY DEF Init
<1>2. Shapes
  BY NewRowTyped, SettlementAssumption DEF Init, Shapes
<1>3. ASSUME NEW t \in Txn
      PROVE  Local(t) /\ ~Synced(t)
  <2>1. Stage(t) = "none" /\ DOMAIN draft[t] = {} /\ Held(t) = {}
    BY <1>1, SettlementAssumption DEF Stage, Held
  <2>2. op[t].kind = "idle" /\ op[t].recs = {} /\ op[t].edit.do = "sync"
    BY <1>1 DEF Idle, Resync
  <2>3. Running(t)
    BY <1>1, <2>1, <2>2 DEF Running, Proper
  <2>4. ~Chosen(t) /\ ~Locked(t) /\ ~HasReceipts(t) /\ ~Synced(t) /\ ~Recalculated(t)
    BY <2>1 DEF Chosen, Locked, HasReceipts, Synced, Recalculated
  <2>5. LocksHeld(t) /\ Origin(t) /\ KeysRead(t)
    BY <2>2, <2>4 DEF LocksHeld, Origin, KeysRead
  <2>6. Drafted(t) /\ Inserted(t) /\ ClassesExact(t) /\ CountsOnce(t) /\ FactsHold(t)
    BY <2>1, <2>2, <2>4 DEF Drafted, Inserted, ClassesExact, CountsOnce, FactsHold
  <2> QED BY <2>3, <2>4, <2>5, <2>6 DEF Local
<1>4. Apart
  <2>1. \A t \in Txn : op[t].kind # "create"
    BY <1>1 DEF Idle
  <2> QED BY <1>3, <2>1 DEF Apart
<1>5. Committed
  <2>1. \A r \in Rec : rows[r].st # "live" /\ rows[r].override = "none" /\ rows[r].receipt = "none"
    BY <1>1, NewRowTyped
  <2> QED BY <2>1 DEF Committed, Exact, Members, Counted
<1> QED BY <1>2, <1>3, <1>4, <1>5 DEF IInv

(* The invariant holds in every state that can be reached.                 *)
THEOREM SettlementInvariant == Spec => []IInv
<1>1. Init => IInv
  BY InitKeeps
<1>2. IInv /\ [Next]_vars => IInv'
  BY StepKeeps
<1> QED BY <1>1, <1>2, PTL DEF Spec

-----------------------------------------------------------------------------
(* Records, drafts, locks and statements are well typed, and a session that*)
(* has nothing to execute holds no lock (withTransaction's release).       *)
THEOREM SettlementTypeCorrect == Spec => []TypeOK
<1>1. IInv => TypeOK
  <2> SUFFICES ASSUME IInv PROVE TypeOK
    OBVIOUS
  <2>1. ASSUME NEW t \in Txn
        PROVE  /\ DOMAIN draft[t] \subseteq Rec /\ \A r \in DOMAIN draft[t] : draft[t][r] \in Row
               /\ keys[t] \subseteq Cycle /\ op[t].recs \subseteq Rec
               /\ todo[t] = <<>> => op[t] = Idle /\ Held(t) = {}
    BY DEF IInv, Local, Running, Proper, Drafted, Fits
  <2> QED BY <2>1 DEF IInv, Shapes, TypeOK
<1> QED BY <1>1, SettlementInvariant, PTL

(* Whatever saves, moves, receipt changes, purges and settlements ran at   *)
(* once, every committed payment has the classification that the committed *)
(* payments of its cycle give it (recalculateCollectionSettlementCycles).  *)
THEOREM ClassificationIsExact == Spec => []ClassificationExact
<1>1. IInv => ClassificationExact
  BY DEF IInv, Committed, Exact, ClassificationExact
<1> QED BY <1>1, SettlementInvariant, PTL

(* Of the committed records that hold the receipt file at most one counts, *)
(* although a flag is only computed when its own record is saved           *)
(* (syncCollectionRecordReceiptValidation).                                *)
THEOREM ReceiptCountsOnce == Spec => []OneCountedReceipt
<1>1. IInv => OneCountedReceipt
  <2> SUFFICES ASSUME IInv PROVE OneCountedReceipt
    OBVIOUS
  <2> DEFINE S == {r \in Holders(rows) : ~rows[r].dup}
  <2>1. \A r, q \in S : r = q
    BY DEF Holders, IInv, Committed, Counted
  <2>2. S = {} \/ \E r \in S : S = {r}
    BY <2>1
  <2>3. Cardinality(S) <= 1
    <3>1. CASE S = {}
      BY <3>1, FS_EmptySet
    <3>2. CASE \E r \in S : S = {r}
      <4>1. PICK r \in S : S = {r}
        BY <3>2
      <4>2. Cardinality(S) = 1
        BY <4>1, FS_Singleton
      <4> QED BY <4>2
    <3> QED BY <2>2, <3>1, <3>2
  <2> QED BY <2>3 DEF OneCountedReceipt
<1> QED BY <1>1, SettlementInvariant, PTL

(* Committed records change by commits only.                               *)
LEMMA OnlyCommits ==
  ASSUME [Next]_vars, rows' # rows
  PROVE  \E u \in Txn : Commit(u)
<1>1. PICK t \in Txn :
             \/ Begin(t) \/ Acquire(t) \/ Read(t) \/ Insert(t) \/ Edit(t) \/ Erase(t)
             \/ AttachReceipts(t) \/ Sync(t) \/ Recalc(t) \/ Rollup(t)
             \/ Anchor(t) \/ Facts(t) \/ Activate(t) \/ Revoke(t)
             \/ Commit(t) \/ Rollback(t)
  BY DEF Next, vars
<1>2. ~(Begin(t) \/ Acquire(t) \/ Read(t) \/ Insert(t) \/ Edit(t) \/ Erase(t))
  BY DEF Begin, Acquire, Read, Insert, Edit, Erase
<1>3. ~(AttachReceipts(t) \/ Sync(t) \/ Recalc(t) \/ Rollup(t) \/ Anchor(t) \/ Facts(t))
  BY DEF AttachReceipts, Sync, Recalc, Rollup, Anchor, Facts
<1>4. ~(Activate(t) \/ Revoke(t) \/ Rollback(t))
  BY DEF Activate, Revoke, SetOverride, Rollback
<1> QED BY <1>1, <1>2, <1>3, <1>4

(* The facts a settlement was granted on still hold when it commits.       *)
LEMMA CommitJustified ==
  ASSUME IInv, NEW u \in Txn, Commit(u), op[u].kind = "settle"
  PROVE  Justified(rows', Target(u), op[u].edit.arg)
<1> DEFINE r == Target(u)
           c == rows[r].cycle
<1>1. r \in Rec /\ op[u].recs = {r}
  BY TargetIs DEF IInv, Manual
<1>2. /\ \A q \in Rec : rows'[q] = IF q \in DOMAIN draft[u] THEN draft[u][q] ELSE rows[q]
      /\ Stage(u) = "commit" /\ Chosen(u)
  BY CommitIs
<1>3. ASSUME NEW q \in Rec
      PROVE  /\ Alike(rows'[q], rows[q]) /\ rows'[q].class = rows[q].class
             /\ q # r => rows'[q].override = rows[q].override
  <2>1. CASE q \in DOMAIN draft[u]
    <3>1. /\ rows'[q] = draft[u][q]
          /\ Fits(draft[u][q], rows[q], op[u].kind, keys[u], q \in op[u].recs, HasReceipts(u) /\ Adds(u))
      BY <1>2, <2>1 DEF IInv, Local, Drafted
    <3> QED BY <1>1, <3>1 DEF Fits, Relabelled, Changed, Manual
  <2>2. CASE q \notin DOMAIN draft[u]
    BY <1>2, <2>2 DEF Alike
  <2> QED BY <2>1, <2>2
<1>4. rows'[r].override = "ACTIVE" /\ rows[r].st = "live"
  <2>1. r \in DOMAIN draft[u] /\ draft[u][r].override = "ACTIVE"
    BY <1>1, <1>2 DEF IInv, Local, Inserted
  <2>2. rows[r].st = "live"
    BY <1>1, <1>2, Targets DEF IInv, Manual
  <2> QED BY <1>1, <1>2, <2>1, <2>2
<1>5. /\ Actives(rows, c) \subseteq {r} /\ Aborts(rows, c) = {}
      /\ SystemCollected(rows, c, op[u].edit.arg) + Pool >= Due
  BY <1>1, <1>2 DEF IInv, Local, FactsHold
<1> HIDE DEF r
<1>6. \A q \in Rec : q \in Members(rows', c) <=> q \in Members(rows, c)
  BY <1>3 DEF Members, Alike
<1>7. Members(rows', c) = Members(rows, c)
  BY <1>6 DEF Members
<1>8. rows'[r].cycle = c
  BY <1>1, <1>3 DEF Alike
<1> HIDE DEF c
<1>9. Aborts(rows', c) = {}
  BY <1>3, <1>5, <1>7 DEF Aborts, Members
<1>10. CollectedUpTo(rows', c, op[u].edit.arg) = SystemCollected(rows, c, op[u].edit.arg)
  <2>1. \A q \in Members(rows, c) : rows[q].amount = rows'[q].amount /\ rows[q].dup = rows'[q].dup
    BY <1>3 DEF Members, Alike
  <2> QED BY <1>7, <2>1, SamePayments DEF SystemCollected
<1>11. Actives(rows', c) = {r}
  <2>1. r \in Members(rows', c)
    BY <1>1, <1>3, <1>4, <1>8 DEF Members, Alike
  <2>2. ASSUME NEW q \in Actives(rows', c), q # r
        PROVE  FALSE
    <3>1. q \in Rec /\ q \in Members(rows, c) /\ rows[q].override = "ACTIVE"
      BY <1>3, <1>7, <2>2 DEF Actives, Members
    <3> QED BY <1>5, <2>2, <3>1 DEF Actives
  <2> QED BY <1>4, <2>1, <2>2 DEF Actives
<1> QED BY <1>5, <1>8, <1>9, <1>10, <1>11 DEF Justified, r

(* A settlement is committed as ACTIVE only while the committed payments of*)
(* its cycle justify it (loadCycleSettlementFacts), although saves, purges *)
(* and receipt changes run between its check and its commit.               *)
THEOREM ActivationIsJustified == Spec => ActivationJustified
<1> DEFINE A == \A t \in Txn : op[t].kind = "settle" /\ op'[t] = Idle /\ rows' # rows
                                  => Justified(rows', Target(t), op[t].edit.arg)
<1>1. IInv /\ [Next]_vars => A
  <2> SUFFICES ASSUME IInv, [Next]_vars, NEW t \in Txn, op[t].kind = "settle", op'[t] = Idle, rows' # rows
               PROVE  Justified(rows', Target(t), op[t].edit.arg)
    OBVIOUS
  <2>1. PICK u \in Txn : Commit(u)
    BY OnlyCommits
  <2>2. \A w \in Txn \ {u} : op'[w] = op[w]
    BY <2>1, EndKeeps DEF Commit, IInv, Shapes
  <2>3. t = u
    BY <2>2 DEF Idle
  <2> QED BY <2>1, <2>3, CommitJustified
<1> HIDE DEF A
<1>2. IInv /\ [Next]_vars => [A]_vars
  BY <1>1
<1>3. Spec => [][A]_vars
  BY <1>2, SettlementInvariant, PTL DEF Spec
<1> QED BY <1>3 DEF ActivationJustified, A

(* An active settlement's record stays live and in its cycle, also against *)
(* a move, delete or purge that read the record before it became active.   *)
THEOREM AnchorIsPinned == Spec => AnchorPinned
<1> DEFINE A == \A r \in Rec : rows[r].override = "ACTIVE"
                                 => rows'[r].st = "live" /\ rows'[r].cycle = rows[r].cycle
<1>1. IInv /\ [Next]_vars => A
  <2> SUFFICES ASSUME IInv, [Next]_vars, NEW r \in Rec, rows[r].override = "ACTIVE"
               PROVE  rows'[r].st = "live" /\ rows'[r].cycle = rows[r].cycle
    OBVIOUS
  <2>1. rows[r].st = "live"
    BY DEF IInv, Committed
  <2>2. CASE rows' = rows
    BY <2>1, <2>2
  <2>3. CASE rows' # rows
    <3>1. PICK u \in Txn : Commit(u)
      BY <2>3, OnlyCommits
    <3>2. rows'[r] = IF r \in DOMAIN draft[u] THEN draft[u][r] ELSE rows[r]
      BY <3>1, CommitIs
    <3>3. r \in DOMAIN draft[u] =>
            Fits(draft[u][r], rows[r], op[u].kind, keys[u], r \in op[u].recs, HasReceipts(u) /\ Adds(u))
      BY DEF IInv, Local, Drafted
    <3> QED BY <2>1, <3>2, <3>3 DEF Fits, Relabelled, Changed, Alike
  <2> QED BY <2>2, <2>3
<1> HIDE DEF A
<1>2. IInv /\ [Next]_vars => [A]_vars
  BY <1>1
<1>3. Spec => [][A]_vars
  BY <1>2, SettlementInvariant, PTL DEF Spec
<1> QED BY <1>3 DEF AnchorPinned, A

-----------------------------------------------------------------------------
(* Which locks a session may hold while it still waits for one: a record   *)
(* or an anchor is locked first, then the cycles, in their order; a row    *)
(* that is locked has its cycle locked, but for a new record and an anchor.*)
Outset(t) ==
  Stage(t) \in {"read", "anchor"} =>
    /\ Held(t) \subseteq Needs(t, Stage(t))
    /\ \A l \in Held(t), m \in Missing(t) : Before(l, m)
Gathering(t) ==
  Chosen(t) /\ op[t].kind \notin Manual /\ CycleLocks(t) \ Held(t) # {} =>
    /\ Held(t) \subseteq {RecordLock(r) : r \in op[t].recs} \cup CycleLocks(t)
    /\ \A l \in Held(t), m \in CycleLocks(t) \ Held(t) : Before(l, m)
Anchored(t) ==
  Chosen(t) /\ op[t].kind \in Manual => \A r \in op[t].recs : owner[RowLock(r)] = t
RowOf(t, q) ==
  \/ op[t].kind = "create" /\ q \in op[t].recs
  \/ rows[q].st = "live" /\ rows[q].cycle \in keys[t] /\ owner[CycleLock(rows[q].cycle)] = t
RowsOwned(t) ==
  \A q \in Rec : owner[RowLock(q)] = t => RowOf(t, q) \/ (op[t].kind \in Manual /\ q \in op[t].recs)

Orderly(t) == Outset(t) /\ Gathering(t) /\ Anchored(t) /\ RowsOwned(t)
LockInv == IInv /\ \A t \in Txn : Orderly(t)

(* Every lock has a class and a number, which tell it from the others.     *)
LEMMA LockShape ==
  ASSUME NEW l \in Lock
  PROVE  /\ l = [class |-> l.class, id |-> l.id]
         /\ l.class \in Nat /\ l.class \in 1 .. 5 /\ l.id \in Nat
         /\ l.class = 4 => l = HashLock
         /\ l.class = 5 => l = MonthLock
         /\ l.class = 3 => \E r \in Rec : l = RowLock(r)
         /\ l.class = 2 => \E c \in Cycle : l = CycleLock(c)
         /\ l.class = 1 => \E r \in Rec : l = RecordLock(r)
<1>1. CASE \E r \in Rec : l = RecordLock(r)
  BY <1>1, SettlementAssumption DEF RecordLock
<1>2. CASE \E c \in Cycle : l = CycleLock(c)
  BY <1>2, SettlementAssumption DEF CycleLock
<1>3. CASE \E r \in Rec : l = RowLock(r)
  BY <1>3, SettlementAssumption DEF RowLock
<1>4. CASE l = HashLock
  BY <1>4 DEF HashLock
<1>5. CASE l = MonthLock
  BY <1>5 DEF MonthLock
<1> QED BY <1>1, <1>2, <1>3, <1>4, <1>5 DEF Lock

LEMMA LockClasses ==
  /\ \A r \in Rec : RecordLock(r).class = 1 /\ RowLock(r).class = 3 /\ RecordLock(r).id = r /\ RowLock(r).id = r
  /\ \A c \in Cycle : CycleLock(c).class = 2 /\ CycleLock(c).id = c
  /\ HashLock.class = 4 /\ MonthLock.class = 5
BY DEF RecordLock, RowLock, CycleLock, HashLock, MonthLock

(* The order of locks is strict and total.                                 *)
LEMMA LockOrder ==
  /\ \A k, l \in Lock : k # l => Before(k, l) \/ Before(l, k)
  /\ \A k \in Lock : ~ Before(k, k)
  /\ \A k, l, m \in Lock : Before(k, l) /\ Before(l, m) => Before(k, m)
<1>1. ASSUME NEW k \in Lock, NEW l \in Lock, k # l
      PROVE  Before(k, l) \/ Before(l, k)
  <2>1. /\ k = [class |-> k.class, id |-> k.id] /\ l = [class |-> l.class, id |-> l.id]
        /\ k.class \in Nat /\ k.id \in Nat /\ l.class \in Nat /\ l.id \in Nat
    BY LockShape
  <2>2. k.class # l.class \/ k.id # l.id
    BY <1>1, <2>1
  <2> QED BY <2>1, <2>2 DEF Before
<1>2. ASSUME NEW k \in Lock PROVE ~ Before(k, k)
  BY LockShape DEF Before
<1>3. ASSUME NEW k \in Lock, NEW l \in Lock, NEW m \in Lock, Before(k, l), Before(l, m)
      PROVE  Before(k, m)
  <2>1. /\ k.class \in Nat /\ k.id \in Nat /\ l.class \in Nat /\ l.id \in Nat
        /\ m.class \in Nat /\ m.id \in Nat
    BY LockShape
  <2> QED BY <1>3, <2>1 DEF Before
<1> QED BY <1>1, <1>2, <1>3

(* A set of numbers that is not empty has a least one.                     *)
LEMMA LeastNat ==
  ASSUME NEW S \in SUBSET Nat, S # {}
  PROVE  \E n \in S : \A m \in S : n <= m
<1> DEFINE R == OpToRel(<, Nat)
<1>1. IsWellFoundedOn(R, Nat)
  BY NatLessThanWellFounded
<1>2. \A m, n \in Nat : m < n => <<m, n>> \in R
  BY DEF OpToRel
<1> HIDE DEF R
<1>3. \E n \in S : \A m \in S : ~ (<<m, n>> \in R)
  BY <1>1, WFMin
<1>4. PICK n \in S : \A m \in S : ~ (<<m, n>> \in R)
  BY <1>3
<1>5. \A m \in S : ~ (m < n)
  <2> SUFFICES ASSUME NEW m \in S PROVE ~ (m < n)
    OBVIOUS
  <2>1. m \in Nat /\ n \in Nat
    OBVIOUS
  <2> QED BY <2>1, <1>2, <1>4, Zenon
<1> QED BY <1>5

LEMMA LeastLock ==
  ASSUME NEW L \in SUBSET Lock, L # {}
  PROVE  \E l \in L : \A k \in L \ {l} : Before(l, k)
<1> DEFINE C == {l.class : l \in L}
<1>1. C \in SUBSET Nat /\ C # {}
  BY LockShape
<1>2. PICK c \in C : \A d \in C : c <= d
  BY <1>1, LeastNat
<1> DEFINE N == {l.id : l \in {k \in L : k.class = c}}
<1>3. N \in SUBSET Nat /\ N # {}
  BY LockShape
<1>4. PICK n \in N : \A m \in N : n <= m
  BY <1>3, LeastNat
<1>5. PICK l \in L : l.class = c /\ l.id = n
  BY <1>4
<1>6. ASSUME NEW k \in L \ {l}
      PROVE  Before(l, k)
  <2>1. ~ Before(k, l)
    <3>1. c <= k.class /\ (k.class = c => n <= k.id)
      BY <1>2, <1>4
    <3>2. /\ k.class \in Nat /\ k.id \in Nat /\ c \in Nat /\ n \in Nat
      BY <1>1, <1>3, LockShape
    <3> QED BY <1>5, <3>1, <3>2 DEF Before
  <2>2. k \in Lock /\ l \in Lock /\ k # l
    OBVIOUS
  <2> QED BY <2>1, <2>2, LockOrder
<1> QED BY <1>5, <1>6

(* The lock a session waits for is the least one that its statement lacks. *)
LEMMA NeedsLocks ==
  ASSUME IInv, NEW t \in Txn, Stage(t) # "none"
  PROVE  Needs(t, Stage(t)) \subseteq Lock
<1> DEFINE s == Stage(t)
<1>1. op[t].recs \subseteq Rec /\ keys[t] \subseteq Cycle /\ Local(t) /\ Shapes
  BY DEF IInv, Local, Running, Proper
<1>2. s \in Has(op[t].kind) /\ op[t].kind \in Kind
  <2>1. At(t, s)
    BY DEF Stage, At
  <2> QED BY <1>1, <2>1, Follows DEF Local
<1>3. CycleLocks(t) \subseteq Lock /\ HashLocks(t) \subseteq Lock
  BY <1>1, LocksExist DEF CycleLocks, HashLocks
<1>4. \A R \in SUBSET Rec : RowLocks(R) \subseteq Lock
  BY LocksExist DEF RowLocks
<1>5. CycleRows(t) \in SUBSET Rec /\ Found(t) \in SUBSET Rec /\ op[t].recs \in SUBSET Rec
  BY <1>1 DEF CycleRows, Members, Found
<1>6. FactsLocks(t) \subseteq Lock
  BY <1>3, <1>4, <1>5 DEF FactsLocks
<1>7. {RecordLock(r) : r \in op[t].recs} \subseteq Lock
  BY <1>1, LocksExist
<1>8. s = "anchor" => Target(t) \in Rec
  <2> SUFFICES ASSUME s = "anchor" PROVE Target(t) \in Rec
    OBVIOUS
  <2>1. op[t].kind \in Manual
    BY <1>2 DEF Has, Kind, Manual
  <2> QED BY <1>1, <2>1, TargetIs
<1>9. RowLocks(op[t].recs) \subseteq Lock /\ RowLocks(Found(t)) \subseteq Lock /\ RowLocks(CycleRows(t)) \subseteq Lock
  BY <1>4, <1>5
<1>10. s = "anchor" => {RecordLock(Target(t)), RowLock(Target(t))} \subseteq Lock
  BY <1>8, LocksExist
<1> HIDE DEF s
<1> QED BY <1>3, <1>6, <1>7, <1>9, <1>10, LocksExist DEF Needs, s

LEMMA NextIs ==
  ASSUME IInv, NEW t \in Txn, Missing(t) # {}
  PROVE  /\ Missing(t) = Needs(t, Stage(t)) \ Held(t) /\ Missing(t) \subseteq Lock
         /\ NextLock(t) \in Missing(t)
         /\ \A k \in Missing(t) \ {NextLock(t)} : Before(NextLock(t), k)
         /\ Stage(t) # "none" /\ op[t] # Idle /\ op[t].kind \in Kind /\ Stage(t) \in Has(op[t].kind)
<1>1. todo[t] # <<>> /\ Stage(t) = Head(todo[t]) /\ At(t, Stage(t))
  BY DEF Missing, Stage, At
<1>2. op[t] # Idle /\ op[t].kind \in Kind /\ Stage(t) \in Has(op[t].kind)
  BY <1>1, Follows DEF IInv, Local
<1>3. Stage(t) # "none"
  BY <1>2 DEF Has, Kind
<1>4. Missing(t) = Needs(t, Stage(t)) \ Held(t)
  BY <1>1 DEF Missing
<1>5. Missing(t) \subseteq Lock
  BY <1>3, <1>4, NeedsLocks
<1>6. \E l \in Missing(t) : \A k \in Missing(t) \ {l} : Before(l, k)
  BY <1>5, LeastLock
<1>7. /\ NextLock(t) \in Missing(t)
      /\ \A k \in Missing(t) \ {NextLock(t)} : Before(NextLock(t), k)
  BY <1>6 DEF NextLock
<1> QED BY <1>2, <1>3, <1>4, <1>5, <1>7

(* A session that waits for a row holds the row's cycle; or the row is its *)
(* new record's, or it is the record that a manual settlement is about.    *)
LEMMA CyclesFirst ==
  ASSUME IInv, NEW t \in Txn, Missing(t) # {}, NextLock(t).class = 3, Stage(t) # "anchor"
  PROVE  Chosen(t) /\ \A c \in keys[t] : owner[CycleLock(c)] = t
<1>1. /\ Missing(t) = Needs(t, Stage(t)) \ Held(t) /\ Missing(t) \subseteq Lock /\ NextLock(t) \in Missing(t)
      /\ \A k \in Missing(t) \ {NextLock(t)} : Before(NextLock(t), k)
      /\ Stage(t) # "none" /\ op[t] # Idle /\ op[t].kind \in Kind
  BY NextIs
<1>2. keys[t] \subseteq Cycle /\ op[t].recs \subseteq Rec
  BY DEF IInv, Local, Running, Proper
<1>3. Stage(t) # "read"
  <2> SUFFICES ASSUME Stage(t) = "read" PROVE FALSE
    OBVIOUS
  <2>1. NextLock(t) \in {RecordLock(r) : r \in op[t].recs}
    BY <1>1 DEF Needs
  <2> QED BY <1>2, <2>1, LockClasses
<1>4. Chosen(t)
  BY <1>1, <1>3 DEF Chosen
<1>5. CASE Locked(t)
  BY <1>4, <1>5 DEF IInv, Local, LocksHeld
<1>6. CASE ~Locked(t)
  <2>1. Stage(t) \in {"insert", "edit", "erase", "facts", "end", "receipts"}
    BY <1>4, <1>6 DEF Locked
  <2>2. CycleLocks(t) \subseteq Needs(t, Stage(t))
    BY <2>1 DEF Needs, FactsLocks
  <2>3. ASSUME NEW c \in keys[t], owner[CycleLock(c)] # t
        PROVE  FALSE
    <3>1. CycleLock(c) \in Lock /\ CycleLock(c).class = 2
      BY <1>2, LocksExist, LockClasses
    <3>2. CycleLock(c) \in Missing(t) \ {NextLock(t)}
      BY <1>1, <2>2, <2>3, <3>1 DEF CycleLocks, Held
    <3>3. Before(NextLock(t), CycleLock(c))
      BY <1>1, <3>2
    <3> QED BY <3>1, <3>3 DEF Before
  <2> QED BY <1>4, <2>3
<1> QED BY <1>5, <1>6

(* A row that is not drafted away is the one that is committed.            *)
LEMMA ViewedRow ==
  ASSUME IInv, NEW t \in Txn, Chosen(t), NEW q \in Rec, q \in CycleRows(t)
  PROVE  \/ op[t].kind = "create" /\ q \in op[t].recs
         \/ rows[q].st = "live" /\ rows[q].cycle \in keys[t]
<1>0. Local(t) /\ Shapes
  BY DEF IInv
<1>1. PICK c \in keys[t] : View(t)[q].st = "live" /\ View(t)[q].cycle = c
  BY DEF CycleRows, Members
<1>2. View(t)[q] = IF q \in DOMAIN draft[t] THEN draft[t][q] ELSE rows[q]
  BY DEF View
<1>3. CASE q \notin DOMAIN draft[t]
  BY <1>1, <1>2, <1>3
<1>4. CASE q \in DOMAIN draft[t]
  <2>1. Fits(draft[t][q], rows[q], op[t].kind, keys[t], q \in op[t].recs, HasReceipts(t) /\ Adds(t))
    BY <1>0, <1>4 DEF Local, Drafted
  <2>2. Relabelled(draft[t][q], rows[q]) \/ (q \in op[t].recs /\ Changed(draft[t][q], rows[q], op[t].kind, HasReceipts(t) /\ Adds(t)))
    BY <2>1 DEF Fits
  <2>3. rows[q].st = "live" \/ (op[t].kind = "create" /\ q \in op[t].recs)
    BY <2>2 DEF Relabelled, Changed
  <2> QED BY <2>1, <2>3 DEF Fits
<1> QED BY <1>3, <1>4

LEMMA RowWanted ==
  ASSUME IInv, NEW t \in Txn, Missing(t) # {}, NEW q \in Rec, NextLock(t) = RowLock(q), Stage(t) # "anchor"
  PROVE  RowOf(t, q) \/ (op[t].kind \in Manual /\ q \in op[t].recs)
<1>0. Local(t) /\ Shapes /\ op[t].recs \subseteq Rec
  BY DEF IInv, Local, Running, Proper
<1>1. /\ Missing(t) = Needs(t, Stage(t)) \ Held(t) /\ NextLock(t) \in Missing(t)
      /\ op[t].kind \in Kind /\ Stage(t) \in Has(op[t].kind)
  BY NextIs
<1>2. NextLock(t).class = 3
  BY LockClasses
<1>3. Chosen(t) /\ (\A c \in keys[t] : owner[CycleLock(c)] = t) /\ keys[t] \subseteq Cycle
  BY <1>0, <1>2, CyclesFirst DEF Local, Running
<1>4. RowLock(q) \in Needs(t, Stage(t))
  BY <1>1
<1>5. RowLock(q) \notin CycleLocks(t) /\ RowLock(q) \notin HashLocks(t) /\ RowLock(q) # MonthLock
  BY <1>3, LockClasses DEF CycleLocks, HashLocks
<1>6. Stage(t) # "read"
  BY <1>3 DEF Chosen
<1>7. RowLock(q) \in RowLocks(op[t].recs) \cup RowLocks(Found(t)) \cup RowLocks(CycleRows(t))
  BY <1>4, <1>5, <1>6 DEF Needs, FactsLocks
<1>8. \A R \in SUBSET Rec : RowLock(q) \in RowLocks(R) => q \in R
  BY LockClasses DEF RowLocks
<1>9. Found(t) \subseteq op[t].recs /\ CycleRows(t) \subseteq Rec
  BY DEF Found, CycleRows, Members
<1>10. q \in op[t].recs \/ q \in CycleRows(t)
  BY <1>0, <1>7, <1>8, <1>9
<1>11. CASE q \in CycleRows(t)
  BY <1>3, <1>11, ViewedRow DEF RowOf
<1>12. CASE q \in op[t].recs /\ op[t].kind \in {"create"} \cup Manual
  BY <1>12 DEF RowOf, Manual
<1>13. CASE q \in op[t].recs /\ op[t].kind \in Saves \ {"create"}
  BY <1>0, <1>3, <1>13, Targets DEF RowOf
<1>14. CASE q \in op[t].recs /\ op[t].kind \in Removals
  <2>1. q \in Found(t) \/ q \in CycleRows(t)
    <3>1. Stage(t) \in {"erase", "recalc", "rollup", "commit"}
      BY <1>1, <1>6, <1>14 DEF Has, Removals
    <3>2. RowLock(q) \in RowLocks(Found(t)) \cup RowLocks(CycleRows(t))
      BY <1>4, <1>5, <3>1 DEF Needs
    <3> QED BY <1>0, <1>8, <1>9, <3>2
  <2>2. CASE q \in Found(t)
    <3>1. CASE q \notin DOMAIN draft[t]
      <4>1. rows[q].st = "live" /\ (Protected(t) => rows[q].override # "ACTIVE")
        BY <2>2, <3>1 DEF Found, View
      <4>2. op[t].kind # "create"
        BY <1>14 DEF Removals
      <4> QED BY <1>0, <1>3, <1>14, <4>1, <4>2 DEF Local, KeysRead, RowOf
    <3>2. CASE q \in DOMAIN draft[t]
      <4>1. Fits(draft[t][q], rows[q], op[t].kind, keys[t], q \in op[t].recs, HasReceipts(t) /\ Adds(t))
        BY <1>0, <3>2 DEF Local, Drafted
      <4>2. rows[q].st = "live"
        BY <1>14, <4>1 DEF Fits, Relabelled, Changed, Removals
      <4> QED BY <1>3, <4>1, <4>2 DEF Fits, RowOf
    <3> QED BY <3>1, <3>2
  <2> QED BY <1>11, <2>1, <2>2
<1> QED BY <1>1, <1>10, <1>11, <1>12, <1>13, <1>14 DEF Kind, Saves, Removals, Manual

-----------------------------------------------------------------------------
(* How the steps keep the locks in order.                                  *)
LEMMA OrderlyOthers ==
  ASSUME IInv, NEW t \in Txn, Orderly(t),
         op'[t] = op[t], todo'[t] = todo[t], keys'[t] = keys[t],
         \A l \in Lock : owner'[l] = t <=> owner[l] = t,
         \A q \in Rec : rows[q].st = "live" /\ rows[q].cycle \in keys[t] /\ owner[CycleLock(rows[q].cycle)] = t
            => rows'[q] = rows[q]
  PROVE  Orderly(t)'
<1>0. keys[t] \subseteq Cycle /\ op[t].recs \subseteq Rec
  BY DEF IInv, Local, Running, Proper
<1>1. Stage(t)' = Stage(t) /\ Held(t)' = Held(t) /\ Chosen(t)' = Chosen(t) /\ CycleLocks(t)' = CycleLocks(t)
      /\ Target(t)' = Target(t)
  BY DEF Stage, Held, Chosen, CycleLocks, Target
<1>2. Outset(t)'
  <2> SUFFICES ASSUME Stage(t) \in {"read", "anchor"}
               PROVE  /\ Held(t) \subseteq Needs(t, Stage(t))'
                      /\ \A l \in Held(t), m \in Missing(t)' : Before(l, m)
    BY <1>1 DEF Outset
  <2>1. Needs(t, Stage(t))' = Needs(t, Stage(t))
    BY <1>1 DEF Needs
  <2>2. Missing(t)' = Missing(t)
    BY <1>1, <2>1 DEF Missing, Stage
  <2> QED BY <2>1, <2>2 DEF Orderly, Outset
<1>3. Gathering(t)'
  BY <1>1 DEF Orderly, Gathering
<1>4. Anchored(t)'
  BY <1>0, <1>1, LocksExist DEF Orderly, Anchored
<1>5. RowsOwned(t)'
  <2> SUFFICES ASSUME NEW q \in Rec, owner'[RowLock(q)] = t
               PROVE  RowOf(t, q)' \/ (op[t].kind \in Manual /\ q \in op[t].recs)
    BY DEF RowsOwned
  <2>1. owner[RowLock(q)] = t
    BY LocksExist
  <2>2. RowOf(t, q) \/ (op[t].kind \in Manual /\ q \in op[t].recs)
    BY <2>1 DEF Orderly, RowsOwned
  <2>3. rows[q].st = "live" /\ rows[q].cycle \in keys[t] /\ owner[CycleLock(rows[q].cycle)] = t
          => rows'[q] = rows[q] /\ owner'[CycleLock(rows[q].cycle)] = t
    BY <1>0, LocksExist
  <2> QED BY <2>2, <2>3 DEF RowOf
<1> QED BY <1>2, <1>3, <1>4, <1>5 DEF Orderly

LEMMA OrderlyAcquire ==
  ASSUME IInv, NEW t \in Txn, Orderly(t), Acquire(t)
  PROVE  Orderly(t)'
<1> DEFINE n == NextLock(t)
<1>0. /\ keys[t] \subseteq Cycle /\ op[t].recs \subseteq Rec /\ Local(t) /\ Shapes
      /\ owner[n] = NoTxn /\ owner' = [owner EXCEPT ![n] = t] /\ Missing(t) # {}
      /\ UNCHANGED <<rows, draft, op, todo, keys, begun>>
  BY DEF IInv, Local, Running, Proper, Acquire
<1>1. /\ Missing(t) = Needs(t, Stage(t)) \ Held(t) /\ Missing(t) \subseteq Lock /\ n \in Missing(t)
      /\ \A k \in Missing(t) \ {n} : Before(n, k)
  BY <1>0, NextIs
<1>2. \A l \in Lock : owner'[l] = IF l = n THEN t ELSE owner[l]
  BY <1>0, <1>1 DEF Shapes
<1>3. Held(t)' = Held(t) \cup {n}
  BY <1>1, <1>2 DEF Held
<1>4. Stage(t)' = Stage(t) /\ Chosen(t)' = Chosen(t) /\ CycleLocks(t)' = CycleLocks(t) /\ View(t)' = View(t)
  BY <1>0 DEF Stage, Chosen, CycleLocks, View
<1>5. Outset(t)'
  <2> SUFFICES ASSUME Stage(t) \in {"read", "anchor"}
               PROVE  /\ Held(t)' \subseteq Needs(t, Stage(t))'
                      /\ \A l \in Held(t)', m \in Missing(t)' : Before(l, m)
    BY <1>4 DEF Outset
  <2>1. Needs(t, Stage(t))' = Needs(t, Stage(t))
    BY <1>0, <1>4 DEF Needs, Target
  <2>2. Missing(t)' = Missing(t) \ {n}
    BY <1>0, <1>1, <1>3, <1>4, <2>1 DEF Missing, Stage
  <2>3. Held(t) \subseteq Needs(t, Stage(t)) /\ \A l \in Held(t), m \in Missing(t) : Before(l, m)
    BY DEF Orderly, Outset
  <2> QED BY <1>1, <1>3, <2>1, <2>2, <2>3
<1>6. Gathering(t)'
  <2> SUFFICES ASSUME Chosen(t), op[t].kind \notin Manual, CycleLocks(t) \ Held(t)' # {}
               PROVE  /\ Held(t)' \subseteq {RecordLock(r) : r \in op[t].recs} \cup CycleLocks(t)
                      /\ \A l \in Held(t)', m \in CycleLocks(t) \ Held(t)' : Before(l, m)
    BY <1>0, <1>4 DEF Gathering
  <2>1. CycleLocks(t) \ Held(t) # {}
    BY <1>3
  <2>2. /\ Held(t) \subseteq {RecordLock(r) : r \in op[t].recs} \cup CycleLocks(t)
        /\ \A l \in Held(t), m \in CycleLocks(t) \ Held(t) : Before(l, m)
    BY <2>1 DEF Orderly, Gathering
  <2>3. ~Locked(t)
    BY <1>0, <2>1, LocksExist DEF CycleLocks, Held, Local, LocksHeld
  <2>4. Stage(t) \in {"insert", "edit", "erase", "facts", "end", "receipts"}
    BY <2>3 DEF Locked
  <2>5. CycleLocks(t) \subseteq Needs(t, Stage(t))
    BY <2>4 DEF Needs, FactsLocks
  <2>6. CycleLocks(t) \ Held(t) \subseteq Missing(t)
    BY <1>1, <2>5
  <2>7. n \in CycleLocks(t)
    <3>1. PICK m \in CycleLocks(t) \ Held(t)' : TRUE
      OBVIOUS
    <3>2. m \in Missing(t) \ {n} /\ m.class = 2
      BY <1>0, <1>3, <2>6, <3>1, LockClasses DEF CycleLocks
    <3>3. n.class <= 2 /\ n \in Lock
      BY <1>1, <3>2, LockShape DEF Before
    <3>4. n \in Needs(t, Stage(t))
      BY <1>1
    <3>5. Needs(t, Stage(t)) \subseteq CycleLocks(t) \cup RowLocks(op[t].recs \cup Found(t) \cup CycleRows(t)) \cup HashLocks(t)
      BY <2>4 DEF Needs, FactsLocks, RowLocks
    <3>6. \A l \in RowLocks(op[t].recs \cup Found(t) \cup CycleRows(t)) : l.class = 3
      <4>1. op[t].recs \cup Found(t) \cup CycleRows(t) \subseteq Rec
        BY <1>0 DEF Found, CycleRows, Members
      <4> QED BY <4>1, LockClasses DEF RowLocks
    <3>7. \A l \in HashLocks(t) : l.class = 4
      BY LockClasses DEF HashLocks
    <3>8. n.class # 3 /\ n.class # 4
      BY <3>3, LockShape
    <3> HIDE DEF n
    <3> QED BY <3>4, <3>5, <3>6, <3>7, <3>8
  <2>8. \A m \in CycleLocks(t) \ Held(t)' : Before(n, m) /\ m \in CycleLocks(t) \ Held(t)
    BY <1>1, <1>3, <2>6
  <2> QED BY <1>3, <2>2, <2>7, <2>8
<1>7. Anchored(t)'
  <2>1. \A r \in Rec : owner[RowLock(r)] = t => owner'[RowLock(r)] = t
    BY <1>2, LocksExist
  <2> QED BY <1>0, <1>4, <2>1 DEF Orderly, Anchored
<1>8. RowsOwned(t)'
  <2> SUFFICES ASSUME NEW q \in Rec, owner'[RowLock(q)] = t
               PROVE  RowOf(t, q)' \/ (op[t].kind \in Manual /\ q \in op[t].recs)
    BY <1>0 DEF RowsOwned
  <2>1. RowOf(t, q) \/ (op[t].kind \in Manual /\ q \in op[t].recs)
    <3>1. CASE owner[RowLock(q)] = t
      BY <3>1 DEF Orderly, RowsOwned
    <3>2. CASE owner[RowLock(q)] # t
      <4>1. n = RowLock(q)
        BY <1>2, <3>2, LocksExist
      <4>2. CASE Stage(t) # "anchor"
        BY <1>0, <4>1, <4>2, RowWanted
      <4>3. CASE Stage(t) = "anchor"
        <5>1. op[t].kind \in Manual
          BY <1>0, <4>3, NextIs DEF Has, Kind, Manual
        <5>2. Target(t) \in Rec /\ op[t].recs = {Target(t)}
          BY <1>0, <5>1, TargetIs
        <5>3. RowLock(q) \in {RecordLock(Target(t)), RowLock(Target(t))}
          BY <1>1, <4>1, <4>3 DEF Needs
        <5>4. q = Target(t)
          BY <5>2, <5>3, LockClasses
        <5> QED BY <5>1, <5>2, <5>4
      <4> QED BY <4>2, <4>3
    <3> QED BY <3>1, <3>2
  <2>2. \A c \in keys[t] : owner[CycleLock(c)] = t => owner'[CycleLock(c)] = t
    BY <1>0, <1>2, LocksExist
  <2> QED BY <1>0, <2>1, <2>2 DEF RowOf
<1> QED BY <1>5, <1>6, <1>7, <1>8 DEF Orderly

LEMMA OrderlyAdvance ==
  ASSUME IInv, NEW t \in Txn, Orderly(t), NEW s, Ready(t, s), s \notin {"read", "anchor", "commit"},
         Done(t), UNCHANGED <<rows, owner, op, keys>>
  PROVE  Orderly(t)'
<1>1. Chosen(t) /\ Locked(t)' /\ LocksHeld(t)' /\ keys[t] \subseteq Cycle
  BY Advance DEF IInv, Local, Running
<1>2. Stage(t)' \notin {"read", "anchor"}
  BY <1>1, LockedIsChosen DEF Locked, Chosen
<1>3. Outset(t)'
  BY <1>2 DEF Outset
<1>4. CycleLocks(t)' \subseteq Held(t)'
  BY <1>1, LocksExist DEF LocksHeld, CycleLocks, Held
<1>5. Gathering(t)'
  BY <1>4 DEF Gathering
<1>6. Anchored(t)' /\ RowsOwned(t)'
  BY <1>1 DEF Orderly, Anchored, RowsOwned, RowOf
<1> QED BY <1>3, <1>5, <1>6 DEF Orderly

LEMMA OrderlyChoose ==
  ASSUME IInv, NEW t \in Txn, Orderly(t), Read(t) \/ Anchor(t)
  PROVE  Orderly(t)'
<1>0. Local(t) /\ Shapes /\ op[t].recs \subseteq Rec /\ UNCHANGED <<rows, draft, owner, op, begun>> /\ Done(t)
  BY DEF IInv, Local, Running, Proper, Read, Anchor
<1>1. PICK s \in {"read", "anchor"} : /\ At(t, s) /\ Missing(t) = {}
                                      /\ s = "anchor" <=> Anchor(t)
  BY DEF Read, Anchor, Ready, At
<1>2. /\ Stage(t) = s /\ op[t] # Idle /\ op[t].kind \in Kind /\ s \in Has(op[t].kind)
      /\ Stage(t)' = Following(op[t].kind, s)
  BY <1>0, <1>1, Follows DEF Local
<1>3. op[t].kind \in Manual <=> s = "anchor"
  BY <1>2 DEF Has, Kind, Manual
<1>4. Chosen(t)' /\ Stage(t)' \notin {"read", "anchor"}
  BY <1>2 DEF Has, Kind, Following, Chosen
<1>5. Held(t)' = Held(t) /\ Held(t) \subseteq Needs(t, s) /\ Needs(t, s) \subseteq Held(t)
  BY <1>0, <1>1, <1>2 DEF Held, Orderly, Outset, Missing, At
<1>6. Outset(t)'
  BY <1>4 DEF Outset
<1>7. keys'[t] \subseteq Cycle
  <2>1. Local(t)'
    BY <1>0, ReadKeeps, AnchorKeeps DEF IInv
  <2> QED BY <2>1 DEF Local, Running
<1>8. Gathering(t)'
  <2> SUFFICES ASSUME op[t].kind \notin Manual
               PROVE  /\ Held(t) \subseteq {RecordLock(r) : r \in op[t].recs}
                      /\ \A l \in Held(t), m \in CycleLocks(t)' : Before(l, m)
    BY <1>0, <1>5 DEF Gathering
  <2>1. Held(t) \subseteq {RecordLock(r) : r \in op[t].recs}
    BY <1>3, <1>5 DEF Needs
  <2>2. \A l \in Held(t) : l.class = 1
    BY <1>0, <2>1, LockClasses
  <2>3. \A m \in CycleLocks(t)' : m.class = 2
    BY <1>7, LockClasses DEF CycleLocks
  <2> QED BY <2>1, <2>2, <2>3 DEF Before
<1>9. Anchored(t)' /\ RowsOwned(t)'
  <2>1. CASE s = "read"
    <3>1. \A q \in Rec : RowLock(q) \notin Held(t)
      BY <1>0, <1>5, <2>1, LockClasses DEF Needs
    <3>2. \A q \in Rec : owner'[RowLock(q)] # t
      BY <1>0, <3>1, LocksExist DEF Held
    <3> QED BY <1>0, <1>3, <2>1, <3>2 DEF Anchored, RowsOwned
  <2>2. CASE s = "anchor"
    <3>1. Target(t) \in Rec /\ op[t].recs = {Target(t)}
      BY <1>0, <1>3, <2>2, TargetIs
    <3>2. Needs(t, s) = {RecordLock(Target(t)), RowLock(Target(t))}
      BY <2>2 DEF Needs
    <3>3. owner[RowLock(Target(t))] = t
      BY <1>5, <3>2 DEF Held
    <3>4. ASSUME NEW q \in Rec, owner[RowLock(q)] = t
          PROVE  q = Target(t)
      <4>1. RowLock(q) \in Held(t)
        BY <3>4, LocksExist DEF Held
      <4> QED BY <1>5, <3>1, <3>2, <4>1, LockClasses
    <3> QED BY <1>0, <1>3, <2>2, <3>1, <3>3, <3>4 DEF Anchored, RowsOwned
  <2> QED BY <2>1, <2>2
<1> QED BY <1>6, <1>8, <1>9 DEF Orderly

(* A session that holds no lock is in order.                               *)
LEMMA OrderlyFree ==
  ASSUME NEW t \in Txn, Held(t)' = {}, Chosen(t)' => op'[t].kind \notin Manual
  PROVE  Orderly(t)'
<1>1. \A q \in Rec : owner'[RowLock(q)] # t
  BY LocksExist DEF Held
<1> QED BY <1>1 DEF Orderly, Outset, Gathering, Anchored, RowsOwned

LEMMA LocksStay ==
  ASSUME LockInv, [Next]_vars
  PROVE  LockInv'
<1>0. IInv /\ IInv' /\ Shapes /\ Committed /\ \A t \in Txn : Local(t) /\ Local(t)' /\ Orderly(t)
  BY StepKeeps DEF LockInv, IInv
<1>1. CASE UNCHANGED vars
  <2>1. /\ rows' = rows /\ owner' = owner /\ op' = op /\ todo' = todo /\ keys' = keys
    BY <1>1 DEF vars
  <2>2. \A t \in Txn : Orderly(t)'
    BY <1>0, <2>1, OrderlyOthers
  <2> QED BY <1>0, <2>2 DEF LockInv
<1>2. ASSUME NEW t \in Txn, OthersSame(t), Orderly(t)'
      PROVE  LockInv'
  <2>1. ASSUME NEW u \in Txn \ {t} PROVE Orderly(u)'
    BY <1>0, <1>2, OrderlyOthers DEF OthersSame
  <2> QED BY <1>0, <1>2, <2>1 DEF LockInv
<1>3. ASSUME NEW t \in Txn, OthersSame(t), NEW s, Ready(t, s), s \notin {"read", "anchor", "commit"},
             Done(t), UNCHANGED <<rows, owner, op, keys>>
      PROVE  LockInv'
  BY <1>0, <1>2, <1>3, OrderlyAdvance
<1>4. ASSUME NEW t \in Txn, op'[t].kind \in Manual, Chosen(t)', Held(t)' = {}
      PROVE  FALSE
  <2>1. \E r \in Rec : op'[t].recs = {r}
    BY <1>0, <1>4 DEF Local, Running, Proper, Manual, Idle, Removals
  <2>2. PICK r \in Rec : op'[t].recs = {r}
    BY <2>1
  <2>3. op'[t].kind # "create"
    BY <1>4 DEF Manual
  <2>4. owner'[RecordLock(r)] = t
    BY <1>0, <1>4, <2>2, <2>3 DEF Local, LocksHeld
  <2> QED BY <1>4, <2>4, LocksExist DEF Held
<1>5. ASSUME NEW t \in Txn, Commit(t) \/ Rollback(t)
      PROVE  LockInv'
  <2>1. /\ Local(t)' /\ op'[t] = Idle
        /\ \A u \in Txn \ {t} :
              /\ draft'[u] = draft[u] /\ op'[u] = op[u] /\ todo'[u] = todo[u] /\ keys'[u] = keys[u]
              /\ \A l \in Lock : owner'[l] = u <=> owner[l] = u
    BY <1>0, <1>5, EndKeeps DEF Commit, Rollback, Shapes
  <2>2. Held(t)' = {}
    BY <2>1 DEF Local, Running
  <2>3. Orderly(t)'
    BY <1>4, <2>2, OrderlyFree
  <2>4. ASSUME NEW u \in Txn \ {t}, NEW q \in Rec,
               rows[q].st = "live", rows[q].cycle \in keys[u], owner[CycleLock(rows[q].cycle)] = u
        PROVE  rows'[q] = rows[q]
    <3>1. CASE Rollback(t)
      BY <3>1 DEF Rollback
    <3>2. CASE Commit(t)
      <4>1. rows'[q] = IF q \in DOMAIN draft[t] THEN draft[t][q] ELSE rows[q]
        BY <1>0, <3>2, CommitIs
      <4>2. q \in DOMAIN draft[t] => rows[q].cycle \in keys[t] /\ Locked(t)
        BY <1>0, <2>4 DEF Local, Drafted, Fits
      <4>3. q \notin DOMAIN draft[t]
        BY <1>0, <2>4, <4>2 DEF Local, LocksHeld
      <4> QED BY <4>1, <4>3
    <3> QED BY <1>5, <3>1, <3>2
  <2>5. ASSUME NEW u \in Txn \ {t} PROVE Orderly(u)'
    BY <1>0, <2>1, <2>4, OrderlyOthers
  <2> QED BY <1>0, <2>3, <2>5 DEF LockInv
<1>6. ASSUME NEW t \in Txn,
             \/ Begin(t) \/ Acquire(t) \/ Read(t) \/ Insert(t) \/ Edit(t) \/ Erase(t)
             \/ AttachReceipts(t) \/ Sync(t) \/ Recalc(t) \/ Rollup(t)
             \/ Anchor(t) \/ Facts(t) \/ Activate(t) \/ Revoke(t)
             \/ Commit(t) \/ Rollback(t)
      PROVE  LockInv'
  <2>1. CASE Begin(t)
    <3>1. OthersSame(t)
      BY <1>0, <2>1, BeginKeeps
    <3>2. Held(t)' = {}
      BY <1>0, <2>1 DEF Begin, Held, Local, Running
    <3>3. Orderly(t)'
      BY <1>4, <3>2, OrderlyFree
    <3> QED BY <1>2, <3>1, <3>3
  <2>2. CASE Acquire(t)
    BY <1>0, <1>2, <2>2, AcquireKeeps, OrderlyAcquire
  <2>3. CASE Read(t) \/ Anchor(t)
    BY <1>0, <1>2, <2>3, ReadKeeps, AnchorKeeps, OrderlyChoose
  <2>4. CASE Insert(t)
    <3>1. OthersSame(t)
      BY <1>0, <2>4, InsertKeeps
    <3> QED BY <1>3, <2>4, <3>1 DEF Insert
  <2>5. CASE Edit(t)
    <3>1. OthersSame(t)
      BY <1>0, <2>5, EditKeeps
    <3> QED BY <1>3, <2>5, <3>1 DEF Edit
  <2>6. CASE Erase(t)
    <3>1. OthersSame(t)
      BY <1>0, <2>6, EraseKeeps
    <3> QED BY <1>3, <2>6, <3>1 DEF Erase
  <2>7. CASE AttachReceipts(t)
    <3>1. OthersSame(t)
      BY <1>0, <2>7, AttachKeeps
    <3> QED BY <1>3, <2>7, <3>1 DEF AttachReceipts
  <2>8. CASE Sync(t)
    <3>1. OthersSame(t)
      BY <1>0, <2>8, SyncKeeps
    <3> QED BY <1>3, <2>8, <3>1 DEF Sync
  <2>9. CASE Recalc(t)
    <3>1. OthersSame(t)
      BY <1>0, <2>9, RecalcKeeps
    <3> QED BY <1>3, <2>9, <3>1 DEF Recalc
  <2>10. CASE Rollup(t)
    <3>1. OthersSame(t)
      BY <1>0, <2>10, RollupKeeps
    <3> QED BY <1>3, <2>10, <3>1 DEF Rollup
  <2>11. CASE Facts(t)
    <3>1. OthersSame(t)
      BY <1>0, <2>11, FactsKeeps
    <3> QED BY <1>3, <2>11, <3>1 DEF Facts
  <2>12. CASE Activate(t) \/ Revoke(t)
    <3>1. OthersSame(t)
      BY <1>0, <2>12, OverrideKeeps
    <3>2. PICK s \in {"activate", "end"} : Ready(t, s) /\ Done(t) /\ UNCHANGED <<rows, owner, op, keys>>
      BY <2>12 DEF Activate, Revoke, SetOverride
    <3> QED BY <1>3, <3>1, <3>2
  <2> QED BY <1>5, <1>6, <2>1, <2>2, <2>3, <2>4, <2>5, <2>6, <2>7, <2>8, <2>9, <2>10, <2>11, <2>12
<1> QED BY <1>1, <1>6 DEF Next

(* The locks of the sessions stay in order, whatever runs at once.         *)
THEOREM LocksInOrder == Spec => []LockInv
<1>1. Init => LockInv
  <2> SUFFICES ASSUME Init PROVE LockInv
    OBVIOUS
  <2>1. IInv
    BY InitKeeps
  <2>2. ASSUME NEW t \in Txn PROVE Orderly(t)
    <3>1. op[t].kind = "idle" /\ Stage(t) = "none" /\ ~Chosen(t)
      BY DEF Init, Idle, Stage, Chosen
    <3>2. \A q \in Rec : owner[RowLock(q)] # t
      BY LocksExist, SettlementAssumption DEF Init
    <3> QED BY <3>1, <3>2 DEF Orderly, Outset, Gathering, Anchored, RowsOwned
  <2> QED BY <2>1, <2>2 DEF LockInv
<1> QED BY <1>1, LocksStay, PTL DEF Spec
-----------------------------------------------------------------------------
(* A session that waits for a row waits for a manual settlement out of     *)
(* order, or it is a manual settlement that locks its record's row.        *)
LEMMA RowBlocked ==
  ASSUME LockInv, NEW t \in Txn, NEW u \in Txn, Blocks(u, t), NextLock(t).class = 3, Stage(t) # "anchor",
         Missing(u) # {}
  PROVE  OutOfOrder(u)
<1>0. /\ IInv /\ Local(t) /\ Local(u) /\ Orderly(t) /\ Orderly(u) /\ Shapes
      /\ u # t /\ Missing(t) # {} /\ owner[NextLock(t)] = u
      /\ op[t].recs \subseteq Rec /\ op[u].recs \subseteq Rec /\ keys[u] \subseteq Cycle
  BY DEF LockInv, IInv, Local, Running, Proper, Blocks
<1>1. NextLock(t) \in Lock
  BY <1>0, NextIs
<1>2. PICK q \in Rec : NextLock(t) = RowLock(q)
  BY <1>1, LockShape
<1>3. RowOf(u, q) \/ (op[u].kind \in Manual /\ q \in op[u].recs)
  BY <1>0, <1>2 DEF Orderly, RowsOwned
<1>4. RowOf(t, q)
  <2>1. RowOf(t, q) \/ (op[t].kind \in Manual /\ q \in op[t].recs)
    BY <1>0, <1>2, RowWanted
  <2>2. ASSUME op[t].kind \in Manual, q \in op[t].recs
        PROVE  FALSE
    <3>1. Chosen(t)
      BY <1>0, CyclesFirst
    <3>2. owner[RowLock(q)] = t
      BY <1>0, <2>2, <3>1 DEF Orderly, Anchored
    <3> QED BY <1>0, <1>2, <3>2
  <2> QED BY <2>1, <2>2
<1>5. /\ op[t].kind = "create" /\ q \in op[t].recs => rows[q].st = "new"
      /\ op[u].kind = "create" /\ q \in op[u].recs => rows[q].st = "new"
      /\ op[u].kind # "create" /\ q \in op[u].recs => rows[q].st # "new"
      /\ ~(op[t].kind = "create" /\ op[u].kind = "create" /\ q \in op[t].recs /\ q \in op[u].recs)
  BY <1>0 DEF Local, Origin, IInv, Apart
<1>6. op[u].kind \in Manual /\ q \in op[u].recs /\ op[u].kind # "create"
  <2>1. ~RowOf(u, q)
    BY <1>0, <1>4, <1>5 DEF RowOf
  <2> QED BY <1>3, <2>1 DEF Manual
<1>7. rows[q].st = "live" /\ owner[CycleLock(rows[q].cycle)] = t
  BY <1>4, <1>5, <1>6 DEF RowOf
<1>8. /\ Missing(u) = Needs(u, Stage(u)) \ Held(u) /\ Missing(u) \subseteq Lock /\ NextLock(u) \in Missing(u)
      /\ \A k \in Missing(u) \ {NextLock(u)} : Before(NextLock(u), k)
      /\ op[u].kind \in Kind /\ Stage(u) \in Has(op[u].kind)
  BY <1>0, NextIs
<1>9. Stage(u) # "anchor"
  <2> SUFFICES ASSUME Stage(u) = "anchor" PROVE FALSE
    OBVIOUS
  <2>1. Target(u) \in Rec /\ op[u].recs = {Target(u)}
    BY <1>0, <1>6, TargetIs
  <2>2. RowLock(q) \in Held(u) /\ q = Target(u)
    BY <1>0, <1>2, <1>6, <2>1, LocksExist DEF Held
  <2>3. Needs(u, "anchor") = {RecordLock(q), RowLock(q)}
    BY <2>2 DEF Needs
  <2>4. RecordLock(q) \in Missing(u)
    BY <1>8, <2>2, <2>3
  <2>5. Before(RowLock(q), RecordLock(q))
    BY <1>0, <2>2, <2>4 DEF Orderly, Outset
  <2> QED BY <2>5, LockClasses DEF Before
<1>10. Stage(u) \in {"facts", "end"} /\ Chosen(u)
  <2>1. Stage(u) \notin {"activate", "commit"}
    BY <1>8 DEF Needs
  <2> QED BY <1>6, <1>8, <1>9, <2>1 DEF Has, Manual, Chosen
<1>11. Missing(u) = FactsLocks(u) \ Held(u)
  BY <1>8, <1>10 DEF Needs
<1>12. rows[q].cycle \in keys[u] /\ rows[q].cycle \in Cycle
  BY <1>0, <1>6, <1>10, Targets
<1>13. CycleLock(rows[q].cycle) \in Missing(u) /\ CycleLock(rows[q].cycle).class = 2
  BY <1>0, <1>7, <1>11, <1>12, LockClasses DEF FactsLocks, CycleLocks, Held
<1>14. NextLock(u).class <= 2
  <2>1. NextLock(u) = CycleLock(rows[q].cycle) \/ Before(NextLock(u), CycleLock(rows[q].cycle))
    BY <1>8, <1>13
  <2>2. NextLock(u).class \in Nat
    BY <1>8, LockShape
  <2> QED BY <1>13, <2>1, <2>2 DEF Before
<1>15. \A l \in FactsLocks(u) : l.class \in {2, 3}
  BY <1>0, LockClasses DEF FactsLocks, CycleLocks, RowLocks, CycleRows, Members
<1>16. NextLock(u).class = 2
  BY <1>8, <1>11, <1>14, <1>15
<1>17. owner[RowLock(q)] = u
  BY <1>0, <1>2
<1> QED BY <1>6, <1>16, <1>17 DEF OutOfOrder, Manual

(* A session that is not out of order waits for a lock above those it has. *)
LEMMA HeldBelow ==
  ASSUME LockInv, NEW u \in Txn, Missing(u) # {}, ~OutOfOrder(u),
         NextLock(u).class = 3 => Stage(u) = "anchor", NEW l \in Held(u)
  PROVE  Before(l, NextLock(u))
<1> DEFINE n == NextLock(u)
<1>0. /\ IInv /\ Local(u) /\ Orderly(u) /\ op[u].recs \subseteq Rec /\ keys[u] \subseteq Cycle
      /\ l \in Lock /\ owner[l] = u
  BY DEF LockInv, IInv, Local, Running, Proper, Held
<1>1. /\ Missing(u) = Needs(u, Stage(u)) \ Held(u) /\ Missing(u) \subseteq Lock /\ n \in Missing(u)
      /\ Stage(u) # "none"
  BY <1>0, NextIs
<1>2. l # n /\ n \in Lock /\ n \in Needs(u, Stage(u)) /\ n \notin Held(u)
  BY <1>1
<1>3. l.class \in 1 .. 5 /\ n.class \in 1 .. 5
  BY <1>0, <1>2, LockShape
<1>4. CASE Stage(u) \in {"read", "anchor"}
  BY <1>0, <1>1, <1>4 DEF Orderly, Outset
<1>5. CASE n.class = 5
  <2>1. n = MonthLock /\ l.class # 5
    BY <1>0, <1>2, <1>5, LockShape
  <2> QED BY <1>3, <1>5, <2>1 DEF Before
<1>6. CASE n.class = 4
  <2>1. n = HashLock
    BY <1>2, <1>6, LockShape
  <2>2. l # MonthLock
    BY <1>0, <2>1 DEF OutOfOrder
  <2>3. l.class # 5 /\ l.class # 4
    BY <1>0, <1>2, <2>1, <2>2, LockShape
  <2> QED BY <1>3, <1>6, <2>3 DEF Before
<1>7. CASE n.class \in {1, 2} /\ Stage(u) \notin {"read", "anchor"}
  <2>1. Chosen(u)
    BY <1>1, <1>7 DEF Chosen
  <2>2. n \in CycleLocks(u)
    <3>1. Needs(u, Stage(u)) \subseteq CycleLocks(u) \cup RowLocks(op[u].recs \cup Found(u) \cup CycleRows(u))
                                         \cup HashLocks(u) \cup {MonthLock}
      BY <1>7 DEF Needs, FactsLocks, RowLocks
    <3>2. \A k \in RowLocks(op[u].recs \cup Found(u) \cup CycleRows(u)) : k.class = 3
      <4>1. op[u].recs \cup Found(u) \cup CycleRows(u) \subseteq Rec
        BY <1>0 DEF Found, CycleRows, Members
      <4> QED BY <4>1, LockClasses DEF RowLocks
    <3>3. \A k \in HashLocks(u) \cup {MonthLock} : k.class \in {4, 5}
      BY LockClasses DEF HashLocks
    <3>4. n.class # 3 /\ n.class # 4 /\ n.class # 5
      BY <1>7
    <3> HIDE DEF n
    <3> QED BY <1>2, <3>1, <3>2, <3>3, <3>4
  <2>3. n.class = 2
    BY <1>0, <2>2, LockClasses DEF CycleLocks
  <2>4. op[u].kind \notin Manual
    <3> SUFFICES ASSUME op[u].kind \in Manual PROVE FALSE
      OBVIOUS
    <3>1. Target(u) \in Rec /\ op[u].recs = {Target(u)}
      BY <1>0, TargetIs
    <3>2. owner[RowLock(Target(u))] = u
      BY <1>0, <2>1, <3>1 DEF Orderly, Anchored
    <3> QED BY <2>3, <3>1, <3>2 DEF OutOfOrder, Manual
  <2> QED BY <1>0, <1>2, <2>1, <2>2, <2>4 DEF Orderly, Gathering
<1> QED BY <1>3, <1>4, <1>5, <1>6, <1>7

(* Sessions wait for each other in a circle only if one of them is a manual*)
(* settlement that holds its row and waits for its cycle (FOR UPDATE before*)
(* lockCollectionSettlementCycles), or a create that holds its month and   *)
(* waits for its receipt's hash.                                           *)
THEOREM DeadlocksAreKnown == Spec => []OnlyKnownDeadlocks
<1>1. LockInv => OnlyKnownDeadlocks
  <2> SUFFICES ASSUME LockInv, NEW T \in SUBSET Txn, Stuck(T), \A t \in T : ~OutOfOrder(t)
               PROVE  FALSE
    BY DEF OnlyKnownDeadlocks
  <2> DEFINE Above(t) == {w \in T : Before(NextLock(t), NextLock(w))}
             N == {Cardinality(Above(t)) : t \in T}
  <2>1. \A t \in T : \E u \in T : Blocks(u, t)
    BY DEF Stuck
  <2>2. \A t \in T : Missing(t) # {}
    BY <2>1 DEF Blocks
  <2>3. \A t \in T : NextLock(t) \in Lock
    BY <2>2, NextIs DEF LockInv
  <2>4. \A t \in T : NextLock(t).class = 3 => Stage(t) = "anchor"
    BY <2>1, <2>2, RowBlocked
  <2>5. ASSUME NEW t \in T, NEW u \in T, Blocks(u, t)
        PROVE  Before(NextLock(t), NextLock(u))
    <3>1. NextLock(t) \in Held(u)
      BY <2>3, <2>5 DEF Blocks, Held
    <3> QED BY <2>2, <2>4, <3>1, HeldBelow
  <2>6. IsFiniteSet(T)
    BY SettlementAssumption, FS_Subset
  <2>7. \A t \in T : IsFiniteSet(Above(t)) /\ Cardinality(Above(t)) \in Nat
    BY <2>6, FS_Subset, FS_CardinalityType
  <2>8. N \in SUBSET Nat /\ N # {}
    BY <2>7 DEF Stuck
  <2>9. PICK n \in N : \A m \in N : n <= m
    BY <2>8, LeastNat
  <2>10. PICK t \in T : n = Cardinality(Above(t))
    BY <2>9
  <2>11. PICK u \in T : Blocks(u, t)
    BY <2>1
  <2>12. u \in Above(t) /\ u \notin Above(u)
    BY <2>3, <2>5, <2>11, LockOrder
  <2>13. Above(u) \subseteq Above(t)
    BY <2>3, <2>5, <2>11, LockOrder
  <2>14. Cardinality(Above(u)) <= Cardinality(Above(t)) /\ Cardinality(Above(u)) # Cardinality(Above(t))
    BY <2>7, <2>12, <2>13, FS_Subset
  <2>15. Cardinality(Above(t)) <= Cardinality(Above(u))
    BY <2>9, <2>10
  <2>16. Cardinality(Above(t)) \in Nat /\ Cardinality(Above(u)) \in Nat
    BY <2>7
  <2> HIDE DEF Above
  <2> QED BY <2>14, <2>15, <2>16
<1> QED BY <1>1, LocksInOrder, PTL
=============================================================================
