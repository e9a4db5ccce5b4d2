-------------------------- MODULE CollectionLedger --------------------------
(***************************************************************************)
(* What CollectionRollup promises whoever saves, removes or totals         *)
(* payments: each operation is asked for, and later takes effect as a      *)
(* whole, payments and totals together, or not at all.  It does to the     *)
(* payments of that moment what was asked, and nothing else: an update     *)
(* brings no deleted payment back, a restore overwrites none, a purge      *)
(* takes expired ones only, and maintenance changes none.                  *)
(***************************************************************************)
CONSTANTS Txn, Rec, Slice, Key, KeyOf, Amount, Expired, NoRow

VARIABLES
  rec,      \* the payments
  daily,    \* their totals by slice, as the sets of payments summed
  monthly,  \* their totals by key
  asked     \* what each session was asked for and has not answered

Row == Slice \X Amount

Nothing == [kind |-> "none", ids |-> {}, row |-> NoRow]

One == {{r} : r \in Rec}
Request ==
  [kind : {"create", "delete"}, ids : One, row : {NoRow}]
    \cup [kind : {"update"}, ids : One, row : Row]
    \cup [kind : {"purge", "restore", "refresh", "rebuild", "repair"}, ids : {{}}, row : {NoRow}]

Totals ==
  /\ daily = [s \in Slice |-> {e \in Rec \X Row : rec[e[1]] = e[2] /\ e[2][1] = s}]
  /\ monthly = [k \in Key |-> {e \in Rec \X Row : \E s \in Slice : KeyOf[s] = k /\ e \in daily[s]}]

Init ==
  /\ rec = [r \in Rec |-> NoRow]
  /\ Totals
  /\ asked = [t \in Txn |-> Nothing]

Present == {r \in Rec : rec[r] # NoRow}
Overdue == {r \in Present : rec[r][1] \in Expired}
Put(S, row) == rec' = [r \in Rec |-> IF r \in S THEN row ELSE rec[r]]

Effect(q) ==
  \/ /\ q.kind = "create" /\ q.ids \cap Present = {}
     /\ \E row \in Row : Put(q.ids, row)
  \/ q.kind \in {"update", "delete"} /\ q.ids \subseteq Present /\ Put(q.ids, q.row)
  \/ q.kind = "purge" /\ \E S \in SUBSET Overdue : Put(S, NoRow)
  \/ /\ q.kind = "restore"
     /\ \E S \in SUBSET (Rec \ Present) : \E f \in [S -> Row] :
          rec' = [r \in Rec |-> IF r \in S THEN f[r] ELSE rec[r]]
  \/ q.kind \in {"refresh", "rebuild", "repair"} /\ rec' = rec

Ask(t) ==
  /\ asked[t] = Nothing
  /\ \E q \in Request : asked' = [asked EXCEPT ![t] = q]
  /\ UNCHANGED <<rec, daily, monthly>>

Perform(t) ==
  /\ Effect(asked[t])
  /\ Totals'
  /\ asked' = [asked EXCEPT ![t] = Nothing]

GiveUp(t) ==
  /\ asked[t] # Nothing
  /\ asked' = [asked EXCEPT ![t] = Nothing]
  /\ UNCHANGED <<rec, daily, monthly>>

Next == \E t \in Txn : Ask(t) \/ Perform(t) \/ GiveUp(t)

Spec == Init /\ [][Next]_<<rec, daily, monthly, asked>>
=============================================================================
