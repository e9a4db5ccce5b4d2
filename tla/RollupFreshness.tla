--------------------------- MODULE RollupFreshness ---------------------------
(* What the rollup refresh queue promises to the collection reports: a     *)
(* slice that is not pending has a current rollup, a published total never *)
(* goes back to an older state of the ledger, and a slice stops being      *)
(* pending only while its rollup is current.                               *)
EXTENDS Naturals

CONSTANT Slice

VARIABLES
  led,      \* number of ledger changes of each slice so far
  roll,     \* the change up to which the slice's rollup accounts
  pending   \* slices with a row in the refresh queue

Init ==
  /\ led = [s \in Slice |-> 0]
  /\ roll = [s \in Slice |-> 0]
  /\ pending = {}

(* A transaction changes the slices C and requests the refresh of S.       *)
Change(C, S) ==
  /\ C \subseteq S
  /\ led' = [s \in Slice |-> IF s \in C THEN led[s] + 1 ELSE led[s]]
  /\ pending' = pending \cup S
  /\ UNCHANGED roll

(* Totals move forward, never past the ledger.                             *)
Publish ==
  /\ roll' \in [Slice -> Nat]
  /\ \A s \in Slice : roll[s] <= roll'[s] /\ roll'[s] <= led[s]
  /\ UNCHANGED <<led, pending>>

Settle(s) ==
  /\ s \in pending
  /\ roll[s] = led[s]
  /\ pending' = pending \ {s}
  /\ UNCHANGED <<led, roll>>

Next ==
  \/ \E S \in SUBSET Slice : \E C \in SUBSET S : Change(C, S)
  \/ Publish
  \/ \E s \in Slice : Settle(s)

Spec == Init /\ [][Next]_<<led, roll, pending>>
=============================================================================
