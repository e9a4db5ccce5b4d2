------------------------- MODULE MCSettlementCycle -------------------------
(* Bounds for TLC: two sessions, two records and two cycles.               *)
EXTENDS SettlementCycle, TLC

Sessions == Permutations(Txn)
=============================================================================
