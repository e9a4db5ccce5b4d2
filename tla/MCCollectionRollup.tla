------------------------- MODULE MCCollectionRollup -------------------------
(* Bounds for TLC: two slices of one collector's month and one slice of    *)
(* another key, so that day, month and cross-key interference can occur.   *)
EXTENDS CollectionRollup, TLC

MCKeyOf == [s \in Slice |-> IF s = "d3" THEN 2 ELSE 1]
Sessions == Permutations(Txn)
MCRepairScopes == {{"d1", "d2"}}
=============================================================================
