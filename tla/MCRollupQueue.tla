--------------------------- MODULE MCRollupQueue ---------------------------
(* Bounds for TLC: two slices that share one month key.                    *)
EXTENDS RollupQueue
MCKeyOf == [s \in Slice |-> 1]
=============================================================================
