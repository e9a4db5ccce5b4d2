-------------------------- MODULE MCClusterMaster --------------------------
(* Bounds for TLC: three workers known at one time, of which two may be    *)
(* alive.                                                                  *)
EXTENDS ClusterMaster, TLC

Symmetry == Permutations(Worker)
=============================================================================
