---------------------------- MODULE MCImportJobs ----------------------------
(* Bounds for TLC: a CSV file and another one, three runs in all (three    *)
(* jobs, or two of which one stalls), on two workers, and one request of   *)
(* the user at a time.                                                     *)
EXTENDS ImportJobs, TLC

Symmetry == Permutations(Job)
=============================================================================
