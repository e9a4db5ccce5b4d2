---------------------------- MODULE MCBackupJobs -----------------------------
(* The checks of BackupJobs; the configurations give the bounds.           *)
EXTENDS BackupJobs
=============================================================================
