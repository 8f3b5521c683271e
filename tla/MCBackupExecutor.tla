-------------------------- MODULE MCBackupExecutor --------------------------
(* Instances of BackupExecutor for TLC.                                    *)
EXTENDS BackupExecutor, TLC

CONSTANTS j1, j2, r1, r2

OneJob    == {j1}
TwoJobs   == {j1, j2}
TwoRuns   == {r1, r2}

(* Runs and jobs are only compared for equality.  Safety runs only.        *)
RunJobSymmetry == Permutations(Runs) \cup Permutations(Jobs)
=============================================================================
