---------------------------- MODULE MCTempFiles ----------------------------
(* Instances of TempFiles for TLC.                                         *)
EXTENDS TempFiles, TLC

CONSTANTS t1, t2, p1, p2

MCTasks == {t1, t2}
MCPaths == {p1, p2}

(* Tasks and names are only compared for equality.  Safety runs only.      *)
TaskPathSymmetry == Permutations(MCTasks) \cup Permutations(MCPaths)
=============================================================================
