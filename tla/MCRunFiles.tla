----------------------------- MODULE MCRunFiles -----------------------------
(* Instances of RunFiles for TLC.                                          *)
EXTENDS RunFiles, TLC

CONSTANTS t1, t2, h1, h2, j1, j2, r1, r2, q1, q2, d1, f1

(* Two jobs of the same database keep their archives in one directory.     *)
SharedDir == [j \in Jobs |-> d1]

RunSymmetry == Permutations(Runs) \cup Permutations(Requests)
=============================================================================
