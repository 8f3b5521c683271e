--------------------------- MODULE MCConfigStore ---------------------------
(* Instances of ConfigStore for TLC.                                       *)
EXTENDS ConfigStore, TLC

CONSTANTS s1, t1, j1, q1, q2

RequestSymmetry == Permutations(Requests)
=============================================================================
