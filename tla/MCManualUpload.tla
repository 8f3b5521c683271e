--------------------------- MODULE MCManualUpload ---------------------------
(* Instances of ManualUpload for TLC.                                      *)
EXTENDS ManualUpload

CONSTANTS r1, r2, s1, t1
=============================================================================
