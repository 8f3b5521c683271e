--------------------------- MODULE MCRunConsole ----------------------------
(* Instances of RunConsole for TLC.                                        *)
EXTENDS RunConsole

CONSTANTS r1, r2

MCRuns == {r1, r2}
=============================================================================
