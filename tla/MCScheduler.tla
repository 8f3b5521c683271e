---------------------------- MODULE MCScheduler ----------------------------
(* Instances of Scheduler for TLC.                                         *)
EXTENDS Scheduler, TLC

CONSTANTS j1, j2, q1, q2

(* A job is created, updated and, before that request has read it again,   *)
(* deleted by another one.                                                 *)
Writes == j1 :> 3 @@ j2 :> 1
=============================================================================
