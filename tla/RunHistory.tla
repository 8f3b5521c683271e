----------------------------- MODULE RunHistory -----------------------------
(***************************************************************************)
(* The run history as those who read it need it: a run that is there stays *)
(* there, and one that is closed is never open again.  Both executors      *)
(* write such a history, whatever statements fail and whenever the process *)
(* restarts; the page is built on it.                                      *)
(***************************************************************************)
CONSTANT Runs

VARIABLE run    \* "none", "open" (Pending, Running) or "closed"

Init == run = [r \in Runs |-> "none"]

Enter(r, from, to) ==
    /\ run[r] = from
    /\ run' = [run EXCEPT ![r] = to]

Next == \E r \in Runs : Enter(r, "none", "open") \/ Enter(r, "open", "closed")

Spec == Init /\ [][Next]_run
=============================================================================
