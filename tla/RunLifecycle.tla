---------------------------- MODULE RunLifecycle ----------------------------
(***************************************************************************)
(* What the executor promises about runs, as its users see it: the         *)
(* backup_runs row goes Pending, Running, Success or Failed and then never *)
(* changes; at most one run of a job is at work at any time; a run is      *)
(* turned away only when another run of its job is at work.                *)
(***************************************************************************)
CONSTANTS Jobs, Runs, NoJob

VARIABLES
    job,      \* the job a run was triggered for
    status,   \* what the run list shows
    phase     \* where the run is, apart from what is shown

lifeVars == << job, status, phase >>

Init ==
    /\ job = [r \in Runs |-> NoJob]
    /\ status = [r \in Runs |-> "none"]
    /\ phase = [r \in Runs |-> "unborn"]

Owner(r) == \E q \in Runs : job[q] = job[r] /\ phase[q] = "atWork"

Submit(r, j) ==
    /\ phase[r] = "unborn"
    /\ job' = [job EXCEPT ![r] = j]
    /\ status' = [status EXCEPT ![r] = "Pending"]
    /\ phase' = [phase EXCEPT ![r] = "waiting"]

Move(r, from, to) ==
    /\ phase[r] = from
    /\ phase' = [phase EXCEPT ![r] = to]
    /\ job' = job

(* The run becomes the only one at work on its job, or is turned away.     *)
Begin(r) == ~Owner(r) /\ Move(r, "waiting", "atWork") /\ status' = status

TurnAway(r) == Owner(r) /\ Move(r, "waiting", "turnedAway") /\ status' = status

(* The job was deleted, or the client went away: nothing will be done.     *)
Drop(r) == Move(r, "waiting", "over") /\ status' = status

Show(r, from, to) ==
    /\ status[r] = from
    /\ status' = [status EXCEPT ![r] = to]

Work(r) ==
    /\ phase[r] = "atWork"
    /\ \/ Show(r, "Pending", "Running")
       \/ Show(r, "Running", "Success")
       \/ Show(r, "Running", "Failed")
    /\ UNCHANGED << job, phase >>

Leave(r) ==
    /\ status[r] \in {"Success", "Failed"}
    /\ Move(r, "atWork", "over")
    /\ status' = status

ShowTurnedAway(r) == Move(r, "turnedAway", "over") /\ Show(r, "Pending", "Failed")

(* The process stops: no run that had begun goes on.                       *)
Interrupt ==
    /\ phase' = [r \in Runs |->
                    IF phase[r] = "unborn" THEN "unborn" ELSE "over"]
    /\ UNCHANGED << job, status >>

Next ==
    \/ \E r \in Runs : \/ \E j \in Jobs : Submit(r, j)
                       \/ Begin(r) \/ TurnAway(r) \/ Drop(r)
                       \/ Work(r) \/ Leave(r) \/ ShowTurnedAway(r)
    \/ Interrupt

Spec == Init /\ [][Next]_lifeVars
=============================================================================
