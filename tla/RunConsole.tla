---------------------------- MODULE RunConsole -----------------------------
(***************************************************************************)
(* How the page (App.tsx) follows a run: it starts one, polls the last     *)
(* started until it is closed, and shows the logs of the one selected.     *)
(* Polls, log requests and the refresh after a POST are under way at the   *)
(* same time; their answers are applied in the order they come in, to      *)
(* whatever the page shows by then.  The server lists the last runs only.  *)
(* Of a list, what the page does next depends on is kept: the status of    *)
(* the run that is waited for.                                             *)
(***************************************************************************)
EXTENDS Naturals, Sequences

CONSTANTS
    Runs,   \* ids of runs
    Limit,  \* how many runs list_runs returns (100 in the code)
    None    \* no run, no answer

ASSUME ConstantsAssumption ==
    /\ None \notin Runs
    /\ Limit \in Nat \ {0}

VARIABLES
    run,        \* server: "none", "open" (Pending, Running) or "closed"
    created,    \* server: the runs in the order they were created
    loggedIn,   \* page: it has a token
    active,     \* page: activeRunId, the run that is polled
    selected,   \* page: selectedRunId
    shown,      \* page: the run whose logs runLogs holds, None if empty
    url,        \* page: runId of the address /runs?runId=
    posting,    \* the run a POST has created and not answered
    poll,       \* "off", "timer", "asked" or "answered"
    polled,     \* the status of the active run in that answer
    refreshes,  \* refreshes after a POST: its run, and the run's status
    loads,      \* log requests under way
    unloaded,   \* history: no logs have come since a run was selected
    overtaken   \* history: logs of another run have come since then

server  == << run, created >>
viewer  == << selected, shown, loads, unloaded, overtaken >>
poller  == << poll, polled >>
vars    == << server, viewer, loggedIn, active, url, posting, poller, refreshes >>

(* list_runs: ORDER BY created_at DESC LIMIT.                              *)
Listed == {created[i] : i \in {j \in DOMAIN created : j > Len(created) - Limit}}
StatusInList(r) == IF r \in Listed THEN run[r] ELSE "none"

-----------------------------------------------------------------------------
Init ==
    /\ run = [r \in Runs |-> "none"]
    /\ created = << >>
    /\ loggedIn = TRUE
    /\ active = None
    /\ selected = None
    /\ shown = None
    /\ url = None
    /\ posting = None
    /\ poll = "off"
    /\ polled = None
    /\ refreshes = {}
    /\ loads = {}
    /\ unloaded = FALSE
    /\ overtaken = FALSE

(* What the server does: a run is created, by a POST or by its schedule,   *)
(* and closed.                                                             *)
Create(r) ==
    /\ run[r] = "none"
    /\ run' = [run EXCEPT ![r] = "open"]
    /\ created' = Append(created, r)

ScheduleRun(r) ==
    /\ Create(r)
    /\ UNCHANGED << viewer, loggedIn, active, url, posting, poller, refreshes >>

CloseRun(r) ==
    /\ run[r] = "open"
    /\ run' = [run EXCEPT ![r] = "closed"]
    /\ UNCHANGED << created, viewer, loggedIn, active, url, posting, poller, refreshes >>

-----------------------------------------------------------------------------
(* The viewer of logs.                                                     *)

(* On /runs?runId= an effect selects the run of that address again, and    *)
(* loads its logs, whenever another one has been selected.                 *)
Addressed(r) == IF loggedIn /\ url # None THEN url ELSE r

(* loadRunLogs: the run is selected at once, its logs come later; what the *)
(* viewer holds stays until then.                                          *)
Load(r, s) ==
    /\ selected' = s
    /\ loads' = loads \cup {r, s}
    /\ unloaded' = TRUE
    /\ overtaken' = FALSE
    /\ UNCHANGED shown

OpenLogs(r) ==
    /\ loggedIn /\ run[r] # "none"
    /\ Load(r, Addressed(r))
    /\ UNCHANGED << server, loggedIn, active, url, posting, poller, refreshes >>

(* viewRun: from the dashboard or the jobs.                                *)
ViewRun(r) ==
    /\ loggedIn /\ run[r] # "none" /\ url = None
    /\ url' = r
    /\ Load(r, r)
    /\ UNCHANGED << server, loggedIn, active, posting, poller, refreshes >>

(* The user goes to another tab; the address has no run any more.          *)
Leave ==
    /\ url # None
    /\ url' = None
    /\ UNCHANGED << server, viewer, loggedIn, active, posting, poller, refreshes >>

(* setRunLogs: the answer is not compared with what is selected.           *)
Show(r) ==
    /\ shown' = r
    /\ overtaken' = (overtaken \/ r # selected)
    /\ unloaded' = (unloaded /\ r # selected)

LogsArrive(r) ==
    /\ r \in loads
    /\ Show(r)
    /\ loads' = loads \ {r}
    /\ UNCHANGED << server, loggedIn, active, selected, url, posting, poller, refreshes >>

(* An error is shown; the logs of the run before stay in the viewer.       *)
LogsFail(r) ==
    /\ r \in loads
    /\ loads' = loads \ {r}
    /\ UNCHANGED << server, selected, shown, unloaded, overtaken,
                    loggedIn, active, url, posting, poller, refreshes >>

-----------------------------------------------------------------------------
(* Starting a run: POST /jobs/{id}/run or /manual-uploads.                 *)
Post(r) ==
    /\ loggedIn /\ posting = None /\ url = None
    /\ Create(r)
    /\ posting' = r
    /\ UNCHANGED << viewer, loggedIn, active, url, poller, refreshes >>

(* Mutant: the viewer is not emptied for the new run.                      *)
PostAnsweredKeepsLogs(manual) ==
    /\ posting # None
    /\ active' = posting
    /\ selected' = Addressed(posting)
    /\ loads' = loads \cup ({selected'} \ {posting})
    /\ unloaded' = (selected' # posting)
    /\ overtaken' = FALSE
    /\ poll' = IF loggedIn THEN "timer" ELSE "off"
    /\ polled' = None
    /\ refreshes' = refreshes \cup
           {[for |-> posting, manual |-> manual, status |-> None]}
    /\ posting' = None
    /\ UNCHANGED << server, loggedIn, url, shown >>

(* The run becomes the active and the selected one, the viewer is empty, a  *)
(* poll of the run before is cancelled, and all is refreshed.              *)
PostAnswered(manual) ==
    /\ posting # None
    /\ active' = posting
    /\ selected' = Addressed(posting)
    /\ loads' = loads \cup ({selected'} \ {posting})
    /\ shown' = None
    /\ unloaded' = (selected' # posting)
    /\ overtaken' = FALSE
    /\ poll' = IF loggedIn THEN "timer" ELSE "off"
    /\ polled' = None
    /\ refreshes' = refreshes \cup
           {[for |-> posting, manual |-> manual, status |-> None]}
    /\ posting' = None
    /\ UNCHANGED << server, loggedIn, url >>

RefreshRead(q) ==
    /\ q \in refreshes /\ q.status = None
    /\ refreshes' = (refreshes \ {q}) \cup {[q EXCEPT !.status = StatusInList(q.for)]}
    /\ UNCHANGED << server, viewer, loggedIn, active, url, posting, poller >>

(* runJob asks for the logs of a run that was over at once, without        *)
(* selecting it; a manual upload goes to /runs?runId=, answer or error,    *)
(* and the effect of that address selects the run if it is not.            *)
GoToRun(q) ==
    /\ url' = q.for
    /\ IF loggedIn /\ selected # q.for THEN Load(q.for, q.for) ELSE UNCHANGED viewer

RefreshArrives(q) ==
    /\ q \in refreshes /\ q.status # None
    /\ refreshes' = refreshes \ {q}
    /\ IF q.manual THEN GoToRun(q)
       ELSE /\ loads' = loads \cup (IF q.status = "closed" THEN {q.for} ELSE {})
            /\ UNCHANGED << url, selected, shown, unloaded, overtaken >>
    /\ UNCHANGED << server, loggedIn, active, posting, poller >>

RefreshFails(q) ==
    /\ q \in refreshes
    /\ refreshes' = refreshes \ {q}
    /\ IF q.manual THEN GoToRun(q) ELSE UNCHANGED << url, viewer >>
    /\ UNCHANGED << server, loggedIn, active, posting, poller >>

-----------------------------------------------------------------------------
(* Polling the active run.                                                 *)
PollAsks ==
    /\ poll = "timer"
    /\ poll' = "asked"
    /\ UNCHANGED polled
    /\ UNCHANGED << server, viewer, loggedIn, active, url, posting, refreshes >>

PollRead ==
    /\ poll = "asked"
    /\ poll' = "answered"
    /\ polled' = StatusInList(active)
    /\ UNCHANGED << server, viewer, loggedIn, active, url, posting, refreshes >>

(* Mutant: a run that is not in the list is taken for closed.              *)
PollStopsUnlisted ==
    /\ poll = "answered"
    /\ polled' = None
    /\ Show(active)
    /\ poll' = IF polled = "open" THEN "timer" ELSE "off"
    /\ UNCHANGED << server, loggedIn, active, selected, loads, url, posting, refreshes >>

(* Mutant: only a run that is looked at is taken for finished.             *)
PollStopsIfSelected ==
    /\ poll = "answered"
    /\ polled' = None
    /\ Show(active)
    /\ poll' = IF polled = "closed" /\ selected = active THEN "off" ELSE "timer"
    /\ UNCHANGED << server, loggedIn, active, selected, loads, url, posting, refreshes >>

(* The list and the logs of the active run are taken over, whatever run is *)
(* selected; the poll ends if the run is in the list and closed.           *)
PollArrives ==
    /\ poll = "answered"
    /\ polled' = None
    /\ Show(active)
    /\ poll' = IF polled = "closed" THEN "off" ELSE "timer"
    /\ UNCHANGED << server, loggedIn, active, selected, loads, url, posting, refreshes >>

(* Mutant: polling ends with the first error.                              *)
PollGivesUp ==
    /\ poll = "asked"
    /\ poll' = "off"
    /\ polled' = None
    /\ UNCHANGED << server, viewer, loggedIn, active, url, posting, refreshes >>

(* An error is shown, and the next poll is set.                            *)
PollFails ==
    /\ poll = "asked"
    /\ poll' = "timer"
    /\ polled' = None
    /\ UNCHANGED << server, viewer, loggedIn, active, url, posting, refreshes >>

(* logout: the page forgets all but its address; requests go on.           *)
LogOut ==
    /\ loggedIn
    /\ loggedIn' = FALSE
    /\ active' = None
    /\ selected' = None
    /\ shown' = None
    /\ poll' = "off"
    /\ polled' = None
    /\ unloaded' = FALSE
    /\ overtaken' = FALSE
    /\ UNCHANGED << server, loads, url, posting, refreshes >>

(* The token triggers the selection of the run in the address, and the     *)
(* poll of a run whose POST was answered in between.                       *)
LogIn ==
    /\ ~loggedIn
    /\ loggedIn' = TRUE
    /\ poll' = IF active # None THEN "timer" ELSE "off"
    /\ polled' = None
    /\ IF url \notin {None, selected} THEN Load(url, url) ELSE UNCHANGED viewer
    /\ UNCHANGED << server, active, url, posting, refreshes >>

Next ==
    \/ \E r \in Runs :
           \/ ScheduleRun(r) \/ CloseRun(r) \/ Post(r)
           \/ OpenLogs(r) \/ ViewRun(r) \/ LogsArrive(r) \/ LogsFail(r)
    \/ Leave
    \/ \E manual \in BOOLEAN : PostAnswered(manual)
    \/ \E q \in refreshes : RefreshRead(q) \/ RefreshArrives(q) \/ RefreshFails(q)
    \/ PollAsks \/ PollRead \/ PollArrives \/ PollFails
    \/ LogOut \/ LogIn

(* Timers fire and answers are taken over; a poll that is tried again and  *)
(* again is answered at some time.                                         *)
Spec ==
    /\ Init /\ [][Next]_vars
    /\ WF_vars(PollAsks) /\ SF_vars(PollRead) /\ WF_vars(PollArrives)

-----------------------------------------------------------------------------
(* Properties.                                                             *)

(* The page stops polling the run it started last only when that run is    *)
(* closed in the database: not for an error, and not because the run has   *)
(* dropped out of the list.                                                *)
PollsUntilClosed ==
    loggedIn /\ active # None /\ poll = "off" => run[active] = "closed"

(* The viewer shows logs of a run that is not the selected one only while  *)
(* those of the selected one have not come (or could not be had), or after *)
(* an answer for another run has overtaken the selection.                  *)
LogsShownExplained ==
    loggedIn => shown \in {None, selected} \/ unloaded \/ overtaken

(* The end of the run started last is noticed: once it is closed, polling  *)
(* it comes to an end, unless newer runs have pushed it out of the list,   *)
(* another run is started, or the user logs out.                           *)
EndIsNoticed ==
    \A r \in Runs :
        loggedIn /\ active = r /\ run[r] = "closed"
            ~> \/ poll = "off" \/ active # r \/ ~loggedIn
               \/ r \notin Listed

-----------------------------------------------------------------------------
(* What the page takes for granted about the server's runs.                *)
History == INSTANCE RunHistory
=============================================================================
