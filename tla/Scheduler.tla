----------------------------- MODULE Scheduler -----------------------------
(***************************************************************************)
(* The scheduler (scheduler.rs): its entries are a copy, in memory, of the *)
(* enabled rows of backup_jobs.  A request that has written a row calls    *)
(* reload(), which holds a mutex, removes every entry it knows of, reads   *)
(* the table and adds an entry for each row; main() calls it once before   *)
(* the server listens.  One action is one statement of SQLite or one call  *)
(* of the cron library (external).                                         *)
(***************************************************************************)
EXTENDS Naturals, Sequences, FiniteSets, Functions

CONSTANTS
    Jobs,        \* ids of backup_jobs rows
    Requests,    \* requests the server handles at the same time
    Main,        \* main(), which calls reload() too
    MaxVersion,  \* bound: writes to each row
    MaxBreaks,   \* bound: calls of the cron library that are left unfinished
    BadCrons,    \* jobs whose schedule may be one the cron library refuses
    Faults,      \* SQLite and the cron library may fail
    Cancels,     \* clients may go away: axum then drops the handler
    Crashes      \* the process may stop and be started again

Nobody   == "nobody"
Callers  == Requests \cup {Main}

ASSUME ConstantsAssumption ==
    /\ Main \notin Requests
    /\ Nobody \notin Callers
    /\ MaxVersion \in [Jobs -> Nat]
    /\ MaxBreaks \in Nat
    /\ BadCrons \subseteq Jobs
    /\ {Faults, Cancels, Crashes} \subseteq BOOLEAN

States   == {"new", "enabled", "disabled", "deleted"}
NoId     == 0
Nothing  == [job |-> Nobody, ver |-> 0]

VARIABLES
    rows,           \* backup_jobs; ver counts the writes of a row
    created,        \* ids in the order of created_at
    entries,        \* what the cron library fires
    additions,      \* entries the library was asked to add
    removals,       \* ids of the entries it was asked to remove
    scheduledJobs,  \* BackupScheduler.scheduled_jobs: ids of entries
    started,        \* the cron library runs
    lock,           \* who holds the mutex of scheduled_jobs
    up,             \* the server listens
    pc,             \* where a caller of reload() is
    written,        \* the row the request has written, and its version
    todo,           \* the rows a reload has still to add
    id,             \* scheduled_job_id: the entry whose call is awaited
    stale,          \* history: a caller left between its write and the end of
                    \* its reload, and the table was not listed since
    breaks          \* history: calls of the library that were left unfinished

tableVars == << rows, created >>
cronVars  == << entries, additions, removals, scheduledJobs, started >>
callVars  == << todo, id >>
history   == << stale, breaks >>
vars      == << tableVars, cronVars, lock, up, pc, written, callVars, history >>

(* An answer that reports an error leaves no trace.                        *)
Resting == {"idle", "ok"}
PCs     == Resting \cup {"reread", "lock", "removing", "list", "add",
                         "adding", "exited"}

Rows == [ver : Nat, state : States, valid : BOOLEAN]

(* lost is history: n when the n-th call that was left unfinished made the *)
(* program lose sight of the entry, 0 when it has not.                     *)
Entries == [id : Nat, job : Jobs, ver : Nat, lost : Nat]

Scheduled(j) == rows[j].state = "enabled"

-----------------------------------------------------------------------------
Init ==
    /\ rows = [j \in Jobs |-> [ver |-> 0, state |-> "new", valid |-> TRUE]]
    /\ created = << >>
    /\ entries = {} /\ additions = {} /\ removals = {}
    /\ scheduledJobs = << >>
    /\ started = FALSE
    /\ lock = Nobody
    /\ up = FALSE
    /\ pc = [c \in Callers |-> IF c = Main THEN "lock" ELSE "idle"]
    /\ written = [c \in Callers |-> Nothing]
    /\ todo = [c \in Callers |-> {}]
    /\ id = [c \in Callers |-> NoId]
    /\ stale = FALSE
    /\ breaks = 0

GoTo(c, to) == pc' = [pc EXCEPT ![c] = to]

(* One INSERT, UPDATE or DELETE on backup_jobs.  The schedule is not       *)
(* looked at (UpsertBackupJob::normalized only trims it); that of a row    *)
(* that is not enabled never is.                                           *)
Write(q, j, state, valid, next) ==
    /\ up
    /\ pc[q] \in Resting
    /\ rows[j].ver < MaxVersion[j]
    /\ valid \/ (j \in BadCrons /\ state = "enabled")
    /\ rows' = [rows EXCEPT ![j] =
                   [ver |-> rows[j].ver + 1, state |-> state, valid |-> valid]]
    /\ written' = [written EXCEPT ![q] = [job |-> j, ver |-> rows[j].ver + 1]]
    /\ GoTo(q, next)
    /\ UNCHANGED << cronVars, lock, up, callVars, history >>

CreateJob(q, j, state, valid) ==
    /\ rows[j].state = "new"
    /\ created' = Append(created, j)
    /\ Write(q, j, state, valid, "lock")

(* Mutant: a job that is disabled needs no reload.                         *)
UpdateJobLazily(q, j, state, valid) ==
    /\ rows[j].state \in {"enabled", "disabled"}
    /\ Write(q, j, state, valid, IF state = "enabled" THEN "reread" ELSE "ok")
    /\ UNCHANGED created

UpdateJob(q, j, state, valid) ==
    /\ rows[j].state \in {"enabled", "disabled"}
    /\ Write(q, j, state, valid, "reread")
    /\ UNCHANGED created

DeleteJob(q, j) ==
    /\ rows[j].state \in {"enabled", "disabled"}
    /\ Write(q, j, "deleted", TRUE, "lock")
    /\ UNCHANGED created

(* Mutant: the mutex is given back by hand, at the end of reload() only.   *)
UnlockNothing(c) == lock' = lock

(* The guard of the mutex is dropped.                                      *)
Unlock(c) == lock' = IF lock = c THEN Nobody ELSE lock

(* The ids that are forgotten when reload() is left where it is.  Leaving  *)
(* remove() drops the unfinished drain(..) with the ids it has not come    *)
(* to; leaving add() drops the id that was to be pushed.                   *)
Forgotten(c) ==
    CASE pc[c] = "removing" -> {id[c]} \cup Range(scheduledJobs)
      [] pc[c] = "adding"   -> {id[c]}
      [] OTHER              -> {}

(* Their entries go on firing, and nobody can remove them.                 *)
Lose(ids) ==
    LET lost(es) ==
            {IF e.id \in ids THEN [e EXCEPT !.lost = breaks + 1] ELSE e : e \in es}
    IN  /\ ids = {} \/ breaks < MaxBreaks
        /\ entries' = lost(entries)
        /\ additions' = lost(additions)
        /\ breaks' = IF ids = {} THEN breaks ELSE breaks + 1

(* A caller leaves reload(), or the handler before it, by an error or      *)
(* because the handler is dropped.  A call of the library that is left     *)
(* unfinished is carried out now, later or never.                          *)
Leave(c, to) ==
    /\ Unlock(c)
    /\ Lose(Forgotten(c))
    /\ scheduledJobs' = IF pc[c] = "removing" THEN << >> ELSE scheduledJobs
    /\ GoTo(c, to)
    /\ written' = [written EXCEPT ![c] = Nothing]
    /\ todo' = [todo EXCEPT ![c] = {}]
    /\ id' = [id EXCEPT ![c] = NoId]
    /\ stale' = TRUE
    /\ UNCHANGED << tableVars, removals, started, up >>

(* update_backup_job reads the row again; if it is gone by then, the       *)
(* request ends without a reload.                                          *)
RereadJob(q) ==
    /\ pc[q] = "reread"
    /\ \/ /\ rows[written[q].job].state # "deleted"
          /\ GoTo(q, "lock")
          /\ UNCHANGED << tableVars, cronVars, lock, up, written, callVars, history >>
       \/ /\ rows[written[q].job].state = "deleted"
          /\ GoTo(q, "idle")
          /\ written' = [written EXCEPT ![q] = Nothing]
          /\ UNCHANGED << tableVars, cronVars, lock, up, callVars, history >>
       \/ Faults /\ Leave(q, "idle")

-----------------------------------------------------------------------------
(* reload().  The mutex is held until the caller returns.                  *)

(* An error: main() returns it and the process ends; a request answers it. *)
Fail(c) == Leave(c, IF c = Main THEN "exited" ELSE "idle")

(* The next turn of scheduled_jobs.drain(..): a call of remove(), or the   *)
(* end of the loop.                                                        *)
Drain(c) ==
    \/ /\ scheduledJobs = << >>
       /\ id' = [id EXCEPT ![c] = NoId]
       /\ GoTo(c, "list")
       /\ UNCHANGED << scheduledJobs, removals >>
    \/ /\ scheduledJobs # << >>
       /\ scheduledJobs' = Tail(scheduledJobs)
       /\ removals' = removals \cup {Head(scheduledJobs)}
       /\ id' = [id EXCEPT ![c] = Head(scheduledJobs)]
       /\ GoTo(c, "removing")

(* Mutant: reload() without the mutex.                                     *)
LockNothing(c) ==
    /\ pc[c] = "lock"
    /\ Drain(c)
    /\ UNCHANGED << tableVars, entries, additions, started, lock, up, written,
                    todo, history >>

Lock(c) ==
    /\ pc[c] = "lock"
    /\ lock = Nobody
    /\ lock' = c
    /\ Drain(c)
    /\ UNCHANGED << tableVars, entries, additions, started, up, written, todo,
                    history >>

(* remove() answers.                                                       *)
Removed(c) ==
    /\ pc[c] = "removing"
    /\ \/ /\ \A e \in entries : e.id # id[c]
          /\ Drain(c)
          /\ UNCHANGED << tableVars, entries, additions, started, lock, up,
                          written, todo, history >>
       \/ Faults /\ Fail(c)

(* The rows a query returns, with their place in the order of created_at.  *)
RowsAt(is) ==
    {[at |-> i, job |-> created[i], ver |-> rows[created[i]].ver,
      valid |-> rows[created[i]].valid] : i \in is}

(* Mutant: the query has no "WHERE enabled = 1".                           *)
AllJobs == RowsAt(DOMAIN created)

EnabledJobs == RowsAt({i \in DOMAIN created : Scheduled(created[i])})

List(c) ==
    /\ pc[c] = "list"
    /\ \/ /\ todo' = [todo EXCEPT ![c] = EnabledJobs]
          /\ GoTo(c, "add")
          /\ stale' = FALSE
          /\ UNCHANGED << tableVars, cronVars, lock, up, written, id, breaks >>
       \/ Faults /\ Fail(c)

(* The library gives each entry an id of its own.                          *)
UsedIds == {e.id : e \in entries \cup additions} \cup removals
FreshId == CHOOSE i \in 1 .. Cardinality(UsedIds) + 1 : i \notin UsedIds

(* ORDER BY created_at DESC.                                               *)
IsNext(row, c) ==
    /\ row \in todo[c]
    /\ \A other \in todo[c] : other.at <= row.at

(* Job::new_async and the call of add() for the next row.  A schedule that *)
(* is refused ends the reload: the rows after it, the older ones, get no   *)
(* entry.                                                                  *)
Add(c) ==
    /\ pc[c] = "add"
    /\ \E row \in todo[c] :
          /\ IsNext(row, c)
          /\ \/ /\ row.valid
                /\ additions' = additions \cup
                      {[id |-> FreshId, job |-> row.job, ver |-> row.ver, lost |-> 0]}
                /\ id' = [id EXCEPT ![c] = FreshId]
                /\ todo' = [todo EXCEPT ![c] = @ \ {row}]
                /\ GoTo(c, "adding")
                /\ UNCHANGED << tableVars, entries, removals, scheduledJobs,
                                started, lock, up, written, history >>
             \/ ~row.valid /\ Fail(c)

(* Mutant: the id of the job is kept for the id of the entry.              *)
AddedKeepsJobId(c) ==
    /\ pc[c] = "adding"
    /\ \E e \in entries :
          /\ e.id = id[c]
          /\ scheduledJobs' = Append(scheduledJobs, e.job)
    /\ GoTo(c, "add")
    /\ id' = [id EXCEPT ![c] = NoId]
    /\ UNCHANGED << tableVars, entries, additions, removals, started, lock, up,
                    written, todo, history >>

(* add() answers, and the id is pushed.                                    *)
Added(c) ==
    /\ pc[c] = "adding"
    /\ \/ /\ \E e \in entries : e.id = id[c]
          /\ scheduledJobs' = Append(scheduledJobs, id[c])
          /\ GoTo(c, "add")
          /\ id' = [id EXCEPT ![c] = NoId]
          /\ UNCHANGED << tableVars, entries, additions, removals, started, lock,
                          up, written, todo, history >>
       \/ Faults /\ Fail(c)

(* start(), the first time; then the caller returns.                       *)
Start(c) ==
    /\ pc[c] = "add"
    /\ todo[c] = {}
    /\ \/ /\ started' = TRUE
          /\ lock' = Nobody
          /\ GoTo(c, "ok")
          /\ up' = (up \/ c = Main)
          /\ UNCHANGED << tableVars, entries, additions, removals, scheduledJobs,
                          written, callVars, history >>
       \/ Faults /\ ~started /\ Fail(c)

(* The library's own task takes a call it was sent, in any order: each was *)
(* sent by a task of its own.                                              *)
CarryOut ==
    /\ \/ \E e \in additions :
             /\ entries' = entries \cup {e}
             /\ additions' = additions \ {e}
             /\ UNCHANGED removals
       \/ \E i \in removals :
             /\ entries' = {e \in entries : e.id # i}
             /\ removals' = removals \ {i}
             /\ UNCHANGED additions
    /\ UNCHANGED << tableVars, scheduledJobs, started, lock, up, pc, written,
                    callVars, history >>

-----------------------------------------------------------------------------
(* The handler is dropped at the await it is at.                           *)
Cancel(q) ==
    /\ Cancels
    /\ pc[q] \in {"reread", "lock", "removing", "list", "adding"}
    /\ Leave(q, "idle")

(* The process stops and is started again; so it is when main() has ended  *)
(* with an error.                                                          *)
Restart ==
    /\ Crashes \/ pc[Main] = "exited"
    /\ entries' = {} /\ additions' = {} /\ removals' = {}
    /\ scheduledJobs' = << >>
    /\ started' = FALSE
    /\ lock' = Nobody
    /\ up' = FALSE
    /\ pc' = [c \in Callers |-> IF c = Main THEN "lock" ELSE "idle"]
    /\ todo' = [c \in Callers |-> {}]
    /\ id' = [c \in Callers |-> NoId]
    /\ written' = [c \in Callers |-> Nothing]
    /\ breaks' = 0
    /\ UNCHANGED << tableVars, stale >>

Reload(c) ==
    Lock(c) \/ Removed(c) \/ List(c) \/ Add(c) \/ Added(c) \/ Start(c)

Request(q) ==
    \E j \in Jobs :
        \/ \E state \in {"enabled", "disabled"}, valid \in BOOLEAN :
              CreateJob(q, j, state, valid) \/ UpdateJob(q, j, state, valid)
        \/ DeleteJob(q, j)

Next ==
    \/ \E q \in Requests : Request(q) \/ RereadJob(q) \/ Cancel(q)
    \/ \E c \in Callers : Reload(c)
    \/ CarryOut
    \/ Restart

Spec == Init /\ [][Next]_vars

(* Every handler is polled, tokio's mutex is handed over first come first  *)
(* served, and the cron library's task goes on.                            *)
Fairness ==
    /\ \A q \in Requests :
          WF_vars(RereadJob(q) \/ Reload(q)) /\ SF_vars(Lock(q))
    /\ WF_vars(CarryOut)

FairSpec == Spec /\ Fairness

-----------------------------------------------------------------------------
(* Every variable has its type.                                            *)
TypeOK ==
    /\ rows \in [Jobs -> Rows]
    /\ created \in Seq(Jobs)
    /\ entries \subseteq Entries
    /\ additions \subseteq Entries
    /\ removals \subseteq Nat
    /\ scheduledJobs \in Seq(Nat)
    /\ started \in BOOLEAN
    /\ lock \in Callers \cup {Nobody}
    /\ up \in BOOLEAN
    /\ pc \in [Callers -> PCs]
    /\ written \in [Callers -> [job : Jobs \cup {Nobody}, ver : Nat]]
    /\ todo \in [Callers -> SUBSET [at : Nat, job : Jobs, ver : Nat, valid : BOOLEAN]]
    /\ id \in [Callers -> Nat]
    /\ stale \in BOOLEAN
    /\ breaks \in Nat

(* The entries the program has not lost sight of.                          *)
Kept == {e \in entries : e.lost = 0}

(* How often one job fires at a time of its schedule: once for the entry   *)
(* the program knows of, and once more for each call of the library that   *)
(* an error or a dropped handler left unfinished, at most.  Whatever       *)
(* reloads run at the same time, without such a call every job fires once. *)
ScheduledOnce ==
    \A d, e \in entries : d.job = e.job /\ d.lost = e.lost => d = e

(* When nobody is between the write of a row and the end of the reload     *)
(* after it, the entries are the enabled rows, as they were last written,  *)
(* and the cron library runs.  What a reload that failed or was dropped    *)
(* left undone, the next reload that gets to the end makes good, but for   *)
(* the entries the program has lost sight of: these it cannot remove.      *)
Quiet == up /\ \A c \in Callers : pc[c] \in Resting

InSync ==
    Quiet /\ ~stale =>
        /\ started
        /\ {<< e.job, e.ver >> : e \in Kept} =
              {<< j, rows[j].ver >> : j \in {i \in Jobs : Scheduled(i)}}

(* A change that was answered with success is in effect: no entry that the *)
(* program knows of fires by an older schedule of the job, even while      *)
(* others reload or fail to.  An entry it has lost sight of does: it       *)
(* outlives every later change of its job, the deletion too.               *)
AnsweredIsEffective ==
    \A q \in Requests :
        pc[q] = "ok" => \A e \in Kept :
            e.job = written[q].job => e.ver >= written[q].ver

(* Each request that waits for the mutex gets its turn and an end, however *)
(* the reloads before it ended.  (main() has no rival for the mutex.)      *)
ReloadsEnd == \A q \in Requests : pc[q] = "lock" ~> pc[q] \in Resting

=============================================================================
