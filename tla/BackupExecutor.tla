--------------------------- MODULE BackupExecutor ---------------------------
(***************************************************************************)
(* The backup executor (executor.rs) over the tables it writes             *)
(* (repository.rs).  A trigger - the scheduler's callback or POST          *)
(* /jobs/{id}/run - creates a row of backup_runs and spawns a tokio task   *)
(* that claims the job in the in-memory set `running_jobs', walks the      *)
(* stages of the backup, closes the row and releases the job.  Tasks       *)
(* interleave at every await: one action is one statement of SQLite, one   *)
(* critical section of the mutex or one stage body.                        *)
(***************************************************************************)
EXTENDS Naturals, Sequences

CONSTANTS
    Jobs,        \* ids of backup_jobs rows (UUIDs, never reused)
    Runs,        \* ids of backup_runs rows, one task each
    NoJob,       \* a run that has not been triggered yet
    DbFaults,    \* SQLite statements may fail (disk full, busy, pool timeout)
    Panics,      \* a task may panic in truncate()
    Crashes,     \* the process may stop and be started again
    Disconnects  \* the client of POST /jobs/{id}/run may go away

ASSUME ConstantsAssumption ==
    /\ NoJob \notin Jobs
    /\ {DbFaults, Panics, Crashes, Disconnects} \subseteq BOOLEAN

(* The stages of execute_steps, in the order of its calls of stage().      *)
Stages == << "prepare", "dump", "compress", "checksum", "upload",
             "verify_remote", "local_cleanup" >>

LastStage == Len(Stages)

(* What current_stage_from_error finds in the message of an error raised   *)
(* by the body of a stage: the text after "stage=", and "failed" when the  *)
(* message has none.                                                       *)
StagesOfErrors(s) ==
    ({s} \cap {"dump", "compress", "upload", "verify_remote"})
    \cup (IF s \in {"prepare", "dump", "compress", "checksum"}
          THEN {"failed"} ELSE {})

VARIABLES
    jobs,         \* backup_jobs: "new" (not created), "stored" or "deleted"
    status,       \* backup_runs.status, "none" before the row exists
    stage,        \* backup_runs.stage
    archived,     \* backup_runs.archive_file_name, remote_path... are set
    logs,         \* backup_run_logs of each run, oldest first
    runningJobs,  \* BackupExecutor.running_jobs, in memory
    verified,     \* runs whose archive was uploaded and seen on the target
    pc,           \* where the task of a run is
    backupJob,    \* run.backup_job_id as the task holds it
    at,           \* index in Stages of the stage the task has reached
    cause         \* `stage' computed from the error in execute_inner

rowVars  == << status, stage, archived, logs >>
taskVars == << pc, backupJob, at, cause >>
vars     == << jobs, rowVars, runningJobs, verified, taskVars >>

PCs == { "idle", "creating", "inserted", "queued", "claim", "refuse",
         "update", "log", "body", "finish", "logDone",
         "logError", "fail", "release", "done",
         "unspawned", "panicked", "dead" }

(* The task is between the insert into running_jobs and the remove.        *)
HoldingPCs == { "update", "log", "body", "finish", "logDone",
                "logError", "fail", "release" }

Holding(r)  == pc[r] \in HoldingPCs
Owns(r)     == Holding(r) \/ pc[r] = "panicked"
Terminal(r) == status[r] \in {"Success", "Failed"}

JobStored(r) == backupJob[r] \in Jobs /\ jobs[backupJob[r]] = "stored"
JobGone(r)   == backupJob[r] \in Jobs /\ jobs[backupJob[r]] = "deleted"

Statuses  == {"none", "Pending", "Running", "Success", "Failed"}
RowStages == {Stages[i] : i \in 1 .. LastStage} \cup {"none", "done", "failed"}
Entries   == [level : {"INFO", "ERROR"}, stage : RowStages]

Entry(l, s) == [level |-> l, stage |-> s]

-----------------------------------------------------------------------------
Init ==
    /\ jobs = [j \in Jobs |-> "new"]
    /\ status = [r \in Runs |-> "none"]
    /\ stage = [r \in Runs |-> "none"]
    /\ archived = [r \in Runs |-> FALSE]
    /\ logs = [r \in Runs |-> << >>]
    /\ runningJobs = {}
    /\ verified = {}
    /\ pc = [r \in Runs |-> "idle"]
    /\ backupJob = [r \in Runs |-> NoJob]
    /\ at = [r \in Runs |-> 1]
    /\ cause = [r \in Runs |-> "none"]

(* POST and DELETE /jobs.  DELETE looks at nothing but the job's row.      *)
CreateJob(j) ==
    /\ jobs[j] = "new"
    /\ jobs' = [jobs EXCEPT ![j] = "stored"]
    /\ UNCHANGED << rowVars, runningJobs, verified, taskVars >>

DeleteJob(j) ==
    /\ jobs[j] = "stored"
    /\ jobs' = [jobs EXCEPT ![j] = "deleted"]
    /\ UNCHANGED << rowVars, runningJobs, verified, taskVars >>

GoTo(r, from, to) ==
    /\ pc[r] = from
    /\ pc' = [pc EXCEPT ![r] = to]

-----------------------------------------------------------------------------
(* create_run: the job is read, then its source and target, then the row   *)
(* is inserted, with no transaction around the four statements.            *)
CreateRun(r, j) ==
    /\ jobs[j] = "stored"
    /\ GoTo(r, "idle", "creating")
    /\ backupJob' = [backupJob EXCEPT ![r] = j]
    /\ UNCHANGED << jobs, rowVars, runningJobs, verified, at, cause >>

InsertRun(r) ==
    /\ GoTo(r, "creating", "inserted")
    /\ status' = [status EXCEPT ![r] = "Pending"]
    /\ stage' = [stage EXCEPT ![r] = "prepare"]
    /\ UNCHANGED << jobs, archived, logs, runningJobs, verified,
                    backupJob, at, cause >>

(* tokio::spawn, when the trigger has seen that the row is there.          *)
Spawn(r) ==
    /\ GoTo(r, "inserted", "queued")
    /\ UNCHANGED << jobs, rowVars, runningJobs, verified,
                    backupJob, at, cause >>

(* hyper drops the handler of a client that has gone, at whatever await it *)
(* is: the INSERT that SQLite's thread is at goes on without it.           *)
ClientLeaves(r) ==
    /\ Disconnects
    /\ \E from \in {"creating", "inserted"} : GoTo(r, from, "unspawned")
    /\ UNCHANGED << jobs, rowVars, runningJobs, verified,
                    backupJob, at, cause >>

(* The trigger gets an error and no row exists: a statement failed, or the *)
(* job is gone and its source or target could be deleted after it.         *)
CreateRunFails(r) ==
    /\ DbFaults \/ JobGone(r)
    /\ GoTo(r, "creating", "done")
    /\ UNCHANGED << jobs, rowVars, runningJobs, verified,
                    backupJob, at, cause >>

(* execute: the job is read again before it is claimed.  An error leaves   *)
(* execute with nothing but a trace.                                       *)
ReadJob(r) ==
    /\ JobStored(r)
    /\ GoTo(r, "queued", "claim")
    /\ UNCHANGED << jobs, rowVars, runningJobs, verified,
                    backupJob, at, cause >>

ReadJobFails(r) ==
    /\ DbFaults \/ JobGone(r)
    /\ GoTo(r, "queued", "done")
    /\ UNCHANGED << jobs, rowVars, runningJobs, verified,
                    backupJob, at, cause >>

(* Mutant: the result of insert() is ignored.                              *)
ClaimUntested(r) ==
    /\ GoTo(r, "claim", "update")
    /\ runningJobs' = runningJobs \cup {backupJob[r]}
    /\ UNCHANGED << jobs, rowVars, verified, backupJob, at, cause >>

(* running.insert(job.id) under the mutex: the test and the set are one    *)
(* step.                                                                   *)
Claim(r) ==
    /\ IF backupJob[r] \in runningJobs
       THEN GoTo(r, "claim", "refuse")
       ELSE GoTo(r, "claim", "update")
    /\ runningJobs' = runningJobs \cup {backupJob[r]}
    /\ UNCHANGED << jobs, rowVars, verified, backupJob, at, cause >>

(* Mutant: the refused task falls through to running.remove().             *)
RefuseAndRelease(r) ==
    /\ GoTo(r, "refuse", "done")
    /\ status' = [status EXCEPT ![r] = "Failed"]
    /\ stage' = [stage EXCEPT ![r] = "prepare"]
    /\ runningJobs' = runningJobs \ {backupJob[r]}
    /\ UNCHANGED << jobs, archived, logs, verified, backupJob, at, cause >>

(* Mutant: the refused task returns without closing its row.               *)
RefuseSilently(r) ==
    /\ GoTo(r, "refuse", "done")
    /\ UNCHANGED << jobs, rowVars, runningJobs, verified,
                    backupJob, at, cause >>

(* finish_run_failed(.., "prepare", "job is already running").             *)
Refuse(r) ==
    /\ GoTo(r, "refuse", "done")
    /\ \/ /\ status' = [status EXCEPT ![r] = "Failed"]
          /\ stage' = [stage EXCEPT ![r] = "prepare"]
       \/ DbFaults /\ UNCHANGED << status, stage >>
    /\ UNCHANGED << jobs, archived, logs, runningJobs, verified,
                    backupJob, at, cause >>

-----------------------------------------------------------------------------
(* execute_steps.  An error leaves it for execute_inner, which keeps only  *)
(* what current_stage_from_error makes of the message.                     *)
Raise(r, from, c) ==
    /\ GoTo(r, from, "logError")
    /\ cause' = [cause EXCEPT ![r] = c]
    /\ UNCHANGED << jobs, rowVars, runningJobs, verified, backupJob, at >>

(* stage(): update_run_stage, whatever the row holds, then add_run_log.    *)
UpdateStage(r) ==
    /\ GoTo(r, "update", "log")
    /\ status' = [status EXCEPT ![r] = "Running"]
    /\ stage' = [stage EXCEPT ![r] = Stages[at[r]]]
    /\ UNCHANGED << jobs, archived, logs, runningJobs, verified,
                    backupJob, at, cause >>

LogStage(r) ==
    /\ GoTo(r, "log", "body")
    /\ logs' = [logs EXCEPT ![r] = Append(@, Entry("INFO", Stages[at[r]]))]
    /\ UNCHANGED << jobs, status, stage, archived, runningJobs, verified,
                    backupJob, at, cause >>

(* Mutant: local_cleanup is not known to be the last stage.                *)
BodyPastEnd(r) ==
    /\ GoTo(r, "body", "update")
    /\ at' = [at EXCEPT ![r] = @ + 1]
    /\ UNCHANGED << jobs, rowVars, runningJobs, verified, backupJob, cause >>

(* Mutant: the row is closed as soon as rsync has returned.                *)
BodyEndsAtUpload(r) ==
    /\ IF Stages[at[r]] = "upload"
       THEN GoTo(r, "body", "finish") /\ UNCHANGED at
       ELSE GoTo(r, "body", "update") /\ at' = [at EXCEPT ![r] = @ + 1]
    /\ UNCHANGED << jobs, rowVars, runningJobs, verified, backupJob, cause >>

(* The body of a stage succeeds.  "prepare" reads the job a second time;   *)
(* after "verify_remote" the archive is on the target; nothing is done in  *)
(* "local_cleanup".                                                        *)
Body(r) ==
    /\ Stages[at[r]] = "prepare" => JobStored(r)
    /\ IF at[r] = LastStage
       THEN GoTo(r, "body", "finish") /\ UNCHANGED at
       ELSE GoTo(r, "body", "update") /\ at' = [at EXCEPT ![r] = @ + 1]
    /\ verified' = IF Stages[at[r]] = "verify_remote"
                   THEN verified \cup {r} ELSE verified
    /\ UNCHANGED << jobs, rowVars, runningJobs, backupJob, cause >>

(* Mutant: an error starts the backup again without touching the row.      *)
BodyRetries(r) ==
    /\ GoTo(r, "body", "update")
    /\ at' = [at EXCEPT ![r] = 1]
    /\ UNCHANGED << jobs, rowVars, runningJobs, verified, backupJob, cause >>

BodyFails(r) ==
    \E c \in StagesOfErrors(Stages[at[r]]) : Raise(r, "body", c)

(* A statement of stage(), finish_run_success or the last add_run_log      *)
(* fails; sqlx errors carry no "stage=".                                   *)
StatementFails(r) ==
    /\ DbFaults
    /\ \E from \in {"update", "log", "finish", "logDone"} :
          Raise(r, from, "failed")

(* truncate() slices the command's stderr at byte 2000: inside a character *)
(* it panics.  tokio drops the task; running_jobs keeps the job.           *)
DumpPanics(r) ==
    /\ Panics
    /\ Stages[at[r]] = "dump"
    /\ GoTo(r, "body", "panicked")
    /\ UNCHANGED << jobs, rowVars, runningJobs, verified,
                    backupJob, at, cause >>

FinishRunSuccess(r) ==
    /\ GoTo(r, "finish", "logDone")
    /\ status' = [status EXCEPT ![r] = "Success"]
    /\ stage' = [stage EXCEPT ![r] = "done"]
    /\ archived' = [archived EXCEPT ![r] = TRUE]
    /\ UNCHANGED << jobs, logs, runningJobs, verified, backupJob, at, cause >>

LogDone(r) ==
    /\ GoTo(r, "logDone", "release")
    /\ logs' = [logs EXCEPT ![r] = Append(@, Entry("INFO", "done"))]
    /\ UNCHANGED << jobs, status, stage, archived, runningJobs, verified,
                    backupJob, at, cause >>

-----------------------------------------------------------------------------
(* Mutant: the error is logged and the row is left as it is.               *)
LogErrorOnly(r) ==
    /\ GoTo(r, "logError", "release")
    /\ logs' = [logs EXCEPT ![r] = Append(@, Entry("ERROR", cause[r]))]
    /\ UNCHANGED << jobs, status, stage, archived, runningJobs, verified,
                    backupJob, at, cause >>

(* execute_inner's handling of an error: the ERROR log first, and the row  *)
(* is closed only if that log was written.                                 *)
LogError(r) ==
    /\ GoTo(r, "logError", "fail")
    /\ logs' = [logs EXCEPT ![r] = Append(@, Entry("ERROR", cause[r]))]
    /\ UNCHANGED << jobs, status, stage, archived, runningJobs, verified,
                    backupJob, at, cause >>

(* Mutant: the row does not get the stage the log got.                     *)
FinishRunFailedUnstaged(r) ==
    /\ GoTo(r, "fail", "release")
    /\ status' = [status EXCEPT ![r] = "Failed"]
    /\ stage' = [stage EXCEPT ![r] = "failed"]
    /\ UNCHANGED << jobs, archived, logs, runningJobs, verified,
                    backupJob, at, cause >>

FinishRunFailed(r) ==
    /\ GoTo(r, "fail", "release")
    /\ status' = [status EXCEPT ![r] = "Failed"]
    /\ stage' = [stage EXCEPT ![r] = cause[r]]
    /\ UNCHANGED << jobs, archived, logs, runningJobs, verified,
                    backupJob, at, cause >>

(* The handler's own statements can fail; the row is not closed then.      *)
HandlerFails(r) ==
    /\ DbFaults
    /\ \E from \in {"logError", "fail"} : GoTo(r, from, "release")
    /\ UNCHANGED << jobs, rowVars, runningJobs, verified,
                    backupJob, at, cause >>

(* Mutant: the job stays in running_jobs.                                  *)
ReleaseForgets(r) ==
    /\ GoTo(r, "release", "done")
    /\ UNCHANGED << jobs, rowVars, runningJobs, verified, backupJob, at, cause >>

(* running.remove(&job.id): whatever execute_inner returned.               *)
Release(r) ==
    /\ GoTo(r, "release", "done")
    /\ runningJobs' = runningJobs \ {backupJob[r]}
    /\ UNCHANGED << jobs, rowVars, verified, backupJob, at, cause >>

(* Mutant: start-up closes every row, not only those that were open.       *)
CrashFailsAllRows ==
    /\ Crashes
    /\ pc' = [r \in Runs |->
                 IF pc[r] \in {"idle", "done"} THEN pc[r] ELSE "dead"]
    /\ status' = [r \in Runs |->
                     IF status[r] = "none" THEN "none" ELSE "Failed"]
    /\ runningJobs' = {}
    /\ UNCHANGED << jobs, stage, archived, logs, verified, backupJob, at, cause >>

(* The process stops and main() runs again: the tables are as they were,   *)
(* tasks and running_jobs are gone, and no start-up code looks at the rows *)
(* that were Pending or Running.                                           *)
CrashAndRestart ==
    /\ Crashes
    /\ \/ \E r \in Runs : pc[r] \notin {"idle", "done", "dead"}
       \/ runningJobs # {}
    /\ pc' = [r \in Runs |->
                 IF pc[r] \in {"idle", "done"} THEN pc[r] ELSE "dead"]
    /\ runningJobs' = {}
    /\ UNCHANGED << jobs, rowVars, verified, backupJob, at, cause >>

-----------------------------------------------------------------------------
(* The steps the runtime takes for a task on its own, and those that wait  *)
(* for an external command or for a file operation.                        *)
TaskStep(r) ==
    \/ InsertRun(r) \/ CreateRunFails(r) \/ Spawn(r)
    \/ ReadJob(r) \/ ReadJobFails(r)
    \/ Claim(r) \/ Refuse(r)
    \/ UpdateStage(r) \/ LogStage(r) \/ StatementFails(r)
    \/ FinishRunSuccess(r) \/ LogDone(r)
    \/ LogError(r) \/ FinishRunFailed(r) \/ HandlerFails(r)
    \/ Release(r)

BodyStep(r) == Body(r) \/ BodyFails(r) \/ DumpPanics(r)

Next ==
    \/ \E j \in Jobs : CreateJob(j) \/ DeleteJob(j)
    \/ \E r \in Runs, j \in Jobs : CreateRun(r, j)
    \/ \E r \in Runs : TaskStep(r) \/ BodyStep(r) \/ ClientLeaves(r)
    \/ CrashAndRestart

Spec == Init /\ [][Next]_vars

(* tokio polls every spawned task, and every statement returns.  A stage   *)
(* body returns when its command does: executor.rs sets no timeout, so     *)
(* this second half is an assumption about mysqldump, ssh and rsync.       *)
Fairness ==
    /\ \A r \in Runs : WF_vars(TaskStep(r))
    /\ \A r \in Runs : WF_vars(BodyStep(r))

FairSpec == Spec /\ Fairness

-----------------------------------------------------------------------------
(* Every variable has its type.                                            *)
TypeOK ==
    /\ jobs \in [Jobs -> {"new", "stored", "deleted"}]
    /\ status \in [Runs -> Statuses]
    /\ stage \in [Runs -> RowStages]
    /\ archived \in [Runs -> BOOLEAN]
    /\ logs \in [Runs -> Seq(Entries)]
    /\ runningJobs \subseteq Jobs
    /\ verified \subseteq Runs
    /\ pc \in [Runs -> PCs]
    /\ backupJob \in [Runs -> Jobs \cup {NoJob}]
    /\ at \in [Runs -> 1 .. LastStage]
    /\ cause \in [Runs -> RowStages]

(* No two tasks work on the same job at the same time, through refusals,   *)
(* panics, failed statements, deletions of the job and restarts: a refused *)
(* task leaves running_jobs alone, and only the owner removes the job.     *)
MutualExclusion ==
    \A q, r \in Runs :
        q # r /\ Holding(q) /\ Holding(r) => backupJob[q] # backupJob[r]

(* running_jobs is exactly the jobs somebody works on or has panicked on   *)
(* since the last start: no exit of execute keeps a job blocked, and none  *)
(* releases the job of another task.                                       *)
LockHeldByLiveTask ==
    runningJobs = {backupJob[r] : r \in {q \in Runs : Owns(q)}}

(* A run refused as "job is already running" is refused because of another *)
(* task that is at work on the job at that moment, or panicked on it.      *)
RefusalNeedsOwner ==
    [][ \A r \in Runs :
          pc[r] = "claim" /\ pc'[r] = "refuse" =>
            \E q \in Runs \ {r} :
               Owns(q) /\ backupJob[q] = backupJob[r] ]_vars

(* A row says Success, and shows a file to download, only if the archive   *)
(* was uploaded and then seen on the target.                               *)
SuccessIsVerified ==
    \A r \in Runs : status[r] = "Success" \/ archived[r] => r \in verified

(* The log explains how a closed run ended: Success has every stage in the *)
(* order of execute_steps, Failed ends with the error at the stage the row *)
(* shows, and a run without any log was refused at "prepare".              *)
LogsExplainOutcome ==
    \A r \in Runs :
        /\ status[r] = "Success" =>
              /\ Len(logs[r]) >= LastStage
              /\ \A i \in 1 .. LastStage : logs[r][i] = Entry("INFO", Stages[i])
        /\ status[r] = "Failed" =>
              IF logs[r] = << >>
              THEN stage[r] = "prepare"
              ELSE logs[r][Len(logs[r])] = Entry("ERROR", stage[r])

(* The row follows the task: while a run goes on, the stage it shows never *)
(* moves back, whichever statements fail and whatever restarts.            *)
StageNeverGoesBack ==
    [][ \A r \in Runs : \A i, k \in 1 .. LastStage :
          /\ status[r] = "Running" /\ stage[r] = Stages[i]
          /\ status'[r] = "Running" /\ stage'[r] = Stages[k]
          => i <= k ]_vars

(* A closed row stays as it is: neither another task nor a restart nor the *)
(* deletion of the job rewrites history.  The one exception is a Success   *)
(* whose own closing log could not be written: it becomes Failed, and the  *)
(* log tells of it.                                                        *)
TerminalRowsFrozen ==
    [][ \A r \in Runs :
          Terminal(r) =>
              \/ status'[r] = status[r] /\ stage'[r] = stage[r]
              \/ /\ DbFaults
                 /\ status[r] = "Success" /\ status'[r] = "Failed"
                 /\ logs[r] # << >>
                 /\ logs[r][Len(logs[r])] = Entry("ERROR", stage'[r]) ]_vars

(* A row that nobody will close, although the process goes on and no       *)
(* statement failed, is one that was never begun: its job was deleted      *)
(* before the task had claimed it, or its client left before the spawn.    *)
EndedRunsAreClosed ==
    \A r \in Runs :
        pc[r] \in {"done", "unspawned"} /\ status[r] # "none" /\ ~Terminal(r) =>
            /\ status[r] = "Pending" /\ logs[r] = << >>
            /\ JobGone(r) \/ pc[r] = "unspawned"

(* Every run that was triggered ends Success or Failed, if no statement    *)
(* fails, unless its job is deleted under it, its client leaves before the *)
(* task is spawned or the process stops.                                   *)
EveryRunDecided ==
    \A r \in Runs :
        status[r] = "Pending" ~>
            Terminal(r) \/ JobGone(r) \/ pc[r] \in {"unspawned", "dead"}

(* A job in running_jobs is released, whenever the process restarts and    *)
(* clients leave: it can be run again.                                     *)
JobReleased == \A j \in Jobs : j \in runningJobs ~> j \notin runningJobs

-----------------------------------------------------------------------------
(* The executor implements RunLifecycle when statements do not fail and no *)
(* task panics: "job" is set when the row is, and a run is at work while   *)
(* its job is in running_jobs on its behalf.                               *)
Phase(r) ==
    IF status[r] = "none" THEN "unborn"
    ELSE IF pc[r] \in {"inserted", "queued", "claim"} THEN "waiting"
    ELSE IF pc[r] = "refuse" THEN "turnedAway"
    ELSE IF Holding(r) THEN "atWork"
    ELSE "over"

LifePhase == [r \in Runs |-> Phase(r)]

LifeJob == [r \in Runs |-> IF status[r] = "none" THEN NoJob ELSE backupJob[r]]

Life == INSTANCE RunLifecycle WITH job <- LifeJob, phase <- LifePhase

(* Every behaviour of the executor is one its users are promised.          *)
RefinesLifecycle == Life!Spec

-----------------------------------------------------------------------------
(* With all faults, the executor writes a RunHistory.                      *)
HistoryRun == [r \in Runs |-> IF status[r] = "none" THEN "none"
                              ELSE IF Terminal(r) THEN "closed" ELSE "open"]

History == INSTANCE RunHistory WITH run <- HistoryRun

-----------------------------------------------------------------------------
(* What the documents say and the code does not keep.                      *)

(* Architecture: stderr is collected, truncated and saved, and the plan:   *)
(* any failure is recorded - so a run that shows Running is closed in the  *)
(* end, however its dump fails.                                            *)
RunningRunEnds ==
    \A r \in Runs : status[r] = "Running" ~> Terminal(r)
=============================================================================
