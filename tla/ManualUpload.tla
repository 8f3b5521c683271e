---------------------------- MODULE ManualUpload ----------------------------
(***************************************************************************)
(* Manual uploads: the request that brings a finished backup (api.rs,      *)
(* create_manual_upload), the transaction that stores it as a run and an   *)
(* upload (repository.rs), and the task that puts it on the target         *)
(* (manual_upload.rs).  Sources and targets can be deleted meanwhile.  One *)
(* action is one statement or transaction of SQLite or one stage body.     *)
(***************************************************************************)
EXTENDS Naturals, Sequences

CONSTANTS
    Uploads,     \* requests, and the ids of the runs they become
    Sources,     \* ids of database_connections rows
    Targets,     \* ids of backup_targets rows
    None,        \* no source or target
    DbFaults,    \* SQLite statements may fail
    Crashes      \* the process may stop and be started again

ASSUME ConstantsAssumption ==
    /\ None \notin Sources \cup Targets
    /\ {DbFaults, Crashes} \subseteq BOOLEAN

(* What a form brings: validate_file refuses a file that is empty, too     *)
(* large or of another extension; safe_file_name refuses a name.           *)
FileKinds == {"good", "unsafeName", "refused", "missing"}

Stages == << "prepare", "receive_file", "checksum", "manifest",
             "upload", "verify_remote" >>

LastStage == Len(Stages)

VARIABLES
    sources, targets,  \* rows that are stored
    form,         \* what the request carries
    rpc,          \* where the request is
    status,       \* backup_runs.status, "none" before the row exists
    stage,        \* backup_runs.stage
    logs,         \* backup_run_logs of each run, oldest first
    uploadTarget, \* manual_backup_uploads.backup_target_id of the run
    onTarget,     \* runs whose archive was seen on the target
    pc,           \* where the task is
    at,           \* index in Stages of the stage it has reached
    cause         \* `stage' computed from the error in execute

tableVars == << status, stage, logs, uploadTarget >>
taskVars  == << pc, at, cause >>
vars == << sources, targets, form, rpc, tableVars, onTarget, taskVars >>

Forms == [source : Sources \cup {None}, target : Targets \cup {None},
          file : FileKinds]

RequestPCs == {"idle", "target", "source", "insert", "answered", "refused"}
TaskPCs == {"none", "update", "log", "body", "finish", "logDone",
            "logError", "fail", "over", "lost", "dead"}

RowStages == {Stages[i] : i \in 1 .. LastStage} \cup {"none", "done", "failed"}
Entry(l, s) == [level |-> l, stage |-> s]
Entries == [level : {"INFO", "ERROR"}, stage : RowStages]

Terminal(r) == status[r] \in {"Success", "Failed"}

-----------------------------------------------------------------------------
Init ==
    /\ sources = Sources
    /\ targets = Targets
    /\ form = [r \in Uploads |->
                  [source |-> None, target |-> None, file |-> "missing"]]
    /\ rpc = [r \in Uploads |-> "idle"]
    /\ status = [r \in Uploads |-> "none"]
    /\ stage = [r \in Uploads |-> "none"]
    /\ logs = [r \in Uploads |-> << >>]
    /\ uploadTarget = [r \in Uploads |-> None]
    /\ onTarget = {}
    /\ pc = [r \in Uploads |-> "none"]
    /\ at = [r \in Uploads |-> 1]
    /\ cause = [r \in Uploads |-> "none"]

(* DELETE /sources/{id}, /targets/{id}: no job is in the way here, and the *)
(* foreign key of manual_backup_uploads guards targets, not sources.       *)
DeleteSource(s) ==
    /\ s \in sources
    /\ sources' = sources \ {s}
    /\ UNCHANGED << targets, form, rpc, tableVars, onTarget, taskVars >>

(* Mutant: the foreign key is not enforced; jobs are all that is counted.  *)
DeleteTargetUncounted(t) ==
    /\ t \in targets
    /\ targets' = targets \ {t}
    /\ UNCHANGED << sources, form, rpc, tableVars, onTarget, taskVars >>

DeleteTarget(t) ==
    /\ t \in targets
    /\ \A r \in Uploads : uploadTarget[r] # t
    /\ targets' = targets \ {t}
    /\ UNCHANGED << sources, form, rpc, tableVars, onTarget, taskVars >>

-----------------------------------------------------------------------------
(* The request.                                                            *)
Answer(r, from, to) == rpc[r] = from /\ rpc' = [rpc EXCEPT ![r] = to]

(* The form is read to its end; a field that is not filled in is refused.  *)
Receive(r, f) ==
    /\ form' = [form EXCEPT ![r] = f]
    /\ Answer(r, "idle",
              IF None \in {f.source, f.target} THEN "refused" ELSE "target")
    /\ UNCHANGED << sources, targets, tableVars, onTarget, taskVars >>

FindTarget(r) ==
    /\ \/ form[r].target \in targets /\ Answer(r, "target", "source")
       \/ form[r].target \notin targets /\ Answer(r, "target", "refused")
    /\ UNCHANGED << sources, targets, form, tableVars, onTarget, taskVars >>

(* The source, then the file: enqueue validates it before anything is      *)
(* stored.                                                                 *)
FindSource(r) ==
    /\ \/ /\ form[r].source \in sources
          /\ form[r].file \in {"good", "unsafeName"}
          /\ Answer(r, "source", "insert")
       \/ /\ \/ form[r].source \notin sources
             \/ form[r].file \in {"refused", "missing"}
          /\ Answer(r, "source", "refused")
    /\ UNCHANGED << sources, targets, form, tableVars, onTarget, taskVars >>

(* create_manual_run commits both rows, and the task is spawned.           *)
Commit(r) ==
    /\ form[r].target \in targets
    /\ Answer(r, "insert", "answered")
    /\ status' = [status EXCEPT ![r] = "Pending"]
    /\ stage' = [stage EXCEPT ![r] = "prepare"]
    /\ uploadTarget' = [uploadTarget EXCEPT ![r] = form[r].target]
    /\ pc' = [pc EXCEPT ![r] = "update"]
    /\ UNCHANGED << sources, targets, form, logs, onTarget, at, cause >>

(* Mutant: two statements without a transaction around them.               *)
RollbackNothing(r) ==
    /\ DbFaults \/ form[r].target \notin targets
    /\ Answer(r, "insert", "refused")
    /\ status' = [status EXCEPT ![r] = "Pending"]
    /\ stage' = [stage EXCEPT ![r] = "prepare"]
    /\ UNCHANGED << sources, targets, form, logs, uploadTarget, onTarget, taskVars >>

(* The foreign key finds no target any more, or a statement fails.         *)
Rollback(r) ==
    /\ DbFaults \/ form[r].target \notin targets
    /\ Answer(r, "insert", "refused")
    /\ UNCHANGED << sources, targets, form, tableVars, onTarget, taskVars >>

ReadFails(r) ==
    /\ DbFaults
    /\ \E from \in {"target", "source"} : Answer(r, from, "refused")
    /\ UNCHANGED << sources, targets, form, tableVars, onTarget, taskVars >>

-----------------------------------------------------------------------------
(* The task: execute_inner, with execute around it.                        *)
GoTo(r, from, to) == pc[r] = from /\ pc' = [pc EXCEPT ![r] = to]

RequestFrame == UNCHANGED << sources, targets, form, rpc, uploadTarget >>

UpdateStage(r) ==
    /\ GoTo(r, "update", "log")
    /\ status' = [status EXCEPT ![r] = "Running"]
    /\ stage' = [stage EXCEPT ![r] = Stages[at[r]]]
    /\ UNCHANGED << logs, onTarget, at, cause >>
    /\ RequestFrame

LogStage(r) ==
    /\ GoTo(r, "log", "body")
    /\ logs' = [logs EXCEPT ![r] = Append(@, Entry("INFO", Stages[at[r]]))]
    /\ UNCHANGED << status, stage, onTarget, at, cause >>
    /\ RequestFrame

(* Mutant: what rsync has sent needs no look at the target.                *)
BodySkipsVerify(r) ==
    /\ IF Stages[at[r]] = "upload"
       THEN GoTo(r, "body", "finish") /\ UNCHANGED at
       ELSE GoTo(r, "body", "update") /\ at' = [at EXCEPT ![r] = @ + 1]
    /\ UNCHANGED << status, stage, logs, onTarget, cause >>
    /\ RequestFrame

(* Mutant: verify_remote is not known to be the last stage.                *)
BodyPastEnd(r) ==
    /\ GoTo(r, "body", "update")
    /\ at' = [at EXCEPT ![r] = @ + 1]
    /\ UNCHANGED << status, stage, logs, onTarget, cause >>
    /\ RequestFrame

Body(r) ==
    /\ Stages[at[r]] = "prepare" => uploadTarget[r] \in targets
    /\ Stages[at[r]] = "receive_file" => form[r].file = "good"
    /\ IF at[r] = LastStage
       THEN GoTo(r, "body", "finish") /\ UNCHANGED at
       ELSE GoTo(r, "body", "update") /\ at' = [at EXCEPT ![r] = @ + 1]
    /\ onTarget' = IF at[r] = LastStage THEN onTarget \cup {r} ELSE onTarget
    /\ UNCHANGED << status, stage, logs, cause >>
    /\ RequestFrame

Raise(r, from, c) ==
    /\ GoTo(r, from, "logError")
    /\ cause' = [cause EXCEPT ![r] = c]
    /\ UNCHANGED << status, stage, logs, onTarget, at >>
    /\ RequestFrame

(* The target, the key, a file or a command fails; only the two commands   *)
(* put "stage=" before their message.                                      *)
BodyFails(r) ==
    Raise(r, "body", IF Stages[at[r]] \in {"upload", "verify_remote"}
                     THEN Stages[at[r]] ELSE "failed")

StatementFails(r) ==
    /\ DbFaults
    /\ \E from \in {"update", "log", "finish", "logDone"} :
          Raise(r, from, "failed")

FinishRunSuccess(r) ==
    /\ GoTo(r, "finish", "logDone")
    /\ status' = [status EXCEPT ![r] = "Success"]
    /\ stage' = [stage EXCEPT ![r] = "done"]
    /\ UNCHANGED << logs, onTarget, at, cause >>
    /\ RequestFrame

LogDone(r) ==
    /\ GoTo(r, "logDone", "over")
    /\ logs' = [logs EXCEPT ![r] = Append(@, Entry("INFO", "done"))]
    /\ UNCHANGED << status, stage, onTarget, at, cause >>
    /\ RequestFrame

(* Mutant: the error is logged and the row is left as it is.               *)
LogErrorOnly(r) ==
    /\ GoTo(r, "logError", "over")
    /\ logs' = [logs EXCEPT ![r] = Append(@, Entry("ERROR", cause[r]))]
    /\ UNCHANGED << status, stage, onTarget, at, cause >>
    /\ RequestFrame

LogError(r) ==
    /\ GoTo(r, "logError", "fail")
    /\ logs' = [logs EXCEPT ![r] = Append(@, Entry("ERROR", cause[r]))]
    /\ UNCHANGED << status, stage, onTarget, at, cause >>
    /\ RequestFrame

(* Mutant: the row keeps the stage it had.                                 *)
FinishRunFailedUnstaged(r) ==
    /\ GoTo(r, "fail", "over")
    /\ status' = [status EXCEPT ![r] = "Failed"]
    /\ UNCHANGED << stage, logs, onTarget, at, cause >>
    /\ RequestFrame

FinishRunFailed(r) ==
    /\ GoTo(r, "fail", "over")
    /\ status' = [status EXCEPT ![r] = "Failed"]
    /\ stage' = [stage EXCEPT ![r] = cause[r]]
    /\ UNCHANGED << logs, onTarget, at, cause >>
    /\ RequestFrame

(* The handler of the error fails itself: "?" leaves execute, and the row  *)
(* stays as it is.                                                         *)
HandlerFails(r) ==
    /\ DbFaults
    /\ \E from \in {"logError", "fail"} : GoTo(r, from, "lost")
    /\ UNCHANGED << status, stage, logs, onTarget, at, cause >>
    /\ RequestFrame

(* The process stops: a transaction under way is rolled back, requests and *)
(* tasks are gone, and nothing looks at open rows when it starts again.    *)
CrashAndRestart ==
    /\ Crashes
    /\ rpc' = [r \in Uploads |->
                  IF rpc[r] \in {"idle", "answered"} THEN rpc[r] ELSE "refused"]
    /\ pc' = [r \in Uploads |->
                 IF pc[r] \in {"none", "over", "lost"} THEN pc[r] ELSE "dead"]
    /\ UNCHANGED << sources, targets, form, tableVars, onTarget, at, cause >>

-----------------------------------------------------------------------------
RequestStep(r) ==
    FindTarget(r) \/ FindSource(r) \/ Commit(r) \/ Rollback(r) \/ ReadFails(r)

TaskStep(r) ==
    \/ UpdateStage(r) \/ LogStage(r) \/ StatementFails(r)
    \/ FinishRunSuccess(r) \/ LogDone(r)
    \/ LogError(r) \/ FinishRunFailed(r) \/ HandlerFails(r)

BodyStep(r) == Body(r) \/ BodyFails(r)

Next ==
    \/ \E s \in Sources : DeleteSource(s)
    \/ \E t \in Targets : DeleteTarget(t)
    \/ \E r \in Uploads :
          \/ \E f \in Forms : Receive(r, f)
          \/ RequestStep(r) \/ TaskStep(r) \/ BodyStep(r)
    \/ CrashAndRestart

Spec == Init /\ [][Next]_vars

(* tokio polls the tasks, statements return, and - an assumption, since no *)
(* time limit is set - so do ssh and rsync.                                *)
Fairness ==
    \A r \in Uploads : WF_vars(TaskStep(r)) /\ WF_vars(BodyStep(r))

FairSpec == Spec /\ Fairness

-----------------------------------------------------------------------------
(* Every variable has its type.                                            *)
TypeOK ==
    /\ sources \subseteq Sources
    /\ targets \subseteq Targets
    /\ form \in [Uploads -> Forms]
    /\ rpc \in [Uploads -> RequestPCs]
    /\ status \in [Uploads -> {"none", "Pending", "Running", "Success", "Failed"}]
    /\ stage \in [Uploads -> RowStages]
    /\ logs \in [Uploads -> Seq(Entries)]
    /\ uploadTarget \in [Uploads -> Targets \cup {None}]
    /\ onTarget \subseteq Uploads
    /\ pc \in [Uploads -> TaskPCs]
    /\ at \in [Uploads -> 1 .. LastStage]
    /\ cause \in [Uploads -> RowStages]

(* Each run in the history has its upload: run_file_context finds the      *)
(* target of every archive, and no run is shown for a request that was     *)
(* refused, whatever was deleted while the request was under way.          *)
EveryRunHasItsUpload ==
    \A r \in Uploads :
        status[r] # "none" <=> uploadTarget[r] # None

(* The target of an archive is never deleted: delete_target counts jobs,   *)
(* and a job is not what refers to it.                                     *)
ArchiveKeepsTarget ==
    \A r \in Uploads : uploadTarget[r] # None => uploadTarget[r] \in targets

(* A run says Success only if its archive was seen on the target, and its  *)
(* file was one that both checks accept.                                   *)
SuccessIsVerified ==
    \A r \in Uploads :
        status[r] = "Success" => r \in onTarget /\ form[r].file = "good"

(* The log explains how a closed run ended: Success has every stage in the *)
(* order of execute_inner, Failed ends with the error at the stage the row *)
(* shows.                                                                  *)
LogsExplainOutcome ==
    \A r \in Uploads :
        /\ status[r] = "Success" =>
              /\ Len(logs[r]) >= LastStage
              /\ \A i \in 1 .. LastStage : logs[r][i] = Entry("INFO", Stages[i])
        /\ status[r] = "Failed" =>
              /\ logs[r] # << >>
              /\ logs[r][Len(logs[r])] = Entry("ERROR", stage[r])

(* An upload that was answered is decided, unless the process stops or the *)
(* error handler cannot write.                                             *)
EveryUploadDecided ==
    \A r \in Uploads :
        rpc[r] = "answered" ~> Terminal(r) \/ pc[r] \in {"dead", "lost"}

-----------------------------------------------------------------------------
(* With all faults, manual uploads are written into a RunHistory.          *)
HistoryRun == [r \in Uploads |-> IF status[r] = "none" THEN "none"
                                 ELSE IF Terminal(r) THEN "closed" ELSE "open"]

History == INSTANCE RunHistory WITH Runs <- Uploads, run <- HistoryRun

(* A closed row is changed by nothing but an error of the log behind its   *)
(* Success, which makes it Failed.                                         *)
TerminalRowsFrozen ==
    [][ \A r \in Uploads :
          Terminal(r) =>
              \/ status'[r] = status[r] /\ stage'[r] = stage[r]
              \/ /\ DbFaults
                 /\ status[r] = "Success" /\ status'[r] = "Failed"
                 /\ logs[r] # << >>
                 /\ logs[r][Len(logs[r])] = Entry("ERROR", stage'[r]) ]_vars
=============================================================================
