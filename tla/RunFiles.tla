------------------------------ MODULE RunFiles ------------------------------
(***************************************************************************)
(* The archive of a run from its upload to its removal: the tasks that put *)
(* it on the target's server (executor.rs, manual_upload.rs), the requests *)
(* that download or delete it (api.rs), and the rows that say where it is. *)
(* The row keeps `remote_path' but not the target: a request finds the     *)
(* target through the job, as the job is when the request is made.  One    *)
(* action is one statement of SQLite or one command on the server.         *)
(***************************************************************************)
EXTENDS Naturals

CONSTANTS
    Targets,     \* ids of backup_targets rows
    Hosts,       \* what a target's host, port and user can name
    Jobs,        \* ids of backup_jobs rows
    DirOf,       \* of a job: <base-dir>/scheduled/<host>/<type>/<database>
    Runs,        \* ids of backup_runs rows; also the content of the archive
    Requests,    \* requests the server handles at the same time
    ManualDir,   \* <base-dir>/manual/<label>/<type>/<database>/<date>
    FileNames,   \* names of files that users upload
    MaxClock,    \* bound: seconds that pass
    None,        \* no job, target, place, run or file
    EditJobs,    \* jobs may be given another target, or deleted
    EditTargets, \* targets may be given another host
    DbFaults,    \* SQLite statements may fail
    SshFaults,   \* rsync and ssh may fail, before or after their effect
    Crashes      \* the process may stop and be started again

Dirs    == {DirOf[j] : j \in Jobs} \cup {ManualDir}
Seconds == 1 .. MaxClock
Paths   == Dirs \X (Seconds \cup FileNames)
Places  == Hosts \X Paths

ASSUME ConstantsAssumption ==
    /\ MaxClock \in Nat \ {0}
    /\ \A j \in Jobs : DirOf[j] # ManualDir
    /\ None \notin Jobs \cup Targets \cup Runs \cup Hosts \cup Places
    /\ {EditJobs, EditTargets, DbFaults, SshFaults, Crashes} \subseteq BOOLEAN

VARIABLES
    clock,         \* Utc::now(), in seconds
    jobTarget,     \* backup_jobs.backup_target_id, None when deleted
    hostOf,        \* backup_targets.host
    files,         \* the archive at each place, by its run
    status,        \* backup_runs.status; "Open" is Pending or Running
    fileDeleted,   \* backup_runs.file_deleted
    runJob,        \* backup_runs.backup_job_id, None for a manual upload
    uploadTarget,  \* manual_backup_uploads.backup_target_id
    place,         \* where the task uploads to; its path is remote_path
    tpc,           \* where the task of a run is
    rpc,           \* where a request is
    op,            \* "download" or "delete"
    reqRun,        \* the run the request is about
    seenDeleted,   \* run.file_deleted, as the request read it
    reqTarget,     \* the target the request found
    reqHost,       \* its host
    got            \* the file the client of a download received

configVars == << jobTarget, hostOf >>
taskVars   == << runJob, uploadTarget, place, tpc >>
reqVars    == << rpc, op, reqRun, seenDeleted, reqTarget, reqHost, got >>
vars       == << clock, configVars, files, status, fileDeleted,
                 taskVars, reqVars >>

Working == {"upload", "verify", "finish"}
TaskPCs == {"idle", "prepare", "logDone", "over"} \cup Working
Answers == {"ok", "conflict", "notFound", "error"}
RequestPCs == {"idle", "job", "target", "command", "mark", "log"} \cup Answers

-----------------------------------------------------------------------------
Init ==
    /\ clock = 1
    /\ jobTarget \in [Jobs -> Targets]
    /\ hostOf \in [Targets -> Hosts]
    /\ files = [p \in Places |-> None]
    /\ status = [r \in Runs |-> "none"]
    /\ fileDeleted = [r \in Runs |-> FALSE]
    /\ runJob = [r \in Runs |-> None]
    /\ uploadTarget = [r \in Runs |-> None]
    /\ place = [r \in Runs |-> None]
    /\ tpc = [r \in Runs |-> "idle"]
    /\ rpc = [q \in Requests |-> "idle"]
    /\ op = [q \in Requests |-> "download"]
    /\ reqRun = [q \in Requests |-> None]
    /\ seenDeleted = [q \in Requests |-> FALSE]
    /\ reqTarget = [q \in Requests |-> None]
    /\ reqHost = [q \in Requests |-> None]
    /\ got = [q \in Requests |-> None]

Tick ==
    /\ clock < MaxClock
    /\ clock' = clock + 1
    /\ UNCHANGED << configVars, files, status, fileDeleted, taskVars, reqVars >>

(* PUT and DELETE /jobs/{id}; PUT /targets/{id}.  None looks at the runs.  *)
EditJob(j, t) ==
    /\ EditJobs
    /\ jobTarget[j] # None
    /\ jobTarget' = [jobTarget EXCEPT ![j] = t]
    /\ UNCHANGED << clock, hostOf, files, status, fileDeleted, taskVars, reqVars >>

EditTarget(t, h) ==
    /\ EditTargets
    /\ hostOf' = [hostOf EXCEPT ![t] = h]
    /\ UNCHANGED << clock, jobTarget, files, status, fileDeleted, taskVars, reqVars >>

-----------------------------------------------------------------------------
(* Tasks.  Their stages are those of BackupExecutor; here are the steps    *)
(* that decide where the archive is.                                       *)
GoTo(r, from, to) == tpc[r] = from /\ tpc' = [tpc EXCEPT ![r] = to]

(* create_run, create_manual_run: the second keeps the target's id.        *)
StartScheduled(r, j) ==
    /\ jobTarget[j] # None
    /\ GoTo(r, "idle", "prepare")
    /\ status' = [status EXCEPT ![r] = "Open"]
    /\ runJob' = [runJob EXCEPT ![r] = j]
    /\ UNCHANGED << clock, configVars, files, fileDeleted, uploadTarget,
                    place, reqVars >>

StartManual(r, t) ==
    /\ GoTo(r, "idle", "prepare")
    /\ status' = [status EXCEPT ![r] = "Open"]
    /\ uploadTarget' = [uploadTarget EXCEPT ![r] = t]
    /\ UNCHANGED << clock, configVars, files, fileDeleted, runJob, place, reqVars >>

(* Mutant: the file is addressed by the target's id.                       *)
UploadToId(r, t, p) ==
    /\ GoTo(r, "prepare", "upload")
    /\ place' = [place EXCEPT ![r] = << t, p >>]
    /\ UNCHANGED << clock, configVars, files, status, fileDeleted, runJob,
                    uploadTarget, reqVars >>

UploadTo(r, t, p) ==
    /\ GoTo(r, "prepare", "upload")
    /\ place' = [place EXCEPT ![r] = << hostOf[t], p >>]
    /\ UNCHANGED << clock, configVars, files, status, fileDeleted, runJob,
                    uploadTarget, reqVars >>

(* execute_steps reads the job again; running_jobs lets one run of a job   *)
(* work at a time; the name of the archive is the second.                  *)
PrepareScheduled(r) ==
    /\ runJob[r] # None
    /\ jobTarget[runJob[r]] # None
    /\ \A q \in Runs : runJob[q] = runJob[r] => tpc[q] \notin Working \cup {"logDone"}
    /\ UploadTo(r, jobTarget[runJob[r]], << DirOf[runJob[r]], clock >>)

PrepareManual(r, n) ==
    /\ uploadTarget[r] # None
    /\ UploadTo(r, uploadTarget[r], << ManualDir, n >>)

(* The run ends: its job is gone or taken, or a command or a statement     *)
(* failed.                                                                 *)
RunFails(r) ==
    /\ \/ /\ tpc[r] = "prepare"
          /\ runJob[r] # None
          /\ \/ jobTarget[runJob[r]] = None
             \/ \E q \in Runs : runJob[q] = runJob[r]
                                /\ tpc[q] \in Working \cup {"logDone"}
       \/ tpc[r] = "upload" /\ SshFaults
       \/ tpc[r] = "verify" /\ (SshFaults \/ files[place[r]] = None)
       \/ tpc[r] \in {"prepare", "finish", "logDone"} /\ DbFaults
    /\ tpc' = [tpc EXCEPT ![r] = "over"]
    /\ status' = [status EXCEPT ![r] = "Failed"]
    /\ UNCHANGED << clock, configVars, files, fileDeleted, runJob,
                    uploadTarget, place, reqVars >>

(* rsync -az: a file of that name is replaced.  The connection may break   *)
(* when the file is in place.                                              *)
Upload(r) ==
    /\ \/ GoTo(r, "upload", "verify") /\ UNCHANGED status
       \/ /\ SshFaults
          /\ GoTo(r, "upload", "over")
          /\ status' = [status EXCEPT ![r] = "Failed"]
    /\ files' = [files EXCEPT ![place[r]] = r]
    /\ UNCHANGED << clock, configVars, fileDeleted, runJob,
                    uploadTarget, place, reqVars >>

(* ssh test -f: any file at the place will do.                             *)
Verify(r) ==
    /\ GoTo(r, "verify", "finish")
    /\ files[place[r]] # None
    /\ UNCHANGED << clock, configVars, files, status, fileDeleted, runJob,
                    uploadTarget, place, reqVars >>

FinishRunSuccess(r) ==
    /\ GoTo(r, "finish", "logDone")
    /\ status' = [status EXCEPT ![r] = "Success"]
    /\ UNCHANGED << clock, configVars, files, fileDeleted, runJob,
                    uploadTarget, place, reqVars >>

LogDone(r) ==
    /\ GoTo(r, "logDone", "over")
    /\ UNCHANGED << clock, configVars, files, status, fileDeleted, runJob,
                    uploadTarget, place, reqVars >>

-----------------------------------------------------------------------------
(* Requests.  run_file_context reads the run, the job (or the manual       *)
(* upload) and the target, in three statements.                            *)
Answer(q, a) == rpc' = [rpc EXCEPT ![q] = a]

ReqFrame == UNCHANGED << clock, configVars, files, status, fileDeleted, taskVars >>

(* GET /runs/{id}/file and DELETE /runs/{id}/file: get_run, and only a     *)
(* Success row has a file to manage.  (A request whose first statement     *)
(* fails does nothing.)                                                    *)
Ask(q, o, r) ==
    /\ rpc[q] \in {"idle"} \cup Answers
    /\ status[r] # "none"
    /\ op' = [op EXCEPT ![q] = o]
    /\ reqRun' = [reqRun EXCEPT ![q] = r]
    /\ seenDeleted' = [seenDeleted EXCEPT ![q] = fileDeleted[r]]
    /\ reqTarget' = [reqTarget EXCEPT ![q] = None]
    /\ reqHost' = [reqHost EXCEPT ![q] = None]
    /\ got' = [got EXCEPT ![q] = None]
    /\ Answer(q, IF status[r] = "Success" THEN "job" ELSE "conflict")
    /\ ReqFrame

Path(r) == place[r][2]

(* scheduled_run_target_id: the target of the job as the job is now.       *)
FindTarget(q) ==
    /\ rpc[q] = "job"
    /\ LET j == runJob[reqRun[q]]
           t == IF j = None THEN uploadTarget[reqRun[q]] ELSE jobTarget[j]
       IN /\ reqTarget' = [reqTarget EXCEPT ![q] = t]
          /\ Answer(q, IF t = None THEN "notFound" ELSE "target")
    /\ UNCHANGED << op, reqRun, seenDeleted, reqHost, got >>
    /\ ReqFrame

(* get_backup_target, then file_deleted of the row that was read at first. *)
ReadTarget(q) ==
    /\ rpc[q] = "target"
    /\ reqHost' = [reqHost EXCEPT ![q] = hostOf[reqTarget[q]]]
    /\ Answer(q, CASE ~seenDeleted[q] -> "command"
                   [] seenDeleted[q] /\ op[q] = "download" -> "conflict"
                   [] seenDeleted[q] /\ op[q] = "delete" -> "ok")
    /\ UNCHANGED << op, reqRun, seenDeleted, reqTarget, got >>
    /\ ReqFrame

ReqPlace(q) == << reqHost[q], Path(reqRun[q]) >>

(* Mutant: the checksum of the row is not compared.                        *)
DownloadUnchecked(q) ==
    /\ rpc[q] = "command" /\ op[q] = "download"
    /\ LET file == files[ReqPlace(q)]
       IN /\ got' = [got EXCEPT ![q] = file]
          /\ Answer(q, IF file = None THEN "error" ELSE "ok")
    /\ UNCHANGED << op, reqRun, seenDeleted, reqTarget, reqHost >>
    /\ ReqFrame

(* rsync from the target to a temporary file, then the checksum.           *)
Download(q) ==
    /\ rpc[q] = "command" /\ op[q] = "download"
    /\ LET file == files[ReqPlace(q)]
       IN \/ /\ file = reqRun[q]
             /\ got' = [got EXCEPT ![q] = file]
             /\ Answer(q, "ok")
          \/ /\ file # reqRun[q]
             /\ Answer(q, IF file = None THEN "error" ELSE "conflict")
             /\ UNCHANGED got
    /\ UNCHANGED << op, reqRun, seenDeleted, reqTarget, reqHost >>
    /\ ReqFrame

(* Mutant: rm -rf of the directory of the archive.                         *)
RemoveDirectory(q) ==
    /\ rpc[q] = "command" /\ op[q] = "delete"
    /\ files' = [p \in Places |->
                    IF p[1] = reqHost[q] /\ p[2][1] = Path(reqRun[q])[1]
                    THEN None ELSE files[p]]
    /\ Answer(q, "mark")
    /\ UNCHANGED << clock, configVars, status, fileDeleted, taskVars,
                    op, reqRun, seenDeleted, reqTarget, reqHost, got >>

(* Mutant: rm without -f.                                                  *)
RemoveExisting(q) ==
    /\ rpc[q] = "command" /\ op[q] = "delete"
    /\ files' = [files EXCEPT ![ReqPlace(q)] = None]
    /\ Answer(q, IF files[ReqPlace(q)] = None THEN "error" ELSE "mark")
    /\ UNCHANGED << clock, configVars, status, fileDeleted, taskVars,
                    op, reqRun, seenDeleted, reqTarget, reqHost, got >>

(* ssh rm -f: what is not there counts as removed.                         *)
Remove(q) ==
    /\ rpc[q] = "command" /\ op[q] = "delete"
    /\ files' = [files EXCEPT ![ReqPlace(q)] = None]
    /\ \/ Answer(q, "mark")
       \/ SshFaults /\ Answer(q, "error")
    /\ UNCHANGED << clock, configVars, status, fileDeleted, taskVars,
                    op, reqRun, seenDeleted, reqTarget, reqHost, got >>

(* Mutant: a command that failed counts as a file that is not there.       *)
CommandFailsUnseen(q) ==
    /\ SshFaults
    /\ rpc[q] = "command"
    /\ Answer(q, IF op[q] = "delete" THEN "mark" ELSE "error")
    /\ UNCHANGED << op, reqRun, seenDeleted, reqTarget, reqHost, got >>
    /\ ReqFrame

CommandFails(q) ==
    /\ SshFaults
    /\ rpc[q] = "command"
    /\ Answer(q, "error")
    /\ UNCHANGED << op, reqRun, seenDeleted, reqTarget, reqHost, got >>
    /\ ReqFrame

(* mark_run_file_deleted, whatever the row holds by now.                   *)
Mark(q) ==
    /\ rpc[q] = "mark"
    /\ fileDeleted' = [fileDeleted EXCEPT ![reqRun[q]] = TRUE]
    /\ Answer(q, "log")
    /\ UNCHANGED << clock, configVars, files, status, taskVars,
                    op, reqRun, seenDeleted, reqTarget, reqHost, got >>

LogFileDelete(q) ==
    /\ rpc[q] = "log"
    /\ Answer(q, "ok")
    /\ UNCHANGED << op, reqRun, seenDeleted, reqTarget, reqHost, got >>
    /\ ReqFrame

StatementFails(q) ==
    /\ DbFaults
    /\ \/ rpc[q] \in {"job", "target"} /\ Answer(q, "notFound")
       \/ rpc[q] \in {"mark", "log"} /\ Answer(q, "error")
    /\ UNCHANGED << op, reqRun, seenDeleted, reqTarget, reqHost, got >>
    /\ ReqFrame

(* The process stops: tasks and requests are gone, rows and files stay.    *)
CrashAndRestart ==
    /\ Crashes
    /\ tpc' = [r \in Runs |-> IF tpc[r] = "idle" THEN "idle" ELSE "over"]
    /\ rpc' = [q \in Requests |-> "idle"]
    /\ UNCHANGED << clock, configVars, files, status, fileDeleted, runJob,
                    uploadTarget, place,
                    op, reqRun, seenDeleted, reqTarget, reqHost, got >>

-----------------------------------------------------------------------------
RequestStep(q) ==
    \/ FindTarget(q) \/ ReadTarget(q) \/ Download(q) \/ Remove(q)
    \/ CommandFails(q) \/ Mark(q) \/ LogFileDelete(q) \/ StatementFails(q)

TaskStep(r) ==
    \/ PrepareScheduled(r)
    \/ \E n \in FileNames : PrepareManual(r, n)
    \/ RunFails(r) \/ Upload(r) \/ Verify(r)
    \/ FinishRunSuccess(r) \/ LogDone(r)

Next ==
    \/ Tick \/ CrashAndRestart
    \/ \E j \in Jobs, t \in Targets \cup {None} : EditJob(j, t)
    \/ \E t \in Targets, h \in Hosts : EditTarget(t, h)
    \/ \E r \in Runs : \/ \E j \in Jobs : StartScheduled(r, j)
                       \/ \E t \in Targets : StartManual(r, t)
                       \/ TaskStep(r)
    \/ \E q \in Requests :
          \/ \E o \in {"download", "delete"}, r \in Runs : Ask(q, o, r)
          \/ RequestStep(q)

Spec == Init /\ [][Next]_vars

(* Requests are served.  A user whose delete failed asks again, and        *)
(* neither the statements nor the commands of such requests fail every     *)
(* time, nor does the process stop during every one.                       *)
Deleting(q, r) == op[q] = "delete" /\ reqRun[q] = r

UserRetries ==
    \A q \in Requests : WF_vars(RequestStep(q)) /\ \A r \in Runs :
        /\ SF_vars(Ask(q, "delete", r))
        /\ SF_vars(Deleting(q, r) /\ FindTarget(q))
        /\ SF_vars(Deleting(q, r) /\ ReadTarget(q))
        /\ SF_vars(Deleting(q, r) /\ (Remove(q) /\ rpc'[q] = "mark"))
        /\ SF_vars(Deleting(q, r) /\ Mark(q))

RetrySpec == Spec /\ UserRetries

-----------------------------------------------------------------------------
(* Every variable has its type.                                            *)
TypeOK ==
    /\ clock \in Seconds
    /\ jobTarget \in [Jobs -> Targets \cup {None}]
    /\ hostOf \in [Targets -> Hosts]
    /\ files \in [Places -> Runs \cup {None}]
    /\ status \in [Runs -> {"none", "Open", "Success", "Failed"}]
    /\ fileDeleted \in [Runs -> BOOLEAN]
    /\ runJob \in [Runs -> Jobs \cup {None}]
    /\ uploadTarget \in [Runs -> Targets \cup {None}]
    /\ place \in [Runs -> Places \cup {None}]
    /\ tpc \in [Runs -> TaskPCs]
    /\ rpc \in [Requests -> RequestPCs]
    /\ op \in [Requests -> {"download", "delete"}]
    /\ reqRun \in [Requests -> Runs \cup {None}]
    /\ seenDeleted \in [Requests -> BOOLEAN]
    /\ reqTarget \in [Requests -> Targets \cup {None}]
    /\ reqHost \in [Requests -> Hosts \cup {None}]
    /\ got \in [Requests -> Runs \cup {None}]

(* A download that is answered with a file is answered with the archive of *)
(* its run, although the file may have been replaced by a later upload and *)
(* the target looked at may not be the one that was uploaded to.           *)
DownloadIntegrity ==
    \A q \in Requests :
        rpc[q] = "ok" /\ op[q] = "download" => got[q] = reqRun[q]

(* A row marked file_deleted, or a delete answered with success, means     *)
(* that the archive is gone from where it was uploaded to (as long as jobs *)
(* and targets keep their addresses).                                      *)
DeletedMeansGone ==
    \A r \in Runs :
        \/ fileDeleted[r]
        \/ \E q \in Requests : rpc[q] = "ok" /\ Deleting(q, r)
        => files[place[r]] # r

(* An archive leaves its place only because a user asked to delete it, or  *)
(* because of another run that has the same place.                         *)
FileLossExplained ==
    [][ \A r \in Runs :
          place[r] # None /\ files[place[r]] = r /\ files'[place[r]] # r =>
             \/ \E q \in Requests : rpc[q] = "command" /\ Deleting(q, r)
             \/ \E r2 \in Runs \ {r} :
                   place[r2] # None /\ Path(r2) = Path(r) ]_vars

(* A delete that stopped half-way - the archive is gone, the row does not  *)
(* say so - is finished by asking again.                                   *)
HalfDeletedIsFinished ==
    \A r \in Runs :
        status[r] = "Success" /\ files[place[r]] = None
            ~> fileDeleted[r] \/ status[r] = "Failed"
=============================================================================
