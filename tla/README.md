# TLA+ specifications of database-backup-manager

The repository is a self-hosted console for database backups: a Rust server
(`crates/backup-manager`) that schedules jobs, dumps databases, compresses the
dump, uploads it over SSH and keeps a history in SQLite, and a React page
(`apps/web`) on its REST API.  This directory specifies the parts of it whose
correctness depends on order, concurrency and failure, checks them with TLC and
proves the central results with TLAPS.

Paths below are relative to `src/`; `R/` is `crates/backup-manager/src/` and
`W/` is `apps/web/src/`.

## 1. Inventory

| Component | Source | State it keeps | Operations | Hard because |
|---|---|---|---|---|
| Backup executor | `R/executor.rs` | `running_jobs` (memory), rows of `backup_runs`, `backup_run_logs`, files below `backups_dir` | `enqueue`, `execute`, the seven stages, error path | tasks interleave at every `await`; every statement can fail; restarts; a panic |
| Manual upload executor | `R/manual_upload.rs` | the same rows, `manual_backup_uploads` | `enqueue`, six stages, error path | as above, without a lock |
| Archives and their requests | `R/api.rs` 577-721, `R/adapters/target/mod.rs` | files on the targets, `remote_path`, `file_deleted` | upload, verify, download, delete | remote effect and row are two steps; the target is looked up late; names can meet |
| Target adapter commands, remote dumps and tests of a source | `R/adapters/target/mod.rs`, `R/adapters/database/mod.rs`, `R/executor.rs` 319-367 | identity files and downloads in the temporary directory | write the key, start the command, wait, clean up | calls of one target overlap; an early return, a dropped handler or a stop leaves a private key |
| Scheduler | `R/scheduler.rs` | entries of the cron library, `scheduled_jobs`, `started` | `reload` (by three handlers and `main`), firing | a cache of a table, rebuilt under a mutex, half-way on errors |
| Repository | `R/repository.rs`, `migrations/` | all tables | CRUD of sources, targets, jobs, runs, logs | foreign keys against check-then-delete; read-modify-write of secrets |
| HTTP API | `R/api.rs` | none | handlers over all the above | handlers are several statements without a transaction, and are dropped when the client goes away |
| Sessions | `R/auth.rs` | set of tokens, in memory | login, check; tokens are only ever added, the page's logout forgets its own | lost by a restart |
| Database adapters and source forms | `R/adapters/database/mod.rs`, `R/api.rs` 184-310, `R/executor.rs` 319-469 | none on the server; the dialogs' state in `W/features/sources`, `W/features/jobs` | validate, test, list, store, dump | the form that is tested, the row that is stored and the dump that is run are made from each other by four different pieces of code, while answers come late |
| Web page | `W/App.tsx`, `W/features/*` | React state | polling a run, showing logs, forms | answers come in any order |
| Crypto, config, path names | `R/crypto.rs`, `R/config.rs`, `R/path_utils.rs` | none | pure functions | |

How they interact: a trigger (the scheduler's callback, or `POST
/jobs/{id}/run`) calls `BackupExecutor::enqueue`, which inserts a row and spawns
a task; the page polls the rows and the logs.  Job handlers write a row and call
`BackupScheduler::reload`.  File requests read the rows and run a command on the
target.  Rows are the only thing that survives a restart; `running_jobs`, the
scheduler's entries, tasks and requests do not.

What makes each part correct, in one line each: a job is backed up by one task
at a time and every task releases it (executor); a row shows what happened
(executor, manual upload); a request serves or removes the archive of its own
run and says the truth about it (archives); a command finds its key and leaves no
file behind (temporary files); what was tested is what is dumped (forms); the entries are the enabled rows
(scheduler); no row refers to a row that is gone and no secret is lost by an edit
(repository); the page notices the end of the run it
started and says what its logs belong to (web).

## 2. Plan

| Order | Modules | State |
|---|---|---|
| 1 | `BackupExecutor`, `RunLifecycle` (what is promised), refinement, proofs | done |
| 2 | `RunFiles`: archives and the requests for them, proofs | done |
| 3 | `Scheduler`, proofs | done |
| 4 | `ManualUpload`: the second pipeline, without a lock, proofs | done |
| 5 | `ConfigStore`: sources, targets, jobs; foreign keys against check-then-delete; secrets under concurrent edits; proofs | done |
| 6 | `TempFiles`: identity files and downloads of every call of an external command, proofs | done |
| 7 | `SourceForms`: source and job dialogs, tests and lists, what the adapters make of a form | done |
| 8 | `RunConsole`: the page following runs: polling, log viewer | done |
| 9 | theorems of `RunConsole` and of `SourceForms` | done |
| 9a | `RunHistory`: what everybody who reads the runs relies on; both executors and the page's server side shown to implement it | done |
| 10 | sessions, as far as a stale token changes what the page does; the page's schedule editor (a form to a cron expression and back) | open |
| 11 | composition: a trigger from `Scheduler` into `BackupExecutor` into `RunFiles` | open |

Abstract specifications worth stating: the life cycle of a run (done); the run
history, which holds with all faults too (done); for the scheduler, "the entries are the enabled rows" changed in one atomic step per
request, which `Scheduler` implements while nothing fails.

Theorems are planned where an invariant holds for all values of the constants.
All safety invariants and action properties of the passing runs are proved.

## 3. Modules and how they correspond to the code

### `BackupExecutor` (with `RunLifecycle`)

One action per SQLite statement, critical section of the mutex or stage body;
`pc[r]` is the point a task has reached between two awaits.  `CreateRun` and
`InsertRun` are `create_run`, `Spawn` is `tokio::spawn` in `enqueue`; a client that
goes away in between (`ClientLeaves`) leaves a row without a task, at the state
`unspawned`.  A task that panics stays at `panicked`, its job in `running_jobs`;
`Owns` are the tasks at work and those.  `ReadJob`, `Claim`, `Refuse` and `Release` are
`execute`; `UpdateStage`, `LogStage` are `stage()`; `Body` is what `execute_steps`
does between two calls of `stage()`; `Raise`, `LogError`, `FinishRunFailed`,
`HandlerFails` are `execute_inner`'s error path.  Commands are outcomes: a body
succeeds or fails, and what is left of its error is what
`current_stage_from_error` finds (`StagesOfErrors`).  `verified` and `cause` are
the task's memory.  `DbFaults`, `Panics`, `Crashes` and `Disconnects` switch failing
statements, the panic in `truncate()`, restarts and clients that go away on.

`RunLifecycle` is the abstract specification: Pending, Running, then Success or
Failed for good; one run of a job at work at any time; a refusal only because
another one is at work.  `RefinesLifecycle` is its `Spec` under the mapping
`LifeJob`, `LifePhase`.  It is an implementation only while statements do not
fail and tasks do not panic; section 4 says what happens then.

### `RunHistory`

What is left of the life cycle when everything may fail: a run is not there, open
(Pending, Running) or closed, and moves in that direction only, one run at a time.
`BackupExecutor` and `ManualUpload` implement it under `HistoryRun`, and the
server's part of `RunConsole` is one; the three modules do not refer to each other.
It is shown by theorems, and is no property of a run.

### `RunFiles`

Where the archive of a run is.  `files` is the content of every place (a host and
a path), contents being the runs themselves; `place[r]` is where the task of `r`
uploads to, its path being the row's `remote_path`.  `Ask`, `FindTarget`,
`ReadTarget`, then `Download` or `Remove`, `Mark`, `LogFileDelete` are
`run_file_context`, `download_run_file` and `delete_run_file`, one action per
await.  `EditJob` and `EditTarget` are the handlers that change where a job's or a
target's archives go.  `CommandFails`, and the failing disjuncts of `Upload` and
`Remove`, are ssh and rsync failing before or after their effect; a request whose
client goes away behaves like one that fails.  The stages that do not matter to
files are left to `BackupExecutor`.  Directories that depend on job, host or day
are constants (`DirOf`, `ManualDir`); a day does not change during an instance.

### `Scheduler`

`entries` is what the cron library fires (external), `scheduledJobs` the ids the
server remembers.  `CreateJob`, `UpdateJob`, `DeleteJob`, `RereadJob` are the
statements of the handlers.  `reload()` is taken await by await: `Lock`, then for each
id of the drain the call of `remove()` (`Drain`) and its answer (`Removed`), `List`,
for each row the call of `add()` (`Add`) and its answer with the push of the id
(`Added`), `Start`; its early returns go through `Fail`.  `remove()` and `add()` are
messages to a task of the library (`removals`, `additions`), which carries them out
in a step of its own (`CarryOut`): a caller that leaves at that await, because an error
is returned or its handler is dropped, has a call under way that is carried out now,
later or never.  A list is the set of the rows a query returned with their places, and
`Add` takes the newest first (`IsNext`).  `Main` is the call in `main()`; the server
accepts requests when it is `up`.  `ver` counts the writes to a row, so that an entry
shows which state of the row it was made from.  `Cancel` is axum (hyper) dropping a
handler whose connection was closed; it can only do so at an await.

Two things are history.  `stale` is true after a caller left `reload()`, or never got
there, without completing it, until the table is listed again.  `lost` marks the
entries the program has lost sight of, with the number of the call that was left
unfinished: leaving `remove()` drops the unfinished `drain(..)` with the ids it has not
come to, leaving `add()` drops the one id that was to be pushed (`Forgotten`).  Such
entries fire until the process ends: no reload removes them, and neither does
deleting the job.  `Kept` are the other entries.  `InSync` and `AnsweredIsEffective`
are about `Kept` only, since of the others they are false in the code; `ScheduledOnce` is
about all of them and says how far the doubling goes: one more entry of a job for each
unfinished call.

### `ManualUpload`

The request (`Receive`, `FindTarget`, `FindSource`, then `Commit` or `Rollback`)
is `create_manual_upload` with `validate_file` and the transaction of
`create_manual_run`; a client that goes away before `Commit` behaves like a
statement that fails.  The task is `execute`, with the actions of
`BackupExecutor` and without its lock.  A form is abstracted to the source and
target it names and a `FileKinds` value: a good file, one whose name
`safe_file_name` refuses when the run is already open, one that `validate_file`
refuses before anything is stored, and none.  Sources and targets are only deleted
(`DeleteSource`, `DeleteTarget`); the module has no jobs, so the count of jobs that
`delete_target` makes never stands in the way and what is left is the foreign key.
`onTarget` is a history variable: runs whose archive `verify` has seen.

### `TempFiles`

Every call of an external command that signs in by key writes the key to a file of
its own, hands it to ssh or rsync and removes it; a download has a second file.
The same statements exist three times (`R/adapters/target/mod.rs`,
`R/adapters/database/mod.rs`, `R/executor.rs`) with different early returns.  A task
is a request or an executor task; it serves what it was asked for as a sequence of
calls (`FirstCall`, `NextCall`).  `NameKey`, `WriteKey`, `SetPermissions` are
`prepare_identity_file`; `StartCommand`, `BuildFails`, `CommandMissing`,
`CommandSucceeds`, `CommandExitsNonzero` the command; `Remove` is
`cleanup_identity_file`, whose error is ignored; `ReadCopy` and `Unlink` end a
download.  `ClientLeaves` drops a handler at the await it is in; the file operation
it had handed to tokio's blocking pool is carried out all the same (`Settled`).
`file[p].fault` is history: what went wrong first with a file.

### `SourceForms`

One browser with one user, on the tabs of sources and of jobs.  The dialogs' state
is React's (`editing`, `form`, `options`, `selected`, `signature`; `chosen`, `name`,
`names`, `loading`), one action per handler; `testing` and `loads` are the requests
under way, whose answers (`TestPasses`, `ListArrives` and their failures) are applied
to whatever dialog there is by then.  `shown` is the page's own copy of the sources
(`data.sources` in `App.tsx`), from which both panels fill their dialogs
(`OpenEditSource`, `SelectSource`); only a refresh changes it.  The one after a save may
fail without anybody being told (`RefreshAfterSave`), and one that was asked for with
the button may arrive after a newer one and replace it by what it has read earlier
(`Refresh`, `RefreshArrives`, `RefreshFails`).  `edited` is `editingSource`, the source as it
was shown when its dialog was opened.  The server's tests, lists and dumps go by `row`.
`Normalized`, `StoredRow` are what the server
does with a form, `Test`, `List`, `Dump` the commands that the adapters and the
executor make of a form or a row, as records of the program, the database and the
account, or `None` when the code refuses.  A host is a value with a fixed set of
databases (`DatabasesOf`), a form one of the records in `Forms`, which is any set of
records of the shape `AnyForm` (`AnyRow` for rows); `None` is none of the texts.  `SaveSource` and
`SaveJob` take the request and its answer together: no dialog can be opened before the
answer (`isSubmitting`), it resets the dialog, and what is done in between does not
outlive it; or the answer is lost and the dialog stays as it is.  Jobs are not kept:
since a name can always be typed once a list has failed, a dialog may edit a job of
any stored source with any name (`OpenEditJob`).  `passed`, `tested`, `had`, `filled`,
`byHand` are history.

### `RunConsole`

`App.tsx` following runs.  The server's part is the list of the last `Limit` runs
and whether each is closed.  `Post`, `PostAnswered` and the refresh that follows
(`RefreshRead`, `RefreshArrives`, `RefreshFails`) are `runJob` and the manual upload;
`PollAsks`, `PollRead`, `PollArrives`, `PollFails` the polling effect; `OpenLogs`,
`ViewRun`, `LogsArrive`, `LogsFail` the log viewer, with the effect that selects the
run of the address (`Addressed`).  Of an answer only what decides the next step is
kept: the status of the run that is waited for, and whose logs came.  `unloaded` and
`overtaken` are history: what has come since a run was selected.  Runs are never
deleted here: the page's reaction to a followed run whose job is deleted (its rows go with
it, the poll then waits for a run that is in no list) is not modelled.

### `ConfigStore`

A request is at most three statements: `ReadRow`, `WriteRow`, `RereadRow` for an
update, `CountJobs`, `DeleteRow` for a delete.  `BreakOff` ends it between two of
them, for whatever reason.  Rows have only what the properties need: whether they
are stored, a count of writes, and the secret columns, a secret being known by the
row, column and write it was typed in for.  A blank field encrypts to `Blank` in a
new row (the code does not refuse it) and keeps the old value in an update.
`latest` and `raced` are history: what users typed in last, and the rows that were
written by a request that had read an older state of them.

### Proof modules

`BackupExecutorProofs`, `RunFilesProofs`, `SchedulerProofs`, `ManualUploadProofs`,
`ConfigStoreProofs`, `TempFilesProofs`, `RunConsoleProofs` and `SourceFormsProofs` extend
the component's module and TLAPS.  `MC*` modules only name the instances' values.

## 4. Runs

Passing runs (each property has a mutated definition, next to the original and
marked `Mutant:`, that the run refutes):

| Run | Shows | Instance and why it is enough |
|---|---|---|
| `executor_faults` | `MutualExclusion`, `LockHeldByLiveTask`, `SuccessIsVerified`, `LogsExplainOutcome`, `StageNeverGoesBack`, `TerminalRowsFrozen` | two runs, two jobs, all faults: a lock needs two contenders, and two jobs show that locks do not touch each other |
| `executor_promises` | `RefinesLifecycle`, `EveryRunDecided`, `JobReleased`, `EndedRunsAreClosed` | two runs, two jobs, fair, restarts and clients that go away, no failing statement: what is promised when nothing fails that the code does not handle |
| `files_edited` | `DownloadIntegrity`, `FileLossExplained` | two runs, two targets on two hosts, one request, every edit: enough for the request to look in a wrong place that holds another run's file |
| `files_retry` | `DeletedMeansGone`, `HalfDeletedIsFinished` | one run, two requests, all faults, a user who retries: two deletes of one run, each of which can break off anywhere |
| `scheduler_reload` | `ScheduledOnce`, `InSync`, `AnsweredIsEffective`, `ReloadsEnd` | two requests, two jobs, three writes to the one (created, updated and deleted, so that an update can find its row gone), one to the other, whose schedule may be refused, all faults, dropped handlers, two calls of the library left unfinished, restarts: a reload, one waiting for it, a write in the middle, an entry of each kind lost; 460,000 states |
| `manual_faults` | `EveryRunHasItsUpload`, `ArchiveKeepsTarget`, `SuccessIsVerified`, `LogsExplainOutcome`, `EveryUploadDecided` | two uploads, one source, one target, failing statements, restarts, fair: one upload can hold the target the other has still to look for |
| `config_edits` | `NoDanglingReference`, `SecretsStayInPlace`, `BlankKeepsSecret`, `DeletedForGood` | two requests, a source with two secret columns, a target, a job, three writes to each row: an edit between another's read and write, and a delete between its statements |
| `temp_files` | `CommandsHaveTheirKey`, `FilesLeftAreExcused` | two tasks that may be asked for any of the seven things, two file names, all faults: the names are enough for two keys at the same time, and for one download with its key; more tasks and names change nothing, by the theorems `KeysAreKept` and `LeftFilesAreExcused` |
| `source_forms` | `SourcesConnectAsTested`, `DefaultDatabaseListed`, `JobDatabaseExplained` | two sources, two hosts with a database each, three forms that differ in mode, host, database type, way in and secrets, two lists under way, three saves or refreshes: the answer for one source can meet the dialog of the other, the test of one form the dialog with another, a source be automatic, manual and automatic again, and an edited source be shown as it was; 1,000,000 states |
| `run_console` | `PollsUntilClosed`, `LogsShownExplained`, `EndIsNoticed` | two runs, a list of one (`Limit`; 100 in the code), fair: an older run that drops out of the list, logs of two runs under way |

`TypeOK` is one of the properties of a run of each module but the last three.
Those of the three are in their proof modules, as `TypeCorrect`.

Bounds: the sets of ids, `MaxClock` (seconds, enough for two names),
`MaxVersion` (writes to one row), `MaxBreaks` (calls of the cron library left unfinished
since the last start), `MaxLoads` (lists under way; a user can ask for any
number), `MaxRequests` (sources saved and refreshes asked for) and `Paths` (files ever named).  In most modules rows, jobs and runs are used
once, so instances end: `CHECK_DEADLOCK FALSE` where that is so.  Symmetry is used
in safety runs only, over ids that are only compared.

Runs that are expected to fail, each a difference between the program and its
documents (quoted in `PROJECT.json`, "findings"):

| Run | What happens |
|---|---|
| `executor_dump_panics` | `truncate()` panics inside a character: Running for ever, the job blocked |
| `files_marked_elsewhere` | the job has a new target: delete marks the row, the archive stays |

The models show more of what the code does, without a run of its own; a reader
who changes the code should know of it:

- the closing log of either executor fails: the row changes from Success to
  Failed, and its archive can no longer be downloaded or deleted
  (`StatementFails` after `FinishRunSuccess`; `TerminalRowsFrozen` allows this case
  and no other);
- a refused run goes from Pending to Failed without having been Running
  (`Refuse`), and the run of a job that is deleted before its task reads it stays
  Pending for ever (`ReadJob`);
- an error without `stage=` closes the row at the stage "failed"
  (`StagesOfErrors`);
- when a job is deleted, its archives answer 404 (`FindTarget` of `RunFiles`);
- two jobs of one database in the same second, and two manual uploads of one name
  on the same day, share a remote path (`UploadTo`);
- an error or a dropped handler at the await of `remove()` or of `add()` leaves entries
  that fire and that no reload removes, not even the one after the deletion of the
  job; the next reload adds a second entry next to them (`Forgotten`, `Lose`);
- one refused schedule leaves the older jobs without an entry until it is
  corrected (`Add`), and a handler dropped between write and reload leaves the
  schedule as it was (`Cancel`);
- two updates of one source or target that overlap lose a secret (`raced`);
- a schedule the library refuses is stored all the same, and the next start of the
  server ends in `main()`'s `?`: no job runs until the row is corrected by hand
  (`Main` of `Scheduler`; the requirements only ask that the configuration outlives a
  restart, `docs/01-requirements/数据库备份管理台计划.md:469`); no property is about it, since none
  of those checked says what must hold while the server does not listen;
- a client that goes away between the row of a run and its task leaves the run
  Pending for ever (`ClientLeaves` of `BackupExecutor`);
- a target's call leaves its private key in the temporary directory when ssh, sshpass
  or rsync cannot be started; a remote test or list of a source when the SSH host is
  blank, which is looked at after the key is written; every call of a request whose
  client goes away; and a failed chmod leaves the key readable by others (`notStarted`,
  `notBuilt`, `cancelled`, `notWritten` of `TempFiles`);
- the placeholder of the source dialog, "留空表示不修改" (`W/features/sources/SourcesPanel.tsx:324`), can
  never be followed for an automatic source: saving needs a passed test of the form,
  and a test needs every secret (`StartTest`, `SaveSource`);
- a test that fails does not take back one that passed before (`TestFails`); a test
  looks at the account and the server, not at the dump program, its directory or the
  right to dump;
- a list of databases that arrives late fills the job dialog with databases of a
  source that is no longer selected, and the job is saved with one of them
  (`ListArrives`; `filled` is then not `chosen`, which `JobDatabaseExplained` does not
  forbid);
- a job is saved with the old default database of an edited source, when the refresh
  after the edit failed, which nothing shows but a line of error, or an older refresh came
  last (`RefreshAfterSave`, `RefreshArrives`, `SelectSource`);
- a save whose answer is lost is stored, and the dialog still offers to save it: a new
  source is then stored twice (`SaveSource`);
- on `/runs?runId=r1`, opening the logs of another run is taken back by the effect of
  that address, so that the dialog stays with `r1` (`Addressed`); logs that fail to
  load leave the old ones below the new selection (`LogsFail`), and logs of a poll or
  of an earlier selection replace those of the selected run (`overtaken`);
- a run that drops out of the last 100 while it is open is polled for ever, and its
  end is not noticed (`PollArrives`);
- a target with manual uploads cannot be deleted, although no job refers to it:
  the statement fails on the foreign key and the answer is 500 (`DeleteRow`).

## 5. Fairness

Executor and manual upload: weak fairness of each task's own steps, since tokio
polls every spawned task and SQLite statements return; weak fairness of a stage's
body is an assumption about mysqldump, ssh, rsync and gzip, for which the code
sets no time limit.  Archives (`files_retry` only): requests are served, and a user
who sees the row asks again, not every attempt failing (strong fairness of the
steps of a deletion).  Scheduler: requests are polled, and the mutex is tokio's,
which is handed over in the order of arrival (strong fairness of `Lock`); that the cron
library's task carries out what it is sent (weak fairness of `CarryOut`) is an
assumption about the library, without which a caller could wait for `add()` for ever
with the mutex; nothing
is assumed of `main()`, of restarts or of clients that go away.  Page: timers fire and answers
are taken over (weak fairness of `PollAsks` and `PollArrives`), and of polls that are
repeated without end not all fail (strong fairness of `PollRead`); nothing is assumed
of the user or of the runs.  The forms and the temporary files have safety properties
only.

## 6. Theorems

Every theorem is about the specification for all values of the constants that
satisfy the module's `ConstantsAssumption`.

`BackupExecutorProofs`
- `TypeCorrect`; `Exclusion` (`MutualExclusion`, all faults).  The invariant is
  `LockInv`: the job of every task between `insert` and `remove` is in
  `running_jobs` (`OwnersAreIn`), which makes the exclusion inductive: a task
  claims only a job that is not there.
- `LockExact` (`LockHeldByLiveTask`, all faults): conversely, every job in
  `running_jobs` has a task at work or one that panicked (`InHaveOwner`), preserved
  because no exit of `execute` after `Claim` but a panic skips `Release`.
- `RefusalsJustified` (all faults), from the two: a run is refused only for another
  one that owns its job.  It is proved only, being a consequence of what is checked.
- `OpenRowsExplained` (`EndedRunsAreClosed`, statements do not fail): the task of an
  open row is at work, or the row's job is gone or its task was never spawned.
- `ClosedRowsFrozen` (`TerminalRowsFrozen`, all faults): the only task that writes a
  closed row again is one whose closing log failed.  Without failing statements the
  row follows the task (`RowFollowsTask`); with them `LogFollowsTask` says that a
  closed row whose task is not at the end is a Success whose task is in the error
  handler, which has written the ERROR entry before it writes the row.
- `StagesAdvance` (`StageNeverGoesBack`, all faults): the row shows a stage the task
  has reached (`StageReached`), and a task only goes on to the next one.
- `ImplementsHistory` (all faults): each step enters at most one run into the next
  state of `RunHistory`.  A task that holds its job has a row (`RowThere`), and no
  step opens a closed one (the same lemmas, `RowSteps` and `LogInv`).
- `SuccessBehindVerify` (all faults): tasks past `verify_remote` are in
  `verified`, and only they reach `finish`.
- `LogsExplain` (all faults): the log is the prefix of the stages the task has
  been through, plus the ERROR entry the handler wrote.
- `ImplementsLifecycle` (statements do not fail, no panics): each action maps to
  an action of `RunLifecycle` or to a stutter under the mapping, using `LockInv`
  and `RowFollowsTask`.

`RunFilesProofs`
- `TypeCorrect`, strengthened with what requests and tasks remember
  (`TasksKnowPlace`, `RequestsKnowRun`).
- `ServedFilesAreRight` (all faults, all edits).
- `LossesAreExplained` (all faults, all edits): only `Upload` and `Remove` change
  files (`FilesFrame`).
- `DeletesAreTrue` (jobs and targets keep their addresses): `HomeInv` says that a
  request finds the place its run was uploaded to; `GoneInv` that an archive
  whose removal somebody counts on is gone and its task past the upload.  The
  assumption is needed: `files_marked_elsewhere` is the counterexample without it.

`ManualUploadProofs` (all faults)
- `TypeCorrect`.
- `RunsHaveUploads`, `TargetsAreKept`: `UploadInv` says that rows, uploads and
  tasks begin together, in `Commit`, and that `DeleteTarget` cannot come between.
- `SuccessBehindVerify`: `PastVerify` ties the stage a task has reached to what was
  seen of its file and its archive; it needs `UploadInv`, by which a request whose
  task is under way cannot receive another form.
- `LogsExplain`: as for the executor.
- `ClosedRowsFrozen`, `ImplementsHistory`: as for the executor; that the handler's
  ERROR entry is there before the row is written again is `ErrorBeforeSuccess`.

`ConfigStoreProofs`
- `TypeCorrect`, strengthened with what a request has read (`RequestsTyped`).
- `ReferencesHold`: inductive by itself; the proof does not use `CountJobs`, which
  shows that the foreign keys carry the property and the count only the message.
- `DeletedStaysDeleted`: only a new row or one that is stored is ever written.
- `SecretsInPlace`, `BlankKeeps`: `ReadsAreOfTheRow` says that what a request has
  read is in place, and is what is stored if nobody has written the row since.

`SchedulerProofs` (any number of jobs, requests and unfinished calls, all faults)
- `TypeCorrect`.
- `Once` (`ScheduledOnce`): `Mutex` says that one caller is in `reload()`; `Numbered` that
  ids are not used twice and that lost entries bear the number of a call that was left;
  `Remembers` that an entry of the library, or on its way there, is not lost exactly when
  its id is in `scheduled_jobs` or it is the one whose call is awaited, so that an empty
  drain means that nothing is kept; `Progress` that what is still to be
  added has no such entry.  So whatever is lost at once is at most one entry per job.
- `AnswersHold` (`AnsweredIsEffective`): once a request has listed the table, what is
  planned for its job (kept entries, and rows somebody has still to add) is not older than
  its own write (`Effective`).
- `EntriesAreRows` (`InSync`): a row that is not reflected in what is planned has a
  caller on its way to the list (`Synced`); an update that finds its row deleted is
  not one, and need not be.

`TempFilesProofs` (any number of tasks and names, all faults)
- `TypeCorrect`.
- `KeysAreKept`, `LeftFilesAreExcused`: `Inv` says what a task knows of its files at
  each statement (`KeyOK`, `CopyOK`), that no two tasks hold one name, and that a name
  nobody holds has its excuse.  A step of a task touches only names it holds or that
  are new (`Touches`), so that it is enough to look at that task and at the names it
  gives up (`StepOfOne`); the disjointness of names rests on uuids (`Fresh`).

`RunConsoleProofs` (any number of runs, any `Limit`)
- `PollingEndsRightly` (`PollsUntilClosed`): `PollInv` says that only the active run is
  polled and that an answer which says "closed" stays true, since no closed run opens.
- `ShownLogsExplained` (`LogsShownExplained`): inductive by itself.
- `ServerIsHistory`: the server that the page is modelled against is a `RunHistory`.
  What these proofs use of the runs is thus what both executors provide.
- `TypeCorrect`, `RunsAreKnown`: the server lists every run once, and what the page
  polls, shows, asks for or has in its address is one of them (`CreatedOnce`,
  `RefersToStored`).  So "not in the list" can only mean that a run has dropped out of
  it, which is the case `EndIsNoticed` excepts.

`SourceFormsProofs` (any sources, forms, hosts and secrets)
- `TypeCorrect`: with the types, `TypeInv` says that lists under way and an open
  dialog belong to stored sources and to the panel that is shown, and that whatever the
  page shows of a source, or a refresh will, was stored once (`PageTyped`).
- `ConnectAsTested` (`SourcesConnectAsTested`): `SignatureInv` says that whatever the
  user edits meanwhile, the signature in the dialog is that of the form that passed
  last, which was complete and could connect; `RowsInv` that every stored automatic
  row agrees with such a form, from which the property follows (`TestedRowsConnect`).
  The lemmas go through the three adapters, local and remote: the form that is
  tested, the row that is stored and the dump that is run name one account
  (`AgreeAccount`).
- `DefaultsAreListed` (`DefaultDatabaseListed`): from `RowsInv`.
- `JobDatabasesExplained` (`JobDatabaseExplained`): `DialogInv` relates the name in the
  job dialog to the source that filled it last or to the user; that the page's copy
  may be old comes in through `PageTyped`.

Every safety invariant and every action property of the passing runs is the subject
of a theorem, under the assumptions named above.  Only model-checked: all liveness
(`JobReleased`, `EveryRunDecided`, `EveryUploadDecided`, `HalfDeletedIsFinished`,
`ReloadsEnd`, `EndIsNoticed`), which is out of the prover's reach, and the two runs that
are expected to fail.

## 7. Not modelled

- Command lines of the database and target adapters, quoting, the Docker image:
  text, without state.  What they connect to is in `SourceForms`, their failures are
  outcomes in the other modules.
- AES-GCM (`crypto.rs`), configuration parsing, path names (`path_utils.rs`), static
  page components.
- Sessions: the server only adds tokens and forgets them in a restart; what is left,
  the page's reaction to a 401, is not in `RunConsole`.
- Of the page: the lists it shows (but the sources, in `SourceForms`), its notices, the
  logout of a 401 while a dialog is open, other users and other windows, the target dialog, the schedule editor, uploads and downloads in the browser.
- Trimming: the page trims every field, and `SourceForms` has trimmed texts only.  (A
  client of the API that does not: the test trims the remote secret, the dump uses it
  as it is.)
- Retention: the documents (architecture, 4.5 and 7) ask for it, the columns
  exist, and no code uses them; there is nothing to model.  The stage
  `local_cleanup` likewise only writes its row and its log.
- Archives left on a target by a run that failed after its upload: no row offers
  them; the documents promise nothing about them.
- Of `ManualUpload`: a handler that is dropped while its COMMIT is carried out on
  SQLite's thread, whose run then has no task; `Commit` takes commit and spawn
  together.  `BackupExecutor` has this case for scheduled jobs.
- manifest.json of a manual upload is written without flush or shutdown; an error of
  the last write is lost (`R/manual_upload.rs` 144).  Files have no content there.
