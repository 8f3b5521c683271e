------------------------ MODULE BackupExecutorProofs ------------------------
(***************************************************************************)
(* Theorems about BackupExecutor, for every set of jobs and runs.          *)
(***************************************************************************)
EXTENDS BackupExecutor, TLAPS

(* There are seven stages; the archive is verified in the last but one.    *)
LEMMA StageCount ==
    /\ LastStage = 7
    /\ Stages[1] = "prepare" /\ Stages[2] = "dump"
    /\ \A i \in 1 .. LastStage : Stages[i] = "verify_remote" <=> i = 6
  BY DEF LastStage, Stages

(* The values the executor writes into the stage column.                   *)
LEMMA StageValues ==
    /\ {"none", "done", "failed", "prepare"} \subseteq RowStages
    /\ \A i \in 1 .. LastStage : Stages[i] \in RowStages
<1>1. 1 \in 1 .. LastStage /\ Stages[1] = "prepare"
  BY StageCount
<1>2. QED
  BY <1>1 DEF RowStages

(* Whatever current_stage_from_error finds is a value of the stage column. *)
LEMMA ErrorStagesTyped ==
    ASSUME NEW i \in 1 .. LastStage, NEW c \in StagesOfErrors(Stages[i])
    PROVE  c \in RowStages
<1>1. c \in {Stages[i], "failed"}
  BY DEF StagesOfErrors
<1>2. QED
  BY <1>1, StageValues

-----------------------------------------------------------------------------
(* Appending an entry to the log of a run.                                 *)
LEMMA LogAppended ==
    ASSUME logs \in [Runs -> Seq(Entries)], NEW r \in Runs,
           NEW l \in {"INFO", "ERROR"}, NEW s \in RowStages
    PROVE  [logs EXCEPT ![r] = Append(@, Entry(l, s))] \in [Runs -> Seq(Entries)]
<1>1. Entry(l, s) \in Entries
  BY DEF Entry, Entries
<1>2. Append(logs[r], Entry(l, s)) \in Seq(Entries)
  BY <1>1
<1>3. QED
  BY <1>2

(* The type invariant is inductive once it says that a task that is on its *)
(* way knows its job.                                                      *)
JobKnown ==
    \A r \in Runs : pc[r] \notin {"idle", "done", "dead"} => backupJob[r] \in Jobs

TypeInv == TypeOK /\ JobKnown

LEMMA TypeInvInit == Init => TypeInv
<1>1. 1 \in 1 .. LastStage
  BY StageCount
<1>2. QED
  BY <1>1, StageValues DEF Init, TypeInv, TypeOK, JobKnown, Statuses, PCs

LEMMA TypeInvStep == TypeInv /\ [Next]_vars => TypeInv'
<1> SUFFICES ASSUME TypeInv, [Next]_vars
             PROVE  TypeInv'
  OBVIOUS
<1> USE DEF TypeInv, TypeOK, JobKnown, GoTo, rowVars, taskVars
<1>1. ASSUME NEW j \in Jobs, CreateJob(j) \/ DeleteJob(j)
      PROVE  TypeInv'
  BY <1>1 DEF CreateJob, DeleteJob
<1>2. ASSUME NEW r \in Runs, NEW j \in Jobs, CreateRun(r, j)
      PROVE  TypeInv'
  BY <1>2 DEF CreateRun, PCs
<1>3. ASSUME NEW r \in Runs, TaskStep(r)
      PROVE  TypeInv'
  <2>1. CASE InsertRun(r)
    BY <2>1, StageValues DEF InsertRun, PCs, Statuses
  <2>2. CASE CreateRunFails(r) \/ Spawn(r) \/ ReadJob(r) \/ ReadJobFails(r)
    BY <2>2 DEF CreateRunFails, Spawn, ReadJob, ReadJobFails, PCs
  <2>3. CASE Claim(r)
    BY <2>3 DEF Claim, PCs
  <2>4. CASE Refuse(r)
    BY <2>4, StageValues DEF Refuse, PCs, Statuses
  <2>5. CASE UpdateStage(r)
    BY <2>5, StageValues DEF UpdateStage, PCs, Statuses
  <2>6. CASE LogStage(r)
    BY <2>6, StageValues, LogAppended DEF LogStage, PCs
  <2>7. CASE StatementFails(r)
    BY <2>7, StageValues DEF StatementFails, Raise, PCs
  <2>8. CASE FinishRunSuccess(r)
    BY <2>8, StageValues DEF FinishRunSuccess, PCs, Statuses
  <2>9. CASE LogDone(r)
    BY <2>9, StageValues, LogAppended DEF LogDone, PCs
  <2>10. CASE LogError(r)
    BY <2>10, StageValues, LogAppended DEF LogError, PCs
  <2>11. CASE FinishRunFailed(r)
    BY <2>11 DEF FinishRunFailed, PCs, Statuses
  <2>12. CASE HandlerFails(r) \/ Release(r)
    BY <2>12 DEF HandlerFails, Release, PCs
  <2>13. QED
    BY <1>3, <2>1, <2>2, <2>3, <2>4, <2>5, <2>6, <2>7, <2>8, <2>9, <2>10,
       <2>11, <2>12 DEF TaskStep
<1>4. ASSUME NEW r \in Runs, BodyStep(r)
      PROVE  TypeInv'
  <2>1. CASE Body(r)
    <3>1. CASE at[r] = LastStage
      BY <2>1, <3>1 DEF Body, PCs
    <3>2. CASE at[r] # LastStage
      <4>1. at[r] + 1 \in 1 .. LastStage
        <5>1. at[r] \in 1 .. 7 /\ LastStage = 7
          BY StageCount
        <5>2. QED
          BY <3>2, <5>1
      <4>2. QED
        BY <2>1, <3>2, <4>1 DEF Body, PCs
    <3>3. QED
      BY <3>1, <3>2
  <2>2. CASE BodyFails(r)
    <3>1. PICK c \in StagesOfErrors(Stages[at[r]]) : Raise(r, "body", c)
      BY <2>2 DEF BodyFails
    <3>2. c \in RowStages
      BY ErrorStagesTyped
    <3>3. QED
      BY <3>1, <3>2 DEF Raise, PCs
  <2>3. CASE DumpPanics(r)
    BY <2>3 DEF DumpPanics, PCs
  <2>4. QED
    BY <1>4, <2>1, <2>2, <2>3 DEF BodyStep
<1>5. CASE CrashAndRestart
  BY <1>5 DEF CrashAndRestart, PCs
<1>6. CASE UNCHANGED vars
  BY <1>6 DEF vars
<1>7. ASSUME NEW r \in Runs, ClientLeaves(r)
      PROVE  TypeInv'
  BY <1>7 DEF ClientLeaves, PCs
<1>8. QED
  BY <1>1, <1>2, <1>3, <1>4, <1>5, <1>6, <1>7 DEF Next

(* The variables always have their types.                                  *)
THEOREM TypeCorrect == Spec => []TypeOK
<1>1. TypeInv => TypeOK
  BY DEF TypeInv
<1>2. QED
  BY TypeInvInit, TypeInvStep, <1>1, PTL DEF Spec

-----------------------------------------------------------------------------
(* Mutual exclusion, of the tasks at work and those that panicked.  It is  *)
(* inductive together with the fact that a job somebody owns is in         *)
(* running_jobs: Claim then finds it there, and Release takes out a job    *)
(* nobody else owns.                                                       *)
OwnersAreIn == \A r \in Runs : Owns(r) => backupJob[r] \in runningJobs

OneOwner ==
    \A q, r \in Runs : q # r /\ Owns(q) /\ Owns(r) => backupJob[q] # backupJob[r]

LockInv == TypeInv /\ OwnersAreIn /\ OneOwner

(* Steps that move a task within, into or out of the part where it neither *)
(* gains nor loses the job.                                                *)
LEMMA LockInvFrame ==
    ASSUME LockInv, UNCHANGED << backupJob, runningJobs >>,
           \A r \in Runs : Owns(r)' => Owns(r)
    PROVE  (OwnersAreIn /\ OneOwner)'
  BY DEF LockInv, OwnersAreIn, OneOwner, Owns, Holding

LEMMA LockInvStep == LockInv /\ [Next]_vars => (OwnersAreIn /\ OneOwner)'
<1> SUFFICES ASSUME LockInv, [Next]_vars
             PROVE  (OwnersAreIn /\ OneOwner)'
  OBVIOUS
<1> USE DEF TypeInv, TypeOK, JobKnown, GoTo, rowVars, taskVars, Owns, Holding, HoldingPCs
<1>0. pc \in [Runs -> PCs] /\ backupJob \in [Runs -> Jobs \cup {NoJob}]
  BY DEF LockInv
<1>1. ASSUME NEW j \in Jobs, CreateJob(j) \/ DeleteJob(j)
      PROVE  (OwnersAreIn /\ OneOwner)'
  BY <1>1, LockInvFrame DEF CreateJob, DeleteJob
<1>2. ASSUME NEW r \in Runs, NEW j \in Jobs, CreateRun(r, j)
      PROVE  (OwnersAreIn /\ OneOwner)'
  BY <1>0, <1>2 DEF CreateRun, LockInv, OwnersAreIn, OneOwner
<1>3. ASSUME NEW r \in Runs, TaskStep(r)
      PROVE  (OwnersAreIn /\ OneOwner)'
  <2>1. CASE Claim(r)
    <3>1. CASE backupJob[r] \in runningJobs
      <4>1. pc' = [pc EXCEPT ![r] = "refuse"] /\ UNCHANGED << backupJob, runningJobs >>
        BY <2>1, <3>1 DEF Claim
      <4>2. \A q \in Runs : Owns(q)' => Owns(q)
        BY <1>0, <4>1
      <4>3. QED
        BY <4>1, <4>2, LockInvFrame
    <3>2. CASE backupJob[r] \notin runningJobs
      <4>1. \A q \in Runs : Owns(q) => backupJob[q] # backupJob[r]
        BY <3>2 DEF LockInv, OwnersAreIn
      <4>2. QED
        <5>1. pc' = [pc EXCEPT ![r] = "update"] /\ backupJob' = backupJob
              /\ runningJobs' = runningJobs \cup {backupJob[r]}
          BY <2>1, <3>2 DEF Claim
        <5>2. \A q \in Runs \ {r} : Owns(q)' <=> Owns(q)
          BY <1>0, <5>1
        <5>3. OwnersAreIn'
          BY <5>1, <5>2 DEF LockInv, OwnersAreIn
        <5>4. OneOwner'
          BY <4>1, <5>1, <5>2 DEF LockInv, OneOwner
        <5>5. QED
          BY <5>3, <5>4
    <3>3. QED
      BY <3>1, <3>2
  <2>2. CASE Release(r)
    <3>1. \A q \in Runs \ {r} : Owns(q) => backupJob[q] # backupJob[r]
      BY <2>2 DEF Release, LockInv, OneOwner
    <3>2. QED
      BY <1>0, <2>2, <3>1 DEF Release, LockInv, OwnersAreIn, OneOwner
  <2>3. CASE \/ InsertRun(r) \/ CreateRunFails(r) \/ Spawn(r) \/ ReadJob(r)
             \/ ReadJobFails(r) \/ Refuse(r)
    BY <1>0, <2>3, LockInvFrame
       DEF InsertRun, CreateRunFails, Spawn, ReadJob, ReadJobFails, Refuse
  <2>4. CASE \/ UpdateStage(r) \/ LogStage(r) \/ StatementFails(r)
             \/ FinishRunSuccess(r) \/ LogDone(r)
    BY <1>0, <2>4, LockInvFrame
       DEF UpdateStage, LogStage, StatementFails, Raise, FinishRunSuccess, LogDone
  <2>5. CASE LogError(r) \/ FinishRunFailed(r) \/ HandlerFails(r)
    BY <1>0, <2>5, LockInvFrame DEF LogError, FinishRunFailed, HandlerFails
  <2>6. QED
    BY <1>3, <2>1, <2>2, <2>3, <2>4, <2>5 DEF TaskStep
<1>4. ASSUME NEW r \in Runs, BodyStep(r)
      PROVE  (OwnersAreIn /\ OneOwner)'
  BY <1>0, <1>4, LockInvFrame DEF BodyStep, Body, BodyFails, Raise, DumpPanics
<1>5. CASE CrashAndRestart
  BY <1>0, <1>5 DEF CrashAndRestart, OwnersAreIn, OneOwner
<1>6. CASE UNCHANGED vars
  BY <1>6, LockInvFrame DEF vars
<1>7. ASSUME NEW r \in Runs, ClientLeaves(r)
      PROVE  (OwnersAreIn /\ OneOwner)'
  BY <1>0, <1>7, LockInvFrame DEF ClientLeaves
<1>8. QED
  BY <1>1, <1>2, <1>3, <1>4, <1>5, <1>6, <1>7 DEF Next

LEMMA LockInvariant == Spec => []LockInv
<1>1. Init => LockInv
  BY TypeInvInit DEF Init, LockInv, OwnersAreIn, OneOwner, Owns, Holding, HoldingPCs
<1>2. LockInv /\ [Next]_vars => LockInv'
  BY LockInvStep, TypeInvStep DEF LockInv
<1>3. QED
  BY <1>1, <1>2, PTL DEF Spec

(* No two tasks work on the same job at the same time, whatever statements *)
(* fail, whoever panics and whenever the process restarts.                 *)
THEOREM Exclusion == Spec => []MutualExclusion
<1>1. LockInv => MutualExclusion
  BY DEF LockInv, OneOwner, MutualExclusion, Owns
<1>2. QED
  BY LockInvariant, <1>1, PTL

-----------------------------------------------------------------------------
(* Every job of running_jobs has a task that works, or panicked, on it.    *)
InHaveOwner ==
    \A j \in runningJobs : \E r \in Runs : Owns(r) /\ backupJob[r] = j

LEMMA InHaveOwnerFrame ==
    ASSUME InHaveOwner, UNCHANGED << backupJob, runningJobs >>,
           \A r \in Runs : Owns(r) => Owns(r)'
    PROVE  InHaveOwner'
  BY DEF InHaveOwner, Owns, Holding

LEMMA InHaveOwnerStep ==
    ASSUME LockInv, InHaveOwner, [Next]_vars
    PROVE  InHaveOwner'
<1> USE DEF TypeInv, TypeOK, JobKnown, GoTo, rowVars, taskVars, Owns, Holding, HoldingPCs
<1>0. pc \in [Runs -> PCs] /\ backupJob \in [Runs -> Jobs \cup {NoJob}]
  BY DEF LockInv
<1>1. ASSUME NEW j \in Jobs, CreateJob(j) \/ DeleteJob(j)
      PROVE  InHaveOwner'
  BY <1>1, InHaveOwnerFrame DEF CreateJob, DeleteJob
<1>2. ASSUME NEW r \in Runs, NEW j \in Jobs, CreateRun(r, j)
      PROVE  InHaveOwner'
  BY <1>0, <1>2 DEF CreateRun, InHaveOwner
<1>3. ASSUME NEW r \in Runs, TaskStep(r)
      PROVE  InHaveOwner'
  <2>1. CASE Claim(r)
    <3>1. CASE backupJob[r] \in runningJobs
      BY <1>0, <2>1, <3>1, InHaveOwnerFrame DEF Claim
    <3>2. CASE backupJob[r] \notin runningJobs
      <4>1. pc' = [pc EXCEPT ![r] = "update"] /\ backupJob' = backupJob
            /\ runningJobs' = runningJobs \cup {backupJob[r]}
        BY <2>1, <3>2 DEF Claim
      <4>2. \A q \in Runs : Owns(q) => Owns(q)'
        BY <1>0, <2>1, <4>1 DEF Claim
      <4>3. Owns(r)'
        BY <1>0, <4>1
      <4>4. QED
        BY <4>1, <4>2, <4>3 DEF InHaveOwner
    <3>3. QED
      BY <3>1, <3>2
  <2>2. CASE Release(r)
    <3>1. \A q \in Runs \ {r} : Owns(q) => Owns(q)'
      BY <1>0, <2>2 DEF Release
    <3>2. QED
      BY <2>2, <3>1 DEF Release, InHaveOwner
  <2>3. CASE \/ InsertRun(r) \/ CreateRunFails(r) \/ Spawn(r) \/ ReadJob(r)
             \/ ReadJobFails(r) \/ Refuse(r)
    BY <1>0, <2>3, InHaveOwnerFrame
       DEF InsertRun, CreateRunFails, Spawn, ReadJob, ReadJobFails, Refuse
  <2>4. CASE \/ UpdateStage(r) \/ LogStage(r) \/ StatementFails(r)
             \/ FinishRunSuccess(r) \/ LogDone(r)
    BY <1>0, <2>4, InHaveOwnerFrame
       DEF UpdateStage, LogStage, StatementFails, Raise, FinishRunSuccess, LogDone
  <2>5. CASE LogError(r) \/ FinishRunFailed(r) \/ HandlerFails(r)
    BY <1>0, <2>5, InHaveOwnerFrame DEF LogError, FinishRunFailed, HandlerFails
  <2>6. QED
    BY <1>3, <2>1, <2>2, <2>3, <2>4, <2>5 DEF TaskStep
<1>4. ASSUME NEW r \in Runs, BodyStep(r)
      PROVE  InHaveOwner'
  BY <1>0, <1>4, InHaveOwnerFrame DEF BodyStep, Body, BodyFails, Raise, DumpPanics
<1>5. CASE CrashAndRestart
  BY <1>5 DEF CrashAndRestart, InHaveOwner
<1>6. CASE UNCHANGED vars
  BY <1>6, InHaveOwnerFrame DEF vars
<1>7. ASSUME NEW r \in Runs, ClientLeaves(r)
      PROVE  InHaveOwner'
  BY <1>0, <1>7, InHaveOwnerFrame DEF ClientLeaves
<1>8. QED
  BY <1>1, <1>2, <1>3, <1>4, <1>5, <1>6, <1>7 DEF Next

LEMMA InHaveOwnerInvariant == Spec => []InHaveOwner
<1>1. Init => InHaveOwner
  BY DEF Init, InHaveOwner
<1>2. LockInv /\ InHaveOwner /\ [Next]_vars => InHaveOwner'
  BY InHaveOwnerStep
<1>3. QED
  BY <1>1, <1>2, LockInvariant, PTL DEF Spec

(* running_jobs is exactly the jobs at work and those panicked on.         *)
THEOREM LockExact == Spec => []LockHeldByLiveTask
<1>1. LockInv /\ InHaveOwner => LockHeldByLiveTask
  BY DEF LockInv, OwnersAreIn, InHaveOwner, LockHeldByLiveTask
<1>2. QED
  BY <1>1, LockInvariant, InHaveOwnerInvariant, PTL

(* A run is refused only while another works on its job or has panicked on *)
(* it: it cannot be refused for a task that ended, nor for itself.         *)
THEOREM RefusalsJustified == Spec => RefusalNeedsOwner
<1> DEFINE Justified(r) ==
        pc[r] = "claim" /\ pc'[r] = "refuse" =>
            \E q \in Runs \ {r} : Owns(q) /\ backupJob[q] = backupJob[r]
<1>1. LockInv /\ InHaveOwner /\ [Next]_vars => [\A r \in Runs : Justified(r)]_vars
  <2> SUFFICES ASSUME LockInv, InHaveOwner, Next, NEW r \in Runs,
                      pc[r] = "claim", pc'[r] = "refuse"
               PROVE  \E q \in Runs \ {r} :
                          Owns(q) /\ backupJob[q] = backupJob[r]
    OBVIOUS
  <2>1. pc \in [Runs -> PCs]
    BY DEF LockInv, TypeInv, TypeOK
  <2>2. Claim(r)
    <3> USE <2>1 DEF GoTo, taskVars
    <3>1. ASSUME NEW j \in Jobs, CreateJob(j) \/ DeleteJob(j)
          PROVE  FALSE
      BY <3>1 DEF CreateJob, DeleteJob
    <3>2. ASSUME NEW q \in Runs, NEW j \in Jobs, CreateRun(q, j)
          PROVE  FALSE
      BY <3>2 DEF CreateRun
    <3>3. ASSUME NEW q \in Runs, TaskStep(q)
          PROVE  Claim(r)
      <4>1. CASE Claim(q)
        BY <4>1 DEF Claim
      <4>2. CASE \/ InsertRun(q) \/ CreateRunFails(q) \/ Spawn(q) \/ ReadJob(q)
                 \/ ReadJobFails(q) \/ Refuse(q) \/ HandlerFails(q) \/ Release(q)
        BY <4>2 DEF InsertRun, CreateRunFails, Spawn, ReadJob, ReadJobFails, Refuse,
                    HandlerFails, Release
      <4>3. CASE \/ UpdateStage(q) \/ LogStage(q) \/ StatementFails(q)
                 \/ FinishRunSuccess(q) \/ LogDone(q) \/ LogError(q)
                 \/ FinishRunFailed(q)
        BY <4>3 DEF UpdateStage, LogStage, StatementFails, Raise,
                    FinishRunSuccess, LogDone, LogError, FinishRunFailed
      <4>4. QED
        BY <3>3, <4>1, <4>2, <4>3 DEF TaskStep
    <3>4. ASSUME NEW q \in Runs, BodyStep(q)
          PROVE  FALSE
      BY <3>4 DEF BodyStep, Body, BodyFails, Raise, DumpPanics
    <3>5. ~CrashAndRestart
      BY DEF CrashAndRestart
    <3>6. ASSUME NEW q \in Runs, ClientLeaves(q)
          PROVE  FALSE
      BY <3>6 DEF ClientLeaves
    <3>7. QED
      BY <3>1, <3>2, <3>3, <3>4, <3>5, <3>6 DEF Next
  <2>3. backupJob[r] \in runningJobs
    BY <2>1, <2>2 DEF Claim, GoTo
  <2>4. ~Owns(r)
    BY DEF Owns, Holding, HoldingPCs
  <2>5. QED
    BY <2>3, <2>4 DEF InHaveOwner
<1>2. QED
  BY <1>1, LockInvariant, InHaveOwnerInvariant, PTL DEF Spec, RefusalNeedsOwner

-----------------------------------------------------------------------------
(* What a step makes of the row of a run: its own task alone writes it.     *)
LEMMA RowSteps ==
    ASSUME TypeInv, [Next]_vars, NEW r \in Runs
    PROVE  /\ at[r] <= at'[r]
           /\ \/ status'[r] = status[r] /\ stage'[r] = stage[r]
              \/ pc[r] = "creating" /\ status'[r] = "Pending"
              \/ pc[r] = "refuse" /\ status'[r] = "Failed"
              \/ pc[r] = "update" /\ status'[r] = "Running" /\ stage'[r] = Stages[at[r]]
              \/ pc[r] = "finish" /\ status'[r] = "Success"
              \/ pc[r] = "fail" /\ status'[r] = "Failed" /\ stage'[r] = cause[r]
<1> USE DEF GoTo, rowVars, taskVars
<1>0. /\ at \in [Runs -> 1 .. 7] /\ status \in [Runs -> Statuses]
      /\ stage \in [Runs -> RowStages]
  BY StageCount DEF TypeInv, TypeOK
<1>1. ASSUME NEW j \in Jobs,
             \/ CreateJob(j) \/ DeleteJob(j)
             \/ \E q \in Runs : CreateRun(q, j)
      PROVE  UNCHANGED << rowVars, at >>
  BY <1>1 DEF CreateJob, DeleteJob, CreateRun
<1>2. ASSUME NEW q \in Runs, TaskStep(q)
      PROVE  /\ at' = at
             /\ \/ status'[r] = status[r] /\ stage'[r] = stage[r]
                \/ pc[r] = "creating" /\ status'[r] = "Pending"
                \/ pc[r] = "refuse" /\ status'[r] = "Failed"
                \/ pc[r] = "update" /\ status'[r] = "Running" /\ stage'[r] = Stages[at[r]]
                \/ pc[r] = "finish" /\ status'[r] = "Success"
                \/ pc[r] = "fail" /\ status'[r] = "Failed" /\ stage'[r] = cause[r]
  <2>1. CASE InsertRun(q) \/ Refuse(q)
    BY <1>0, <2>1 DEF InsertRun, Refuse
  <2>2. CASE UpdateStage(q) \/ FinishRunSuccess(q) \/ FinishRunFailed(q)
    BY <1>0, <2>2 DEF UpdateStage, FinishRunSuccess, FinishRunFailed
  <2>3. CASE \/ CreateRunFails(q) \/ Spawn(q) \/ ReadJob(q)
             \/ ReadJobFails(q) \/ Claim(q)
    BY <2>3 DEF CreateRunFails, Spawn, ReadJob, ReadJobFails, Claim
  <2>4. CASE \/ LogStage(q) \/ StatementFails(q) \/ LogDone(q) \/ LogError(q)
             \/ HandlerFails(q) \/ Release(q)
    BY <2>4 DEF LogStage, StatementFails, Raise, LogDone, LogError,
                HandlerFails, Release
  <2>5. QED
    BY <1>2, <2>1, <2>2, <2>3, <2>4 DEF TaskStep
<1>3. ASSUME NEW q \in Runs, BodyStep(q)
      PROVE  UNCHANGED rowVars /\ at[r] <= at'[r]
  <2>1. CASE Body(q)
    <3>1. at' = at \/ at' = [at EXCEPT ![q] = @ + 1]
      BY <2>1 DEF Body
    <3>2. QED
      BY <1>0, <2>1, <3>1 DEF Body
  <2>2. CASE BodyFails(q) \/ DumpPanics(q)
    BY <1>0, <2>2 DEF BodyFails, Raise, DumpPanics
  <2>3. QED
    BY <1>3, <2>1, <2>2 DEF BodyStep
<1>4. CASE CrashAndRestart \/ UNCHANGED vars \/ \E q \in Runs : ClientLeaves(q)
  BY <1>0, <1>4 DEF CrashAndRestart, vars, ClientLeaves
<1>5. QED
  BY <1>0, <1>1, <1>2, <1>3, <1>4 DEF Next

-----------------------------------------------------------------------------
(* If no statement fails, the row tells where its task is.                 *)
RowFollowsTask ==
    \A r \in Runs :
        /\ pc[r] \in {"idle", "creating"} => status[r] = "none"
        /\ pc[r] \in {"inserted", "queued", "claim", "refuse"} => status[r] = "Pending"
        /\ pc[r] = "unspawned" => status[r] \in {"none", "Pending"}
        /\ pc[r] = "panicked" => status[r] = "Running"
        /\ pc[r] = "update" => status[r] \in {"Pending", "Running"}
        /\ pc[r] \in {"log", "body", "finish", "logError", "fail"} =>
              status[r] = "Running"
        /\ pc[r] = "logDone" => status[r] = "Success"
        /\ pc[r] = "release" => status[r] \in {"Success", "Failed"}

LEMMA RowFollowsTaskStep ==
    ASSUME ~DbFaults, TypeInv, RowFollowsTask, [Next]_vars
    PROVE  RowFollowsTask'
<1> USE DEF GoTo, rowVars, taskVars, RowFollowsTask
<1>0. pc \in [Runs -> PCs] /\ status \in [Runs -> Statuses]
  BY DEF TypeInv, TypeOK
<1>1. ASSUME NEW j \in Jobs, CreateJob(j) \/ DeleteJob(j)
      PROVE  RowFollowsTask'
  BY <1>1 DEF CreateJob, DeleteJob
<1>2. ASSUME NEW r \in Runs, NEW j \in Jobs, CreateRun(r, j)
      PROVE  RowFollowsTask'
  BY <1>0, <1>2 DEF CreateRun
<1>3. ASSUME NEW r \in Runs, TaskStep(r)
      PROVE  RowFollowsTask'
  <2>1. CASE \/ InsertRun(r) \/ CreateRunFails(r) \/ Spawn(r) \/ ReadJob(r)
             \/ ReadJobFails(r) \/ Claim(r)
    BY <1>0, <2>1 DEF InsertRun, CreateRunFails, Spawn, ReadJob, ReadJobFails, Claim
  <2>2. CASE Refuse(r) \/ UpdateStage(r) \/ LogStage(r) \/ FinishRunSuccess(r)
    BY <1>0, <2>2 DEF Refuse, UpdateStage, LogStage, FinishRunSuccess
  <2>3. CASE LogDone(r) \/ LogError(r) \/ FinishRunFailed(r) \/ Release(r)
    BY <1>0, <2>3 DEF LogDone, LogError, FinishRunFailed, Release
  <2>4. ~StatementFails(r) /\ ~HandlerFails(r)
    BY DEF StatementFails, HandlerFails
  <2>5. QED
    BY <1>3, <2>1, <2>2, <2>3, <2>4 DEF TaskStep
<1>4. ASSUME NEW r \in Runs, BodyStep(r)
      PROVE  RowFollowsTask'
  BY <1>0, <1>4 DEF BodyStep, Body, BodyFails, Raise, DumpPanics
<1>5. CASE CrashAndRestart
  BY <1>0, <1>5 DEF CrashAndRestart
<1>6. CASE UNCHANGED vars
  BY <1>6 DEF vars
<1>7. ASSUME NEW r \in Runs, ClientLeaves(r)
      PROVE  RowFollowsTask'
  BY <1>0, <1>7 DEF ClientLeaves
<1>8. QED
  BY <1>1, <1>2, <1>3, <1>4, <1>5, <1>6, <1>7 DEF Next

LEMMA RowFollowsTaskInvariant == ASSUME ~DbFaults PROVE Spec => []RowFollowsTask
<1>1. Init => RowFollowsTask
  BY DEF Init, RowFollowsTask
<1>2. LockInv /\ RowFollowsTask /\ [Next]_vars => RowFollowsTask'
  BY RowFollowsTaskStep DEF LockInv
<1>3. QED
  BY <1>1, <1>2, LockInvariant, PTL DEF Spec

-----------------------------------------------------------------------------
(* Success is shown only behind a verified upload: a task past stage six   *)
(* has seen its archive on the target, and it starts at stage one.         *)
PastVerify ==
    \A r \in Runs :
        /\ pc[r] \in {"idle", "creating", "inserted", "queued", "claim"} => at[r] = 1
        /\ pc[r] \in {"update", "log", "body"} /\ at[r] = LastStage => r \in verified
        /\ pc[r] \in {"finish", "logDone"} => r \in verified

LEMMA VerifyStep ==
    ASSUME TypeInv, PastVerify, SuccessIsVerified, [Next]_vars
    PROVE  (PastVerify /\ SuccessIsVerified)'
<1> USE DEF GoTo, rowVars, taskVars, PastVerify, SuccessIsVerified
<1>0. /\ pc \in [Runs -> PCs] /\ status \in [Runs -> Statuses]
      /\ archived \in [Runs -> BOOLEAN] /\ at \in [Runs -> 1 .. LastStage]
  BY DEF TypeInv, TypeOK
<1>1. ASSUME NEW j \in Jobs, CreateJob(j) \/ DeleteJob(j)
      PROVE  (PastVerify /\ SuccessIsVerified)'
  BY <1>1 DEF CreateJob, DeleteJob
<1>2. ASSUME NEW r \in Runs, NEW j \in Jobs, CreateRun(r, j)
      PROVE  (PastVerify /\ SuccessIsVerified)'
  BY <1>0, <1>2 DEF CreateRun
<1>3. ASSUME NEW r \in Runs, TaskStep(r)
      PROVE  (PastVerify /\ SuccessIsVerified)'
  <2>1. CASE \/ InsertRun(r) \/ CreateRunFails(r) \/ Spawn(r) \/ ReadJob(r)
             \/ ReadJobFails(r) \/ Refuse(r)
    BY <1>0, <2>1 DEF InsertRun, CreateRunFails, Spawn, ReadJob, ReadJobFails, Refuse
  <2>2. CASE Claim(r)
    BY <1>0, <2>2, StageCount DEF Claim
  <2>3. CASE UpdateStage(r) \/ LogStage(r) \/ StatementFails(r)
    BY <1>0, <2>3 DEF UpdateStage, LogStage, StatementFails, Raise
  <2>4. CASE FinishRunSuccess(r) \/ LogDone(r)
    BY <1>0, <2>4 DEF FinishRunSuccess, LogDone
  <2>5. CASE LogError(r) \/ FinishRunFailed(r) \/ HandlerFails(r) \/ Release(r)
    BY <1>0, <2>5 DEF LogError, FinishRunFailed, HandlerFails, Release
  <2>6. QED
    BY <1>3, <2>1, <2>2, <2>3, <2>4, <2>5 DEF TaskStep
<1>4. ASSUME NEW r \in Runs, BodyStep(r)
      PROVE  (PastVerify /\ SuccessIsVerified)'
  <2>1. CASE Body(r)
    <3>1. CASE at[r] = LastStage
      BY <1>0, <2>1, <3>1 DEF Body
    <3>2. CASE at[r] # LastStage
      <4>1. at' = [at EXCEPT ![r] = @ + 1] /\ pc' = [pc EXCEPT ![r] = "update"]
        BY <2>1, <3>2 DEF Body
      <4>2. at'[r] = LastStage => r \in verified'
        <5>1. at[r] \in 1 .. 7 /\ LastStage = 7
          BY <1>0, StageCount
        <5>2. at'[r] = LastStage => Stages[at[r]] = "verify_remote"
          BY <1>0, <4>1, <5>1, StageCount
        <5>3. QED
          BY <2>1, <5>2 DEF Body
      <4>3. verified \subseteq verified' /\ UNCHANGED << status, archived >>
        BY <2>1 DEF Body
      <4>4. QED
        BY <1>0, <4>1, <4>2, <4>3
    <3>3. QED
      BY <3>1, <3>2
  <2>2. CASE BodyFails(r) \/ DumpPanics(r)
    BY <1>0, <2>2 DEF BodyFails, Raise, DumpPanics
  <2>3. QED
    BY <1>4, <2>1, <2>2 DEF BodyStep
<1>5. CASE CrashAndRestart
  BY <1>0, <1>5 DEF CrashAndRestart
<1>6. CASE UNCHANGED vars
  BY <1>6 DEF vars
<1>7. ASSUME NEW r \in Runs, ClientLeaves(r)
      PROVE  (PastVerify /\ SuccessIsVerified)'
  BY <1>0, <1>7 DEF ClientLeaves
<1>8. QED
  BY <1>1, <1>2, <1>3, <1>4, <1>5, <1>6, <1>7 DEF Next

(* A row shows Success, or a file to download, only after the upload of    *)
(* its archive was verified, whatever fails, panics or restarts.           *)
THEOREM SuccessBehindVerify == Spec => []SuccessIsVerified
<1>1. Init => PastVerify /\ SuccessIsVerified
  BY StageCount DEF Init, PastVerify, SuccessIsVerified
<1>2. LockInv /\ PastVerify /\ SuccessIsVerified /\ [Next]_vars
        => (PastVerify /\ SuccessIsVerified)'
  BY VerifyStep DEF LockInv
<1>3. QED
  BY <1>1, <1>2, LockInvariant, PTL DEF Spec

-----------------------------------------------------------------------------
(* What the log of a run holds at each point of its task.                  *)
FirstStages(l, n) ==
    Len(l) = n /\ \A i \in 1 .. n : l[i] = Entry("INFO", Stages[i])

LogFollowsTask(r) ==
    /\ pc[r] \in {"idle", "creating", "inserted", "queued", "claim", "refuse",
                  "unspawned"} =>
          logs[r] = << >> /\ at[r] = 1
    /\ pc[r] \in {"update", "log"} => FirstStages(logs[r], at[r] - 1)
    /\ pc[r] = "body" => FirstStages(logs[r], at[r])
    /\ pc[r] \in {"finish", "logDone"} => FirstStages(logs[r], LastStage)
    /\ pc[r] = "fail" => /\ Len(logs[r]) > 0
                        /\ logs[r][Len(logs[r])] = Entry("ERROR", cause[r])
    /\ status[r] = "Failed" => pc[r] \in {"release", "done", "dead"}
    /\ status[r] = "Success" =>
          pc[r] \in {"logDone", "logError", "fail", "release", "done", "dead"}

Explained(r) ==
    /\ status[r] = "Success" =>
          /\ Len(logs[r]) >= LastStage
          /\ \A i \in 1 .. LastStage : logs[r][i] = Entry("INFO", Stages[i])
    /\ status[r] = "Failed" =>
          IF logs[r] = << >>
          THEN stage[r] = "prepare"
          ELSE logs[r][Len(logs[r])] = Entry("ERROR", stage[r])

LogInv == \A r \in Runs : LogFollowsTask(r) /\ Explained(r)

(* What appending an entry does to a log.                                  *)
LEMMA LogGrows ==
    ASSUME NEW l \in Seq(Entries), NEW e \in Entries
    PROVE  /\ Append(l, e) \in Seq(Entries)
           /\ Append(l, e) # << >>
           /\ Len(Append(l, e)) = Len(l) + 1
           /\ Append(l, e)[Len(l) + 1] = e
           /\ \A i \in 1 .. Len(l) : Append(l, e)[i] = l[i]
  OBVIOUS

(* The log of the next stage extends the log of the first ones.            *)
LEMMA FirstStagesGrow ==
    ASSUME NEW l \in Seq(Entries), NEW n \in 1 .. LastStage, FirstStages(l, n - 1)
    PROVE  FirstStages(Append(l, Entry("INFO", Stages[n])), n)
<1>1. n \in 1 .. 7
  BY StageCount
<1>2. Entry("INFO", Stages[n]) \in Entries
  BY StageValues DEF Entry, Entries
<1>3. QED
  BY <1>1, <1>2, LogGrows DEF FirstStages

(* A step of one task only changes the log and the row of its run.         *)
LEMMA LogInvFrame ==
    ASSUME LogInv, NEW r \in Runs,
           \A q \in Runs \ {r} :
              /\ pc'[q] = pc[q] /\ at'[q] = at[q] /\ cause'[q] = cause[q]
              /\ logs'[q] = logs[q] /\ status'[q] = status[q] /\ stage'[q] = stage[q],
           (LogFollowsTask(r) /\ Explained(r))'
    PROVE  LogInv'
<1>1. ASSUME NEW q \in Runs \ {r}
      PROVE  (LogFollowsTask(q) /\ Explained(q))'
  BY <1>1 DEF LogInv, LogFollowsTask, Explained, FirstStages
<1>2. QED
  BY <1>1 DEF LogInv

LEMMA LogInvStep ==
    ASSUME TypeInv, LogInv, [Next]_vars
    PROVE  LogInv'
<1> USE DEF GoTo, rowVars, taskVars
<1>0. /\ pc \in [Runs -> PCs] /\ status \in [Runs -> Statuses]
      /\ stage \in [Runs -> RowStages] /\ cause \in [Runs -> RowStages]
      /\ logs \in [Runs -> Seq(Entries)] /\ at \in [Runs -> 1 .. LastStage]
  BY DEF TypeInv, TypeOK
<1>1. ASSUME NEW j \in Jobs, CreateJob(j) \/ DeleteJob(j)
      PROVE  LogInv'
  BY <1>1 DEF CreateJob, DeleteJob, LogInv, LogFollowsTask, Explained, FirstStages
<1>2. ASSUME NEW r \in Runs, NEW j \in Jobs, CreateRun(r, j)
      PROVE  LogInv'
  <2>1. (LogFollowsTask(r) /\ Explained(r))'
    BY <1>0, <1>2 DEF CreateRun, LogInv, LogFollowsTask, Explained
  <2>2. QED
    BY <1>0, <1>2, <2>1, LogInvFrame DEF CreateRun
<1>3. ASSUME NEW r \in Runs, TaskStep(r)
      PROVE  LogInv'
  <2>0. LogFollowsTask(r) /\ Explained(r)
    BY DEF LogInv
  <2>1. CASE \/ InsertRun(r) \/ CreateRunFails(r) \/ Spawn(r) \/ ReadJob(r)
             \/ ReadJobFails(r) \/ Refuse(r)
    <3>1. /\ logs'[r] = << >> /\ at'[r] = 1
          /\ pc'[r] \in {"inserted", "queued", "claim", "done"}
          /\ \/ status'[r] = status[r]
             \/ status'[r] = "Pending"
             \/ status'[r] = "Failed" /\ stage'[r] = "prepare" /\ pc'[r] = "done"
      BY <1>0, <2>0, <2>1 DEF InsertRun, CreateRunFails, Spawn, ReadJob, ReadJobFails,
                              Refuse, LogFollowsTask
    <3>2. status[r] \notin {"Success", "Failed"}
      BY <2>0, <2>1 DEF InsertRun, CreateRunFails, Spawn, ReadJob, ReadJobFails,
                        Refuse, LogFollowsTask
    <3>3. (LogFollowsTask(r) /\ Explained(r))'
      BY <3>1, <3>2 DEF LogFollowsTask, Explained
    <3>4. QED
      BY <1>0, <2>1, <3>3, LogInvFrame
         DEF InsertRun, CreateRunFails, Spawn, ReadJob, ReadJobFails, Refuse
  <2>2. CASE Claim(r)
    <3>1. /\ logs'[r] = << >> /\ at'[r] = 1
          /\ pc'[r] \in {"refuse", "update"} /\ status'[r] = status[r]
          /\ status[r] \notin {"Success", "Failed"}
      BY <1>0, <2>0, <2>2 DEF Claim, LogFollowsTask
    <3>2. FirstStages(logs'[r], at'[r] - 1)
      BY <3>1 DEF FirstStages
    <3>3. (LogFollowsTask(r) /\ Explained(r))'
      BY <3>1, <3>2 DEF LogFollowsTask, Explained, FirstStages
    <3>4. QED
      BY <1>0, <2>2, <3>3, LogInvFrame DEF Claim
  <2>3. CASE UpdateStage(r)
    <3>1. /\ logs'[r] = logs[r] /\ at'[r] = at[r] /\ pc'[r] = "log"
          /\ status'[r] = "Running" /\ FirstStages(logs[r], at[r] - 1)
      BY <1>0, <2>0, <2>3 DEF UpdateStage, LogFollowsTask
    <3>2. (LogFollowsTask(r) /\ Explained(r))'
      BY <3>1 DEF LogFollowsTask, Explained, FirstStages
    <3>3. QED
      BY <1>0, <2>3, <3>2, LogInvFrame DEF UpdateStage
  <2>4. CASE LogStage(r)
    <3>1. /\ logs'[r] = Append(logs[r], Entry("INFO", Stages[at[r]]))
          /\ at'[r] = at[r] /\ pc'[r] = "body" /\ status'[r] = status[r]
          /\ status[r] \notin {"Success", "Failed"}
          /\ FirstStages(logs[r], at[r] - 1)
      BY <1>0, <2>0, <2>4 DEF LogStage, LogFollowsTask
    <3>2. FirstStages(logs'[r], at'[r])
      BY <1>0, <3>1, FirstStagesGrow
    <3>3. (LogFollowsTask(r) /\ Explained(r))'
      BY <3>1, <3>2 DEF LogFollowsTask, Explained, FirstStages
    <3>4. QED
      BY <1>0, <2>4, <3>3, LogInvFrame DEF LogStage
  <2>5. CASE StatementFails(r)
    <3>1. /\ logs'[r] = logs[r] /\ status'[r] = status[r] /\ stage'[r] = stage[r]
          /\ pc'[r] = "logError" /\ status[r] # "Failed"
      BY <1>0, <2>0, <2>5 DEF StatementFails, Raise, LogFollowsTask
    <3>2. (LogFollowsTask(r) /\ Explained(r))'
      BY <2>0, <3>1 DEF LogFollowsTask, Explained
    <3>3. QED
      BY <1>0, <2>5, <3>2, LogInvFrame DEF StatementFails, Raise
  <2>6. CASE FinishRunSuccess(r)
    <3>1. /\ logs'[r] = logs[r] /\ status'[r] = "Success" /\ pc'[r] = "logDone"
          /\ FirstStages(logs[r], LastStage)
      BY <1>0, <2>0, <2>6 DEF FinishRunSuccess, LogFollowsTask
    <3>2. (LogFollowsTask(r) /\ Explained(r))'
      BY <3>1, StageCount DEF LogFollowsTask, Explained, FirstStages
    <3>3. QED
      BY <1>0, <2>6, <3>2, LogInvFrame DEF FinishRunSuccess
  <2>7. CASE LogDone(r) \/ LogError(r)
    <3>1. PICK l \in {"INFO", "ERROR"}, s \in RowStages :
             /\ logs'[r] = Append(logs[r], Entry(l, s))
             /\ LogError(r) => l = "ERROR" /\ s = cause[r]
      BY <1>0, <2>7, StageValues DEF LogDone, LogError
    <3>2. Entry(l, s) \in Entries
      BY DEF Entry, Entries
    <3>3. /\ logs'[r] # << >> /\ Len(logs'[r]) = Len(logs[r]) + 1
          /\ logs'[r][Len(logs'[r])] = Entry(l, s)
          /\ \A i \in 1 .. Len(logs[r]) : logs'[r][i] = logs[r][i]
      <4>1. logs[r] \in Seq(Entries)
        BY <1>0
      <4>2. logs'[r] = Append(logs[r], Entry(l, s))
        BY <3>1
      <4>3. QED
        BY <3>2, <4>1, <4>2, LogGrows
    <3>4. /\ status'[r] = status[r] /\ status[r] # "Failed" /\ cause'[r] = cause[r]
          /\ \/ LogDone(r) /\ pc'[r] = "release"
             \/ LogError(r) /\ pc'[r] = "fail"
      BY <1>0, <2>0, <2>7 DEF LogDone, LogError, LogFollowsTask
    <3>5. Len(logs[r]) \in Nat /\ LastStage = 7
      BY <1>0, StageCount
    <3>6. Explained(r)'
      <4>1. ASSUME status[r] = "Success"
            PROVE  /\ Len(logs'[r]) >= LastStage
                   /\ \A i \in 1 .. LastStage : logs'[r][i] = Entry("INFO", Stages[i])
        <5>1. /\ Len(logs[r]) >= 7
              /\ \A i \in 1 .. 7 : logs[r][i] = Entry("INFO", Stages[i])
          BY <2>0, <3>5, <4>1 DEF Explained
        <5>2. \A i \in 1 .. 7 : i \in 1 .. Len(logs[r])
          BY <3>5, <5>1
        <5>3. QED
          BY <3>3, <3>5, <5>1, <5>2
      <4>2. QED
        BY <3>4, <4>1 DEF Explained
    <3>7. LogFollowsTask(r)'
      BY <3>1, <3>3, <3>4, <3>5 DEF LogFollowsTask
    <3>8. QED
      BY <1>0, <2>7, <3>6, <3>7, LogInvFrame DEF LogDone, LogError
  <2>8. CASE FinishRunFailed(r)
    <3>1. /\ logs'[r] = logs[r] /\ status'[r] = "Failed" /\ stage'[r] = cause[r]
          /\ pc'[r] = "release" /\ Len(logs[r]) > 0
          /\ logs[r][Len(logs[r])] = Entry("ERROR", cause[r])
      BY <1>0, <2>0, <2>8 DEF FinishRunFailed, LogFollowsTask
    <3>2. logs'[r] # << >>
      BY <3>1
    <3>3. (LogFollowsTask(r) /\ Explained(r))'
      BY <3>1, <3>2 DEF LogFollowsTask, Explained
    <3>4. QED
      BY <1>0, <2>8, <3>3, LogInvFrame DEF FinishRunFailed
  <2>9. CASE HandlerFails(r) \/ Release(r)
    <3>1. /\ logs'[r] = logs[r] /\ status'[r] = status[r] /\ stage'[r] = stage[r]
          /\ pc'[r] \in {"release", "done"}
      BY <1>0, <2>9 DEF HandlerFails, Release
    <3>2. (LogFollowsTask(r) /\ Explained(r))'
      BY <2>0, <3>1 DEF LogFollowsTask, Explained
    <3>3. QED
      BY <1>0, <2>9, <3>2, LogInvFrame DEF HandlerFails, Release
  <2>10. QED
    BY <1>3, <2>1, <2>2, <2>3, <2>4, <2>5, <2>6, <2>7, <2>8, <2>9 DEF TaskStep
<1>4. ASSUME NEW r \in Runs, BodyStep(r)
      PROVE  LogInv'
  <2>0. LogFollowsTask(r) /\ Explained(r)
    BY DEF LogInv
  <2>1. /\ logs'[r] = logs[r] /\ status'[r] = status[r] /\ stage'[r] = stage[r]
        /\ FirstStages(logs[r], at[r]) /\ status[r] \notin {"Success", "Failed"}
    BY <1>0, <1>4, <2>0
       DEF BodyStep, Body, BodyFails, Raise, DumpPanics, LogFollowsTask
  <2>2. \/ pc'[r] \in {"logError", "panicked"}
        \/ pc'[r] = "finish" /\ at[r] = LastStage
        \/ pc'[r] = "update" /\ at'[r] = at[r] + 1
    BY <1>0, <1>4 DEF BodyStep, Body, BodyFails, Raise, DumpPanics
  <2>3. at[r] \in Nat
    <3>1. at[r] \in 1 .. LastStage
      BY <1>0
    <3>2. QED
      BY <3>1
  <2>4. (LogFollowsTask(r) /\ Explained(r))'
    BY <2>1, <2>2, <2>3 DEF LogFollowsTask, Explained, FirstStages
  <2>5. QED
    BY <1>0, <1>4, <2>4, LogInvFrame DEF BodyStep, Body, BodyFails, Raise, DumpPanics
<1>5. CASE CrashAndRestart
  <2>1. ASSUME NEW r \in Runs
        PROVE  (LogFollowsTask(r) /\ Explained(r))'
    <3>1. /\ pc'[r] = IF pc[r] \in {"idle", "done"} THEN pc[r] ELSE "dead"
          /\ UNCHANGED << logs, status, stage, at >>
      BY <1>5 DEF CrashAndRestart
    <3>2. LogFollowsTask(r) /\ Explained(r)
      BY DEF LogInv
    <3>3. QED
      BY <3>1, <3>2 DEF LogFollowsTask, Explained
  <2>2. QED
    BY <2>1 DEF LogInv
<1>6. CASE UNCHANGED vars
  BY <1>6 DEF vars, LogInv, LogFollowsTask, Explained, FirstStages
<1>7. ASSUME NEW r \in Runs, ClientLeaves(r)
      PROVE  LogInv'
  <2>1. LogFollowsTask(r) /\ Explained(r)
    BY DEF LogInv
  <2>2. /\ pc[r] \in {"creating", "inserted"} /\ pc'[r] = "unspawned"
        /\ UNCHANGED << logs, status, stage, at, cause >>
    BY <1>0, <1>7 DEF ClientLeaves
  <2>3. (LogFollowsTask(r) /\ Explained(r))'
    BY <2>1, <2>2 DEF LogFollowsTask, Explained
  <2>4. QED
    BY <1>0, <1>7, <2>3, LogInvFrame DEF ClientLeaves
<1>8. QED
  BY <1>1, <1>2, <1>3, <1>4, <1>5, <1>6, <1>7 DEF Next

LEMMA LogInvariant == Spec => []LogInv
<1>1. Init => LogInv
  BY DEF Init, LogInv, LogFollowsTask, Explained
<1>2. LockInv /\ LogInv /\ [Next]_vars => LogInv'
  BY LogInvStep DEF LockInv
<1>3. QED
  BY <1>1, <1>2, LockInvariant, PTL DEF Spec

(* The log always explains how a closed run ended, whatever fails, panics  *)
(* or restarts.                                                            *)
THEOREM LogsExplain == Spec => []LogsExplainOutcome
<1>1. LogInv => LogsExplainOutcome
  BY DEF LogInv, Explained, LogsExplainOutcome
<1>2. QED
  BY <1>1, LogInvariant, PTL

-----------------------------------------------------------------------------
(* The stage a row shows.                                                  *)

LEMMA StagesDistinct ==
    \A i, k \in 1 .. LastStage : Stages[i] = Stages[k] => i = k
<1>1. \A i, k \in 1 .. 7 : Stages[i] = Stages[k] => i = k
  BY DEF Stages
<1>2. QED
  BY <1>1, StageCount

(* A row that is Running shows a stage its task has reached.               *)
StageReached ==
    \A r \in Runs : \A i \in 1 .. LastStage :
        status[r] = "Running" /\ stage[r] = Stages[i] => i <= at[r]

LEMMA StageReachedInvariant == Spec => []StageReached
<1>1. Init => StageReached
  BY DEF Init, StageReached
<1>2. ASSUME TypeInv, StageReached, [Next]_vars PROVE StageReached'
  <2> SUFFICES ASSUME NEW r \in Runs, NEW i \in 1 .. LastStage,
                      status'[r] = "Running", stage'[r] = Stages[i]
               PROVE  i <= at'[r]
    BY DEF StageReached
  <2>1. /\ i \in 1 .. 7 /\ at[r] \in 1 .. 7 /\ at'[r] \in 1 .. 7
        /\ at[r] \in 1 .. LastStage
    BY <1>2, TypeInvStep, StageCount DEF TypeInv, TypeOK
  <2>2. /\ at[r] <= at'[r]
        /\ \/ status'[r] = status[r] /\ stage'[r] = stage[r]
           \/ stage'[r] = Stages[at[r]]
    BY <1>2, RowSteps
  <2>3. i <= at[r]
    BY <1>2, <2>1, <2>2, StagesDistinct DEF StageReached
  <2>4. QED
    BY <2>1, <2>2, <2>3
<1>3. QED
  BY <1>1, <1>2, LockInvariant, PTL DEF Spec, LockInv

(* With all faults, the stage of a run that goes on never moves back.      *)
THEOREM StagesAdvance == Spec => StageNeverGoesBack
<1> DEFINE Forward(r) ==
        \A i, k \in 1 .. LastStage :
          /\ status[r] = "Running" /\ stage[r] = Stages[i]
          /\ status'[r] = "Running" /\ stage'[r] = Stages[k]
          => i <= k
<1>1. TypeInv /\ StageReached /\ [Next]_vars => [\A r \in Runs : Forward(r)]_vars
  <2> SUFFICES ASSUME TypeInv, StageReached, [Next]_vars, NEW r \in Runs,
                      NEW i \in 1 .. LastStage, NEW k \in 1 .. LastStage,
                      status[r] = "Running", stage[r] = Stages[i],
                      status'[r] = "Running", stage'[r] = Stages[k]
               PROVE  i <= k
    OBVIOUS
  <2>1. i \in 1 .. 7 /\ k \in 1 .. 7 /\ at[r] \in 1 .. LastStage
    BY StageCount DEF TypeInv, TypeOK
  <2>2. i <= at[r]
    BY DEF StageReached
  <2>3. stage'[r] = stage[r] \/ stage'[r] = Stages[at[r]]
    BY RowSteps
  <2>4. k = i \/ k = at[r]
    BY <2>1, <2>3, StagesDistinct
  <2>5. QED
    BY <2>1, <2>2, <2>4
<1>2. QED
  BY <1>1, LockInvariant, StageReachedInvariant, PTL
     DEF Spec, LockInv, StageNeverGoesBack

-----------------------------------------------------------------------------
(* While statements do not fail, the row follows its task.                  *)
LEMMA RowFollowsUnlessFaults == Spec => [](DbFaults \/ RowFollowsTask)
<1>1. Init => RowFollowsTask
  BY DEF Init, RowFollowsTask
<1>2. LockInv /\ (DbFaults \/ RowFollowsTask) /\ [Next]_vars
        => (DbFaults \/ RowFollowsTask)'
  BY RowFollowsTaskStep DEF LockInv
<1>3. QED
  BY <1>1, <1>2, LockInvariant, PTL DEF Spec

(* With all faults, a closed row is written at most once more: when its     *)
(* closing log fails, a Success becomes Failed and the log says why.        *)
THEOREM ClosedRowsFrozen == Spec => TerminalRowsFrozen
<1> DEFINE Frozen(r) ==
        Terminal(r) =>
            \/ status'[r] = status[r] /\ stage'[r] = stage[r]
            \/ /\ DbFaults
               /\ status[r] = "Success" /\ status'[r] = "Failed"
               /\ logs[r] # << >>
               /\ logs[r][Len(logs[r])] = Entry("ERROR", stage'[r])
<1>1. ASSUME LockInv, LogInv, DbFaults \/ RowFollowsTask, [Next]_vars
      PROVE  [\A r \in Runs : Frozen(r)]_vars
  <2> SUFFICES ASSUME NEW r \in Runs, Terminal(r),
                      ~(status'[r] = status[r] /\ stage'[r] = stage[r])
               PROVE  /\ DbFaults
                      /\ status[r] = "Success" /\ status'[r] = "Failed"
                      /\ logs[r] # << >>
                      /\ logs[r][Len(logs[r])] = Entry("ERROR", stage'[r])
    OBVIOUS
  <2>1. LogFollowsTask(r) /\ TypeInv
    BY <1>1 DEF LogInv, LockInv
  <2>2. pc[r] = "fail" /\ status[r] = "Success"
    BY <1>1, <2>1, RowSteps DEF LogFollowsTask, Terminal
  <2>3. status'[r] = "Failed" /\ stage'[r] = cause[r]
    BY <1>1, <2>1, <2>2, RowSteps
  <2>4. DbFaults
    BY <1>1, <2>2 DEF RowFollowsTask
  <2>5. logs[r] # << >> /\ logs[r][Len(logs[r])] = Entry("ERROR", cause[r])
    BY <2>1, <2>2 DEF LogFollowsTask
  <2>6. QED
    BY <2>2, <2>3, <2>4, <2>5
<1>2. QED
  BY <1>1, LockInvariant, LogInvariant, RowFollowsUnlessFaults, PTL
     DEF Spec, TerminalRowsFrozen

-----------------------------------------------------------------------------
(* With all faults, the executor writes a RunHistory.                      *)
RowThere ==
    \A r \in Runs :
        /\ pc[r] \in {"idle", "creating"} => status[r] = "none"
        /\ pc[r] \in HoldingPCs \cup {"inserted", "queued", "claim", "refuse", "panicked"} =>
              status[r] # "none"

LEMMA RowThereStep ==
    ASSUME TypeInv, RowThere, [Next]_vars
    PROVE  RowThere'
<1> USE DEF GoTo, rowVars, taskVars, RowThere, HoldingPCs
<1>0. pc \in [Runs -> PCs] /\ status \in [Runs -> Statuses]
  BY DEF TypeInv, TypeOK
<1>1. ASSUME NEW j \in Jobs,
             \/ CreateJob(j) \/ DeleteJob(j)
             \/ \E q \in Runs : CreateRun(q, j)
      PROVE  RowThere'
  BY <1>0, <1>1 DEF CreateJob, DeleteJob, CreateRun
<1>2. ASSUME NEW r \in Runs, TaskStep(r)
      PROVE  RowThere'
  <2>1. CASE \/ InsertRun(r) \/ CreateRunFails(r) \/ Spawn(r) \/ ReadJob(r)
             \/ ReadJobFails(r) \/ Claim(r) \/ Refuse(r)
    BY <1>0, <2>1 DEF InsertRun, CreateRunFails, Spawn, ReadJob, ReadJobFails, Claim, Refuse
  <2>2. CASE UpdateStage(r) \/ LogStage(r) \/ StatementFails(r) \/ FinishRunSuccess(r)
    BY <1>0, <2>2 DEF UpdateStage, LogStage, StatementFails, Raise, FinishRunSuccess
  <2>3. CASE \/ LogDone(r) \/ LogError(r) \/ FinishRunFailed(r) \/ HandlerFails(r)
             \/ Release(r)
    BY <1>0, <2>3 DEF LogDone, LogError, FinishRunFailed, HandlerFails, Release
  <2>4. QED
    BY <1>2, <2>1, <2>2, <2>3 DEF TaskStep
<1>3. ASSUME NEW r \in Runs, BodyStep(r) \/ ClientLeaves(r)
      PROVE  RowThere'
  BY <1>0, <1>3 DEF BodyStep, Body, BodyFails, Raise, DumpPanics, ClientLeaves
<1>4. CASE CrashAndRestart \/ UNCHANGED vars
  BY <1>0, <1>4 DEF CrashAndRestart, vars
<1>5. QED
  BY <1>1, <1>2, <1>3, <1>4 DEF Next

(* No step writes two rows.                                                *)
LEMMA OneRowAtATime ==
    ASSUME TypeInv, [Next]_vars, NEW q \in Runs, NEW r \in Runs, q # r,
           status'[r] # status[r]
    PROVE  status'[q] = status[q]
<1> USE DEF rowVars
<1>0. status \in [Runs -> Statuses]
  BY DEF TypeInv, TypeOK
<1>1. ASSUME NEW p \in Runs, TaskStep(p)
      PROVE  status'[q] = status[q]
  <2>1. CASE InsertRun(p) \/ Refuse(p)
    BY <1>0, <2>1 DEF InsertRun, Refuse
  <2>2. CASE UpdateStage(p) \/ FinishRunSuccess(p) \/ FinishRunFailed(p)
    BY <1>0, <2>2 DEF UpdateStage, FinishRunSuccess, FinishRunFailed
  <2>3. CASE \/ CreateRunFails(p) \/ Spawn(p) \/ ReadJob(p)
             \/ ReadJobFails(p) \/ Claim(p) \/ HandlerFails(p) \/ Release(p)
    BY <2>3 DEF CreateRunFails, Spawn, ReadJob, ReadJobFails, Claim,
                HandlerFails, Release
  <2>4. CASE LogStage(p) \/ StatementFails(p) \/ LogDone(p) \/ LogError(p)
    BY <2>4 DEF LogStage, StatementFails, Raise, LogDone, LogError
  <2>5. QED
    BY <1>1, <2>1, <2>2, <2>3, <2>4 DEF TaskStep
<1>2. ASSUME ~\E p \in Runs : TaskStep(p)
      PROVE  UNCHANGED status
  BY <1>2 DEF Next, CreateJob, DeleteJob, CreateRun, BodyStep, Body, BodyFails, Raise,
              DumpPanics, ClientLeaves, CrashAndRestart, vars
<1>3. QED
  BY <1>1, <1>2

LEMMA HistoryStep ==
    ASSUME TypeInv, RowThere, LogInv, [Next]_vars
    PROVE  [History!Next]_HistoryRun
<1>1. CASE \A r \in Runs : status'[r] = status[r]
  BY <1>1 DEF HistoryRun, Terminal
<1>2. ASSUME NEW r \in Runs, status'[r] # status[r]
      PROVE  [History!Next]_HistoryRun
  <2>1. \A q \in Runs \ {r} : status'[q] = status[q]
    BY <1>2, OneRowAtATime
  <2>2. \A q \in Runs \ {r} : HistoryRun'[q] = HistoryRun[q]
    BY <2>1 DEF HistoryRun, Terminal
  <2>3. \/ HistoryRun'[r] = HistoryRun[r]
        \/ HistoryRun[r] = "none" /\ HistoryRun'[r] = "open"
        \/ HistoryRun[r] = "open" /\ HistoryRun'[r] = "closed"
    <3>1. status[r] \in Statuses /\ LogFollowsTask(r)
      BY DEF TypeInv, TypeOK, LogInv
    <3>2. /\ pc[r] = "creating" => status[r] = "none"
          /\ pc[r] \in {"refuse", "update", "finish"} => status[r] \in {"Pending", "Running"}
          /\ pc[r] = "fail" => status[r] # "none"
      BY <3>1 DEF RowThere, HoldingPCs, LogFollowsTask, Statuses
    <3>3. \/ pc[r] = "creating" /\ status'[r] = "Pending"
          \/ pc[r] = "refuse" /\ status'[r] = "Failed"
          \/ pc[r] = "update" /\ status'[r] = "Running"
          \/ pc[r] = "finish" /\ status'[r] = "Success"
          \/ pc[r] = "fail" /\ status'[r] = "Failed"
      BY <1>2, RowSteps
    <3>4. QED
      BY <3>1, <3>2, <3>3 DEF HistoryRun, Terminal, Statuses
  <2>4. HistoryRun' = [HistoryRun EXCEPT ![r] = HistoryRun'[r]]
    BY <2>2 DEF HistoryRun
  <2>5. HistoryRun'[r] = HistoryRun[r] => HistoryRun' = HistoryRun
    BY <2>4 DEF HistoryRun
  <2> HIDE DEF HistoryRun
  <2>6. QED
    BY <2>3, <2>4, <2>5 DEF History!Next, History!Enter
<1>3. QED
  BY <1>1, <1>2

(* Whatever fails, panics or restarts: a run that is there stays there,    *)
(* and one that is closed is never open again.                             *)
THEOREM ImplementsHistory == Spec => History!Spec
<1>1. Init => RowThere /\ History!Init
  BY DEF Init, RowThere, HoldingPCs, HistoryRun, History!Init
<1>2. LockInv /\ RowThere /\ [Next]_vars => RowThere'
  BY RowThereStep DEF LockInv
<1>3. LockInv /\ LogInv /\ RowThere /\ [Next]_vars => [History!Next]_HistoryRun
  BY HistoryStep DEF LockInv
<1>4. QED
  BY <1>1, <1>2, <1>3, LockInvariant, LogInvariant, PTL DEF Spec, History!Spec

-----------------------------------------------------------------------------
(* If no statement fails, a row that stays open without a task was never   *)
(* begun: its job is gone, or its client left before the spawn.            *)
THEOREM OpenRowsExplained == ASSUME ~DbFaults PROVE Spec => []EndedRunsAreClosed
<1> DEFINE Ended(r) ==
        pc[r] \in {"done", "unspawned"} /\ status[r] # "none" /\ ~Terminal(r) =>
            /\ status[r] = "Pending" /\ logs[r] = << >>
            /\ JobGone(r) \/ pc[r] = "unspawned"
<1>1. LockInv /\ RowFollowsTask /\ LogInv /\ EndedRunsAreClosed /\ [Next]_vars
        => EndedRunsAreClosed'
  <2> SUFFICES ASSUME LockInv, RowFollowsTask, LogInv, EndedRunsAreClosed,
                      [Next]_vars, NEW r \in Runs
               PROVE  Ended(r)'
    BY DEF EndedRunsAreClosed
  <2> USE DEF GoTo, rowVars, taskVars
  <2>0. /\ pc \in [Runs -> PCs] /\ status \in [Runs -> Statuses]
        /\ logs \in [Runs -> Seq(Entries)]
        /\ backupJob \in [Runs -> Jobs \cup {NoJob}]
        /\ jobs \in [Jobs -> {"new", "stored", "deleted"}]
    BY DEF LockInv, TypeInv, TypeOK
  <2>1. Ended(r) /\ LogFollowsTask(r)
    BY DEF EndedRunsAreClosed, LogInv
  <2>2. ASSUME NEW j \in Jobs, CreateJob(j) \/ DeleteJob(j)
        PROVE  Ended(r)'
    BY <2>0, <2>1, <2>2 DEF CreateJob, DeleteJob, Terminal, JobGone
  <2>3. ASSUME UNCHANGED jobs, status'[r] = status[r], logs'[r] = logs[r],
               pc'[r] = pc[r], pc[r] = "idle" \/ backupJob'[r] = backupJob[r]
        PROVE  Ended(r)'
    BY <2>1, <2>3 DEF Terminal, JobGone
  <2>4. ASSUME pc'[r] \notin {"done", "unspawned"}
        PROVE  Ended(r)'
    BY <2>4
  <2>5. ASSUME NEW q \in Runs, NEW j \in Jobs, CreateRun(q, j)
        PROVE  Ended(r)'
    BY <2>0, <2>3, <2>4, <2>5 DEF CreateRun
  <2>6. ASSUME NEW q \in Runs, TaskStep(q)
        PROVE  Ended(r)'
    <3>1. CASE q # r
      BY <2>0, <2>3, <2>6, <3>1
         DEF TaskStep, InsertRun, CreateRunFails, Spawn, ReadJob, ReadJobFails,
             Claim, Refuse, UpdateStage, LogStage, StatementFails, Raise,
             FinishRunSuccess, LogDone, LogError, FinishRunFailed, HandlerFails,
             Release
    <3>2. CASE CreateRunFails(r)
      BY <2>0, <3>2 DEF CreateRunFails, RowFollowsTask
    <3>3. CASE ReadJobFails(r)
      BY <2>0, <2>1, <3>3
         DEF ReadJobFails, RowFollowsTask, LogFollowsTask, JobGone
    <3>4. CASE Refuse(r)
      BY <2>0, <3>4 DEF Refuse, Terminal
    <3>5. CASE Release(r)
      BY <2>0, <3>5 DEF Release, RowFollowsTask, Terminal
    <3>6. CASE InsertRun(r) \/ Spawn(r) \/ ReadJob(r) \/ Claim(r)
      BY <2>0, <2>4, <3>6 DEF InsertRun, Spawn, ReadJob, Claim
    <3>7. CASE UpdateStage(r) \/ LogStage(r) \/ FinishRunSuccess(r) \/ LogDone(r)
      BY <2>0, <2>4, <3>7 DEF UpdateStage, LogStage, FinishRunSuccess, LogDone
    <3>8. CASE LogError(r) \/ FinishRunFailed(r)
      BY <2>0, <2>4, <3>8 DEF LogError, FinishRunFailed
    <3>9. ~StatementFails(r) /\ ~HandlerFails(r)
      BY DEF StatementFails, HandlerFails
    <3>10. QED
      BY <2>6, <3>1, <3>2, <3>3, <3>4, <3>5, <3>6, <3>7, <3>8, <3>9 DEF TaskStep
  <2>7. ASSUME NEW q \in Runs, BodyStep(q)
        PROVE  Ended(r)'
    BY <2>0, <2>3, <2>4, <2>7 DEF BodyStep, Body, BodyFails, Raise, DumpPanics
  <2>8. ASSUME NEW q \in Runs, ClientLeaves(q)
        PROVE  Ended(r)'
    <3>1. CASE q # r
      BY <2>0, <2>3, <2>8, <3>1 DEF ClientLeaves
    <3>2. CASE q = r
      BY <2>0, <2>1, <2>8, <3>2
         DEF ClientLeaves, RowFollowsTask, LogFollowsTask
    <3>3. QED
      BY <3>1, <3>2
  <2>9. CASE CrashAndRestart
    BY <2>0, <2>3, <2>4, <2>9 DEF CrashAndRestart
  <2>10. CASE UNCHANGED vars
    BY <2>3, <2>10 DEF vars
  <2>11. QED
    BY <2>2, <2>5, <2>6, <2>7, <2>8, <2>9, <2>10 DEF Next
<1>2. Init => EndedRunsAreClosed
  BY DEF Init, EndedRunsAreClosed
<1>3. QED
  BY <1>1, <1>2, LockInvariant, RowFollowsTaskInvariant, LogInvariant, PTL DEF Spec

-----------------------------------------------------------------------------
(* BackupExecutor implements RunLifecycle when no statement fails and no   *)
(* task panics, with deletions of jobs and restarts at any moment.         *)

(* Without panics no task has panicked.                                    *)
NonePanicked == \A r \in Runs : pc[r] # "panicked"

LEMMA NonePanickedInvariant == ASSUME ~Panics PROVE Spec => []NonePanicked
<1>1. Init => NonePanicked
  BY DEF Init, NonePanicked
<1>2. LockInv /\ NonePanicked /\ [Next]_vars => NonePanicked'
  <2> SUFFICES ASSUME LockInv, NonePanicked, [Next]_vars
               PROVE  NonePanicked'
    OBVIOUS
  <2> USE DEF GoTo, taskVars, NonePanicked
  <2>0. pc \in [Runs -> PCs]
    BY DEF LockInv, TypeInv, TypeOK
  <2>1. ASSUME NEW j \in Jobs, CreateJob(j) \/ DeleteJob(j)
        PROVE  NonePanicked'
    BY <2>1 DEF CreateJob, DeleteJob
  <2>2. ASSUME NEW r \in Runs, NEW j \in Jobs, CreateRun(r, j)
        PROVE  NonePanicked'
    BY <2>0, <2>2 DEF CreateRun
  <2>3. ASSUME NEW r \in Runs, TaskStep(r)
        PROVE  NonePanicked'
    BY <2>0, <2>3
       DEF TaskStep, InsertRun, CreateRunFails, Spawn, ReadJob, ReadJobFails,
           Claim, Refuse, UpdateStage, LogStage, StatementFails, Raise,
           FinishRunSuccess, LogDone, LogError, FinishRunFailed, HandlerFails,
           Release
  <2>4. ASSUME NEW r \in Runs, BodyStep(r)
        PROVE  NonePanicked'
    BY <2>0, <2>4 DEF BodyStep, Body, BodyFails, Raise, DumpPanics
  <2>5. ASSUME NEW r \in Runs, ClientLeaves(r)
        PROVE  NonePanicked'
    BY <2>0, <2>5 DEF ClientLeaves
  <2>6. CASE CrashAndRestart
    BY <2>6 DEF CrashAndRestart
  <2>7. CASE UNCHANGED vars
    BY <2>7 DEF vars
  <2>8. QED
    BY <2>1, <2>2, <2>3, <2>4, <2>5, <2>6, <2>7 DEF Next
<1>3. QED
  BY <1>1, <1>2, LockInvariant, PTL DEF Spec

(* What the three invariants say of the refinement mapping: a run is shown *)
(* at work exactly while its task holds the job.                           *)
Mapped ==
    /\ TypeInv
    /\ RowFollowsTask
    /\ \A r \in Runs : Holding(r) => status[r] # "none"
    /\ \A r \in Runs : LifePhase[r] = "atWork" <=> Holding(r)

LEMMA MappedHolds == LockInv /\ RowFollowsTask => Mapped
<1> SUFFICES ASSUME LockInv, RowFollowsTask
             PROVE  Mapped
  OBVIOUS
<1>1. TypeInv
  BY DEF LockInv
<1>2. ASSUME NEW r \in Runs, Holding(r)
      PROVE  status[r] # "none"
  BY <1>1, <1>2 DEF RowFollowsTask, Holding, HoldingPCs
<1>3. ASSUME NEW r \in Runs
      PROVE  LifePhase[r] = "atWork" <=> Holding(r)
  BY <1>2 DEF LifePhase, Phase, Holding, HoldingPCs
<1>4. QED
  BY <1>1, <1>2, <1>3 DEF Mapped

(* A step of one task changes the mapped state of its run only.            *)
LEMMA MapFrame ==
    ASSUME NEW r \in Runs,
           \A q \in Runs \ {r} : /\ status'[q] = status[q]
                                 /\ pc'[q] = pc[q]
                                 /\ backupJob'[q] = backupJob[q]
    PROVE  /\ LifePhase' = [LifePhase EXCEPT ![r] = Phase(r)']
           /\ LifeJob' = [LifeJob EXCEPT ![r] =
                             IF status'[r] = "none" THEN NoJob ELSE backupJob'[r]]
  BY DEF LifePhase, LifeJob, Phase, Holding

(* When neither the row's status nor the phase of the run changes, neither *)
(* does the mapped state.                                                  *)
LEMMA Stutter ==
    ASSUME NEW r \in Runs,
           \A q \in Runs \ {r} : /\ status'[q] = status[q]
                                 /\ pc'[q] = pc[q]
                                 /\ backupJob'[q] = backupJob[q],
           status' = status, Phase(r)' = Phase(r),
           status[r] = "none" \/ backupJob'[r] = backupJob[r]
    PROVE  UNCHANGED << LifeJob, status, LifePhase >>
<1>1. \A q \in Runs : Phase(q)' = Phase(q)
  BY DEF Phase, Holding
<1>2. QED
  BY <1>1 DEF LifePhase, LifeJob

(* A step that moves a task and leaves its row's status alone.             *)
LEMMA MoveFrame ==
    ASSUME NEW r \in Runs, NEW to, pc \in [Runs -> PCs],
           pc' = [pc EXCEPT ![r] = to], UNCHANGED << status, backupJob >>
    PROVE  /\ LifePhase' = [LifePhase EXCEPT ![r] = Phase(r)']
           /\ LifeJob' = LifeJob
<1>1. \A q \in Runs \ {r} : Phase(q)' = Phase(q)
  BY DEF Phase, Holding
<1>2. QED
  BY <1>1 DEF LifePhase, LifeJob

(* The abstract owner of a run's job is the task that holds it.            *)
LEMMA OwnerMapped ==
    ASSUME Mapped, NEW r \in Runs, status[r] # "none"
    PROVE  Life!Owner(r) <=>
             \E q \in Runs : backupJob[q] = backupJob[r] /\ Holding(q)
  BY DEF Mapped, Life!Owner, LifeJob

LEMMA StepSimulates ==
    ASSUME ~DbFaults, ~Panics, LockInv, InHaveOwner, NonePanicked,
           RowFollowsTask, [Next]_vars
    PROVE  [Life!Next]_<< LifeJob, status, LifePhase >>
<1> USE DEF GoTo, rowVars, taskVars
<1>0. /\ pc \in [Runs -> PCs] /\ status \in [Runs -> Statuses]
      /\ backupJob \in [Runs -> Jobs \cup {NoJob}]
  BY DEF LockInv, TypeInv, TypeOK
<1>m. Mapped
  BY MappedHolds
<1> DEFINE Goal == [Life!Next]_<< LifeJob, status, LifePhase >>
<1>1. ASSUME NEW j \in Jobs, CreateJob(j) \/ DeleteJob(j)
      PROVE  Goal
  BY <1>1 DEF CreateJob, DeleteJob, LifeJob, LifePhase, Phase, Holding
<1>2. ASSUME NEW r \in Runs, NEW j \in Jobs, CreateRun(r, j)
      PROVE  Goal
  <2>1. status[r] = "none" /\ status' = status
    BY <1>2 DEF CreateRun, RowFollowsTask
  <2>2. Phase(r)' = Phase(r)
    BY <2>1 DEF Phase
  <2>3. QED
    BY <1>0, <1>2, <2>1, <2>2, Stutter DEF CreateRun
<1>3. ASSUME NEW r \in Runs, TaskStep(r)
      PROVE  Goal
  <2>1. CASE InsertRun(r)
    <3>1. LifePhase[r] = "unborn" /\ LifePhase' = [LifePhase EXCEPT ![r] = "waiting"]
      <4>1. Phase(r)' = "waiting"
        BY <1>0, <2>1 DEF InsertRun, Phase
      <4>2. LifePhase[r] = "unborn"
        BY <2>1 DEF InsertRun, RowFollowsTask, LifePhase, Phase
      <4>3. QED
        BY <1>0, <2>1, <4>1, <4>2, MapFrame DEF InsertRun
    <3>2. backupJob[r] \in Jobs /\ LifeJob' = [LifeJob EXCEPT ![r] = backupJob[r]]
      <4>1. backupJob[r] \in Jobs
        BY <2>1 DEF InsertRun, LockInv, TypeInv, JobKnown
      <4>2. status'[r] # "none" /\ backupJob'[r] = backupJob[r]
        BY <1>0, <2>1 DEF InsertRun
      <4>3. QED
        BY <1>0, <2>1, <4>1, <4>2, MapFrame DEF InsertRun
    <3>3. Life!Submit(r, backupJob[r])
      BY <2>1, <3>1, <3>2 DEF InsertRun, Life!Submit
    <3>4. QED
      BY <3>2, <3>3 DEF Life!Next
  <2>2. CASE CreateRunFails(r)
    <3>1. status[r] = "none" /\ status' = status /\ backupJob' = backupJob
      BY <2>2 DEF CreateRunFails, RowFollowsTask
    <3>2. Phase(r)' = Phase(r)
      BY <3>1 DEF Phase
    <3>3. QED
      BY <1>0, <2>2, <3>1, <3>2, Stutter DEF CreateRunFails
  <2>3. CASE Spawn(r) \/ ReadJob(r)
    <3>1. status[r] = "Pending" /\ status' = status /\ backupJob' = backupJob
      BY <2>3 DEF Spawn, ReadJob, RowFollowsTask
    <3>2. Phase(r)' = Phase(r)
      BY <1>0, <2>3, <3>1 DEF Phase, Spawn, ReadJob
    <3>3. QED
      BY <1>0, <2>3, <3>1, <3>2, Stutter DEF Spawn, ReadJob
  <2>4. CASE ReadJobFails(r)
    <3>1. status[r] = "Pending" /\ status' = status /\ backupJob' = backupJob
          /\ pc[r] = "queued" /\ pc' = [pc EXCEPT ![r] = "done"]
      BY <2>4 DEF ReadJobFails, RowFollowsTask
    <3>2. LifePhase[r] = "waiting" /\ Phase(r)' = "over"
      BY <1>0, <3>1 DEF Phase, LifePhase, Holding, HoldingPCs
    <3>3. Life!Drop(r)
      BY <1>0, <3>1, <3>2, MoveFrame DEF Life!Drop, Life!Move
    <3>4. QED
      BY <3>3 DEF Life!Next
  <2>5. CASE Claim(r)
    <3>1. status[r] = "Pending" /\ status' = status /\ backupJob' = backupJob
          /\ pc[r] = "claim"
      BY <2>5 DEF Claim, RowFollowsTask
    <3>2. LifePhase[r] = "waiting"
      BY <3>1 DEF LifePhase, Phase
    <3>3. Life!Owner(r) <=> backupJob[r] \in runningJobs
      BY <1>m, <3>1, OwnerMapped
         DEF LockInv, OwnersAreIn, InHaveOwner, NonePanicked, Owns
    <3>4. CASE backupJob[r] \in runningJobs
      <4>1. pc' = [pc EXCEPT ![r] = "refuse"] /\ Phase(r)' = "turnedAway"
        BY <1>0, <2>5, <3>1, <3>4 DEF Claim, Phase
      <4>2. Life!TurnAway(r)
        BY <1>0, <3>1, <3>2, <3>3, <3>4, <4>1, MoveFrame
           DEF Life!TurnAway, Life!Move
      <4>3. QED
        BY <4>2 DEF Life!Next
    <3>5. CASE backupJob[r] \notin runningJobs
      <4>1. pc' = [pc EXCEPT ![r] = "update"] /\ Phase(r)' = "atWork"
        BY <1>0, <2>5, <3>1, <3>5 DEF Claim, Phase, Holding, HoldingPCs
      <4>2. Life!Begin(r)
        BY <1>0, <3>1, <3>2, <3>3, <3>5, <4>1, MoveFrame DEF Life!Begin, Life!Move
      <4>3. QED
        BY <4>2 DEF Life!Next
    <3>6. QED
      BY <3>4, <3>5
  <2>6. CASE Refuse(r)
    <3>1. status[r] = "Pending" /\ status' = [status EXCEPT ![r] = "Failed"]
          /\ pc[r] = "refuse" /\ pc' = [pc EXCEPT ![r] = "done"]
          /\ backupJob' = backupJob
      BY <2>6 DEF Refuse, RowFollowsTask
    <3>2. LifePhase[r] = "turnedAway" /\ Phase(r)' = "over"
      BY <1>0, <3>1 DEF LifePhase, Phase, Holding, HoldingPCs
    <3>3. LifePhase' = [LifePhase EXCEPT ![r] = "over"]
      BY <1>0, <3>1, <3>2, MapFrame
    <3>4. LifeJob' = LifeJob
      BY <1>0, <3>1 DEF LifeJob
    <3>5. Life!ShowTurnedAway(r)
      BY <3>1, <3>2, <3>3, <3>4 DEF Life!ShowTurnedAway, Life!Move, Life!Show
    <3>6. QED
      BY <3>5 DEF Life!Next
  <2>7. CASE UpdateStage(r) \/ FinishRunSuccess(r) \/ FinishRunFailed(r)
    <3>1. Holding(r) /\ Holding(r)' /\ backupJob' = backupJob
      BY <1>0, <2>7 DEF UpdateStage, FinishRunSuccess, FinishRunFailed,
                        Holding, HoldingPCs
    <3>2. status[r] # "none" /\ status'[r] # "none"
      BY <1>0, <1>m, <2>7, <3>1
         DEF UpdateStage, FinishRunSuccess, FinishRunFailed, Mapped
    <3>3. LifePhase[r] = "atWork" /\ LifePhase' = LifePhase /\ LifeJob' = LifeJob
      <4>1. pc'[r] \in HoldingPCs /\ pc[r] \in HoldingPCs
        BY <3>1 DEF Holding
      <4>2. Phase(r) = "atWork" /\ Phase(r)' = "atWork"
        BY <3>1, <3>2, <4>1 DEF Phase, HoldingPCs
      <4>3. \A q \in Runs \ {r} : status'[q] = status[q] /\ pc'[q] = pc[q]
        BY <1>0, <2>7 DEF UpdateStage, FinishRunSuccess, FinishRunFailed
      <4>4. \A q \in Runs : Phase(q)' = Phase(q)
        BY <4>2, <4>3 DEF Phase, Holding
      <4>5. \A q \in Runs : status'[q] = "none" <=> status[q] = "none"
        BY <3>2, <4>3
      <4>6. QED
        BY <3>1, <4>2, <4>4, <4>5 DEF LifePhase, LifeJob
    <3>4. CASE UpdateStage(r)
      <4>1. /\ status[r] \in {"Pending", "Running"}
            /\ status' = [status EXCEPT ![r] = "Running"]
        BY <3>4 DEF UpdateStage, RowFollowsTask
      <4>2. CASE status[r] = "Pending"
        <5>1. Life!Work(r)
          BY <3>3, <4>1, <4>2 DEF Life!Work, Life!Show
        <5>2. QED
          BY <5>1 DEF Life!Next
      <4>3. CASE status[r] = "Running"
        BY <1>0, <3>3, <4>1, <4>3
      <4>4. QED
        BY <4>1, <4>2, <4>3
    <3>5. CASE FinishRunSuccess(r) \/ FinishRunFailed(r)
      <4>1. /\ status[r] = "Running"
            /\ \/ status' = [status EXCEPT ![r] = "Success"]
               \/ status' = [status EXCEPT ![r] = "Failed"]
        BY <3>5 DEF FinishRunSuccess, FinishRunFailed, RowFollowsTask
      <4>2. Life!Work(r)
        BY <3>3, <4>1 DEF Life!Work, Life!Show
      <4>3. QED
        BY <4>2 DEF Life!Next
    <3>6. QED
      BY <2>7, <3>4, <3>5
  <2>8. CASE LogStage(r) \/ LogDone(r) \/ LogError(r)
    <3>1. Holding(r) /\ Holding(r)' /\ status' = status /\ backupJob' = backupJob
      BY <1>0, <2>8 DEF LogStage, LogDone, LogError, Holding, HoldingPCs
    <3>2. Phase(r)' = Phase(r)
      BY <3>1 DEF Phase, Holding, HoldingPCs
    <3>3. QED
      BY <1>0, <2>8, <3>1, <3>2, Stutter DEF LogStage, LogDone, LogError
  <2>9. CASE Release(r)
    <3>1. status[r] \in {"Success", "Failed"} /\ status' = status
          /\ pc[r] = "release" /\ pc' = [pc EXCEPT ![r] = "done"]
          /\ backupJob' = backupJob
      BY <2>9 DEF Release, RowFollowsTask
    <3>2. LifePhase[r] = "atWork" /\ Phase(r)' = "over"
      BY <1>0, <3>1 DEF LifePhase, Phase, Holding, HoldingPCs
    <3>3. Life!Leave(r)
      BY <1>0, <3>1, <3>2, MoveFrame DEF Life!Leave, Life!Move
    <3>4. QED
      BY <3>3 DEF Life!Next
  <2>10. ~StatementFails(r) /\ ~HandlerFails(r)
    BY DEF StatementFails, HandlerFails
  <2>11. QED
    BY <1>3, <2>1, <2>2, <2>3, <2>4, <2>5, <2>6, <2>7, <2>8, <2>9, <2>10
       DEF TaskStep
<1>4. ASSUME NEW r \in Runs, BodyStep(r)
      PROVE  Goal
  <2>1. Holding(r) /\ Holding(r)' /\ status' = status /\ backupJob' = backupJob
    BY <1>0, <1>4 DEF BodyStep, Body, BodyFails, Raise, DumpPanics,
                      Holding, HoldingPCs
  <2>2. Phase(r)' = Phase(r)
    BY <2>1 DEF Phase, Holding, HoldingPCs
  <2>3. \A q \in Runs \ {r} : pc'[q] = pc[q]
    BY <1>0, <1>4 DEF BodyStep, Body, BodyFails, Raise, DumpPanics
  <2>4. QED
    BY <2>1, <2>2, <2>3, Stutter
<1>5. CASE CrashAndRestart
  <2>1. status' = status /\ backupJob' = backupJob
    BY <1>5 DEF CrashAndRestart
  <2>2. ASSUME NEW r \in Runs
        PROVE  Phase(r)' = IF Phase(r) = "unborn" THEN "unborn" ELSE "over"
    <3>1. pc'[r] = IF pc[r] \in {"idle", "done"} THEN pc[r] ELSE "dead"
      BY <1>5 DEF CrashAndRestart
    <3>2. pc[r] = "idle" => status[r] = "none"
      BY DEF RowFollowsTask
    <3>3. CASE status[r] = "none"
      BY <2>1, <3>3 DEF Phase
    <3>4. CASE status[r] # "none"
      BY <2>1, <3>1, <3>2, <3>4 DEF Phase, Holding, HoldingPCs
    <3>5. QED
      BY <3>3, <3>4
  <2>3. LifePhase' = [r \in Runs |->
                         IF LifePhase[r] = "unborn" THEN "unborn" ELSE "over"]
    BY <2>2 DEF LifePhase
  <2>4. Life!Interrupt
    BY <2>1, <2>3 DEF Life!Interrupt, LifeJob
  <2>5. QED
    BY <2>4 DEF Life!Next
<1>6. CASE UNCHANGED vars
  BY <1>6 DEF vars, LifeJob, LifePhase, Phase, Holding
<1>7. ASSUME NEW r \in Runs, ClientLeaves(r)
      PROVE  Goal
  <2>1. CASE pc[r] = "creating"
    <3>1. status[r] = "none" /\ status' = status /\ backupJob' = backupJob
      BY <1>7, <2>1 DEF ClientLeaves, RowFollowsTask
    <3>2. Phase(r)' = Phase(r)
      BY <3>1 DEF Phase
    <3>3. QED
      BY <1>0, <1>7, <3>1, <3>2, Stutter DEF ClientLeaves
  <2>2. CASE pc[r] = "inserted"
    <3>1. status[r] = "Pending" /\ status' = status /\ backupJob' = backupJob
          /\ pc' = [pc EXCEPT ![r] = "unspawned"]
      BY <1>7, <2>2 DEF ClientLeaves, RowFollowsTask
    <3>2. LifePhase[r] = "waiting" /\ Phase(r)' = "over"
      BY <1>0, <2>2, <3>1 DEF Phase, LifePhase, Holding, HoldingPCs
    <3>3. Life!Drop(r)
      BY <1>0, <3>1, <3>2, MoveFrame DEF Life!Drop, Life!Move
    <3>4. QED
      BY <3>3 DEF Life!Next
  <2>3. QED
    BY <1>7, <2>1, <2>2 DEF ClientLeaves
<1>8. QED
  BY <1>1, <1>2, <1>3, <1>4, <1>5, <1>6, <1>7 DEF Next

(* If no statement fails and no task panics, what users see of the runs is *)
(* a behaviour of RunLifecycle: rows go Pending, Running, Success or       *)
(* Failed and stay, one run of a job at a time is at work, and only a run  *)
(* whose job is at work is turned away.                                    *)
THEOREM ImplementsLifecycle ==
    ASSUME ~DbFaults, ~Panics PROVE Spec => RefinesLifecycle
<1>1. Init => Life!Init
  BY DEF Init, Life!Init, LifeJob, LifePhase, Phase
<1>2. LockInv /\ InHaveOwner /\ NonePanicked /\ RowFollowsTask /\ [Next]_vars
        => [Life!Next]_<< LifeJob, status, LifePhase >>
  BY StepSimulates
<1>3. QED
  BY <1>1, <1>2, LockInvariant, InHaveOwnerInvariant, NonePanickedInvariant,
     RowFollowsTaskInvariant, PTL DEF Spec, RefinesLifecycle, Life!Spec, Life!lifeVars
=============================================================================
