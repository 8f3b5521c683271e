------------------------- MODULE ManualUploadProofs -------------------------
(***************************************************************************)
(* Theorems about ManualUpload, for every set of uploads, sources and      *)
(* targets, with failing statements and restarts.                          *)
(***************************************************************************)
EXTENDS ManualUpload, TLAPS

(* There are six stages; the file is looked at in the second.              *)
LEMMA StageCount ==
    /\ LastStage = 6
    /\ Stages[1] = "prepare" /\ Stages[2] = "receive_file"
    /\ Stages[5] = "upload" /\ Stages[6] = "verify_remote"
    /\ \A i \in 1 .. LastStage : Stages[i] = "receive_file" <=> i = 2
  BY DEF LastStage, Stages

(* The values the executor writes into the stage column.                   *)
LEMMA StageValues ==
    /\ {"none", "done", "failed", "prepare", "upload", "verify_remote"} \subseteq RowStages
    /\ \A i \in 1 .. LastStage : Stages[i] \in RowStages
<1>1. {1, 5, 6} \subseteq 1 .. LastStage
  BY StageCount
<1>2. QED
  BY <1>1, StageCount DEF RowStages

(* What appending an entry does to a log.                                  *)
LEMMA LogGrows ==
    ASSUME NEW l \in Seq(Entries), NEW e \in Entries
    PROVE  /\ Append(l, e) \in Seq(Entries)
           /\ Append(l, e) # << >>
           /\ Len(Append(l, e)) = Len(l) + 1
           /\ Append(l, e)[Len(l) + 1] = e
           /\ \A i \in 1 .. Len(l) : Append(l, e)[i] = l[i]
  OBVIOUS

LEMMA LogAppended ==
    ASSUME logs \in [Uploads -> Seq(Entries)], NEW r \in Uploads,
           NEW l \in {"INFO", "ERROR"}, NEW s \in RowStages
    PROVE  [logs EXCEPT ![r] = Append(@, Entry(l, s))] \in [Uploads -> Seq(Entries)]
<1>1. Entry(l, s) \in Entries
  BY DEF Entry, Entries
<1>2. Append(logs[r], Entry(l, s)) \in Seq(Entries)
  BY <1>1
<1>3. QED
  BY <1>2

-----------------------------------------------------------------------------
LEMMA TypeInit == Init => TypeOK
<1>1. 1 \in 1 .. LastStage
  BY StageCount
<1>2. QED
  BY <1>1, StageValues DEF Init, TypeOK, Forms, FileKinds, RequestPCs, TaskPCs

LEMMA TypeStep == TypeOK /\ [Next]_vars => TypeOK'
<1> SUFFICES ASSUME TypeOK, [Next]_vars
             PROVE  TypeOK'
  OBVIOUS
<1> USE DEF TypeOK, tableVars, taskVars
<1>1. ASSUME \/ \E s \in Sources : DeleteSource(s)
             \/ \E t \in Targets : DeleteTarget(t)
      PROVE  TypeOK'
  BY <1>1 DEF DeleteSource, DeleteTarget
<1>2. ASSUME NEW r \in Uploads, NEW f \in Forms, Receive(r, f)
      PROVE  TypeOK'
  BY <1>2 DEF Receive, Answer, RequestPCs
<1>3. ASSUME NEW r \in Uploads, RequestStep(r)
      PROVE  TypeOK'
  <2>1. CASE FindTarget(r) \/ FindSource(r)
    BY <2>1 DEF FindTarget, FindSource, Answer, RequestPCs
  <2>2. CASE Commit(r)
    BY <2>2, StageValues DEF Commit, Answer, RequestPCs, TaskPCs
  <2>3. CASE Rollback(r) \/ ReadFails(r)
    BY <2>3 DEF Rollback, ReadFails, Answer, RequestPCs
  <2>4. QED
    BY <1>3, <2>1, <2>2, <2>3 DEF RequestStep
<1>4. ASSUME NEW r \in Uploads, TaskStep(r)
      PROVE  TypeOK'
  <2> USE DEF GoTo, RequestFrame, TaskPCs
  <2>1. CASE UpdateStage(r)
    BY <2>1, StageValues DEF UpdateStage
  <2>2. CASE LogStage(r)
    BY <2>2, StageValues, LogAppended DEF LogStage
  <2>3. CASE StatementFails(r)
    BY <2>3, StageValues DEF StatementFails, Raise
  <2>4. CASE FinishRunSuccess(r)
    BY <2>4, StageValues DEF FinishRunSuccess
  <2>5. CASE LogDone(r)
    BY <2>5, StageValues, LogAppended DEF LogDone
  <2>6. CASE LogError(r)
    BY <2>6, LogAppended DEF LogError
  <2>7. CASE FinishRunFailed(r) \/ HandlerFails(r)
    BY <2>7 DEF FinishRunFailed, HandlerFails
  <2>8. QED
    BY <1>4, <2>1, <2>2, <2>3, <2>4, <2>5, <2>6, <2>7 DEF TaskStep
<1>5. ASSUME NEW r \in Uploads, BodyStep(r)
      PROVE  TypeOK'
  <2> USE DEF GoTo, RequestFrame, TaskPCs
  <2>1. CASE Body(r)
    <3>1. at[r] # LastStage => at[r] + 1 \in 1 .. LastStage
      <4>1. at[r] \in 1 .. 6 /\ LastStage = 6
        BY StageCount
      <4>2. QED
        BY <4>1
    <3>2. QED
      BY <2>1, <3>1 DEF Body
  <2>2. CASE BodyFails(r)
    <3>1. \E c \in RowStages : Raise(r, "body", c)
      BY <2>2, StageValues DEF BodyFails
    <3>2. QED
      BY <3>1 DEF Raise
  <2>3. QED
    BY <1>5, <2>1, <2>2 DEF BodyStep
<1>6. CASE CrashAndRestart
  BY <1>6 DEF CrashAndRestart, RequestPCs, TaskPCs
<1>7. CASE UNCHANGED vars
  BY <1>7 DEF vars
<1>8. QED
  BY <1>1, <1>2, <1>3, <1>4, <1>5, <1>6, <1>7 DEF Next

(* The variables always have their types.                                  *)
THEOREM TypeCorrect == Spec => []TypeOK
  BY TypeInit, TypeStep, PTL DEF Spec

-----------------------------------------------------------------------------
(* Rows and uploads: they come together, when the request is answered and  *)
(* the task begins, and a target with an upload is not deleted.            *)
UploadBehindTask(r) ==
    /\ rpc[r] # "answered" => pc[r] = "none"
    /\ pc[r] = "none" => status[r] = "none" /\ uploadTarget[r] = None
    /\ pc[r] # "none" => status[r] # "none" /\ uploadTarget[r] # None
    /\ uploadTarget[r] # None => uploadTarget[r] \in targets

UploadInv == \A r \in Uploads : UploadBehindTask(r)

LEMMA UploadInvInit == Init => UploadInv
  BY DEF Init, UploadInv, UploadBehindTask

LEMMA UploadInvStep == TypeOK /\ UploadInv /\ [Next]_vars => UploadInv'
<1> SUFFICES ASSUME TypeOK, UploadInv, [Next]_vars
             PROVE  UploadInv'
  OBVIOUS
<1> USE DEF UploadInv, UploadBehindTask, TypeOK, tableVars, taskVars
<1>1. ASSUME \/ \E s \in Sources : DeleteSource(s)
             \/ \E t \in Targets : DeleteTarget(t)
      PROVE  UploadInv'
  BY <1>1 DEF DeleteSource, DeleteTarget
<1>2. ASSUME NEW r \in Uploads, NEW f \in Forms, Receive(r, f)
      PROVE  UploadInv'
  BY <1>2 DEF Receive, Answer
<1>3. ASSUME NEW r \in Uploads, RequestStep(r)
      PROVE  UploadInv'
  <2>1. CASE FindTarget(r) \/ FindSource(r) \/ Rollback(r) \/ ReadFails(r)
    BY <2>1 DEF FindTarget, FindSource, Rollback, ReadFails, Answer
  <2>2. CASE Commit(r)
    <3>1. form[r].target \in targets /\ form[r].target # None
      BY <2>2, ConstantsAssumption DEF Commit
    <3>2. QED
      BY <2>2, <3>1 DEF Commit, Answer
  <2>3. QED
    BY <1>3, <2>1, <2>2 DEF RequestStep
<1>4. ASSUME NEW r \in Uploads, TaskStep(r) \/ BodyStep(r)
      PROVE  UploadInv'
  <2>1. /\ UNCHANGED << targets, rpc, uploadTarget >>
        /\ pc[r] # "none" /\ pc'[r] # "none"
        /\ status'[r] # "none"
        /\ \A q \in Uploads \ {r} : pc'[q] = pc[q] /\ status'[q] = status[q]
    BY <1>4 DEF TaskStep, BodyStep, UpdateStage, LogStage, StatementFails, Raise,
                FinishRunSuccess, LogDone, LogError, FinishRunFailed, HandlerFails,
                Body, BodyFails, GoTo, RequestFrame
  <2>2. QED
    BY <2>1
<1>5. CASE CrashAndRestart
  BY <1>5 DEF CrashAndRestart
<1>6. CASE UNCHANGED vars
  BY <1>6 DEF vars
<1>7. QED
  BY <1>1, <1>2, <1>3, <1>4, <1>5, <1>6 DEF Next

LEMMA UploadInvariant == Spec => [](TypeOK /\ UploadInv)
  BY TypeInit, TypeStep, UploadInvInit, UploadInvStep, PTL DEF Spec

(* There is a run exactly where there is an upload.                        *)
THEOREM RunsHaveUploads == Spec => []EveryRunHasItsUpload
<1>1. UploadInv => EveryRunHasItsUpload
  BY DEF UploadInv, UploadBehindTask, EveryRunHasItsUpload
<1>2. QED
  BY UploadInvariant, <1>1, PTL

(* The target of an uploaded archive is never deleted.                     *)
THEOREM TargetsAreKept == Spec => []ArchiveKeepsTarget
<1>1. UploadInv => ArchiveKeepsTarget
  BY DEF UploadInv, UploadBehindTask, ArchiveKeepsTarget
<1>2. QED
  BY UploadInvariant, <1>1, PTL

-----------------------------------------------------------------------------
(* Success: a task that is past receive_file has a good file, and one past *)
(* verify_remote has seen the archive.                                     *)
PastVerify ==
    \A r \in Uploads :
        /\ pc[r] = "none" => at[r] = 1
        /\ pc[r] \in {"update", "log", "body"} /\ at[r] > 2 => form[r].file = "good"
        /\ pc[r] \in {"finish", "logDone"} => r \in onTarget /\ form[r].file = "good"

LEMMA VerifyStep ==
    ASSUME TypeOK, UploadInv, PastVerify, SuccessIsVerified, [Next]_vars
    PROVE  (PastVerify /\ SuccessIsVerified)'
<1> USE DEF TypeOK, PastVerify, SuccessIsVerified, tableVars, taskVars
<1>1. ASSUME \/ \E s \in Sources : DeleteSource(s)
             \/ \E t \in Targets : DeleteTarget(t)
      PROVE  (PastVerify /\ SuccessIsVerified)'
  BY <1>1 DEF DeleteSource, DeleteTarget
<1>2. ASSUME NEW r \in Uploads, NEW f \in Forms, Receive(r, f)
      PROVE  (PastVerify /\ SuccessIsVerified)'
  <2>1. pc[r] = "none" /\ status[r] = "none"
    BY <1>2 DEF Receive, Answer, UploadInv, UploadBehindTask
  <2>2. QED
    BY <1>2, <2>1 DEF Receive
<1>3. ASSUME NEW r \in Uploads, RequestStep(r)
      PROVE  (PastVerify /\ SuccessIsVerified)'
  <2>1. CASE FindTarget(r) \/ FindSource(r) \/ Rollback(r) \/ ReadFails(r)
    BY <2>1 DEF FindTarget, FindSource, Rollback, ReadFails
  <2>2. CASE Commit(r)
    BY <2>2 DEF Commit, Answer, UploadInv, UploadBehindTask
  <2>3. QED
    BY <1>3, <2>1, <2>2 DEF RequestStep
<1>4. ASSUME NEW r \in Uploads, TaskStep(r) \/ BodyFails(r)
      PROVE  (PastVerify /\ SuccessIsVerified)'
  BY <1>4 DEF TaskStep, UpdateStage, LogStage, StatementFails, Raise,
              FinishRunSuccess, LogDone, LogError, FinishRunFailed, HandlerFails,
              BodyFails, GoTo, RequestFrame
<1>5. ASSUME NEW r \in Uploads, Body(r)
      PROVE  (PastVerify /\ SuccessIsVerified)'
  <2>1. /\ pc[r] = "body" /\ UNCHANGED << form, status >> /\ onTarget \subseteq onTarget'
        /\ \A q \in Uploads \ {r} : pc'[q] = pc[q] /\ at'[q] = at[q]
    BY <1>5 DEF Body, GoTo, RequestFrame
  <2>2. at[r] \in 1 .. 6 /\ LastStage = 6
    BY StageCount
  <2>3. CASE at[r] = 6
    BY <1>5, <2>1, <2>2, <2>3 DEF Body, GoTo
  <2>4. CASE at[r] # 6
    <3>1. pc'[r] = "update" /\ at'[r] = at[r] + 1
      BY <1>5, <2>2, <2>4 DEF Body, GoTo
    <3>2. at[r] = 2 => form[r].file = "good"
      BY <1>5, StageCount DEF Body
    <3>3. at'[r] > 2 => form'[r].file = "good"
      BY <2>1, <2>2, <3>1, <3>2
    <3>4. QED
      BY <2>1, <3>1, <3>3
  <2>5. QED
    BY <2>3, <2>4
<1>6. CASE CrashAndRestart
  BY <1>6 DEF CrashAndRestart
<1>7. CASE UNCHANGED vars
  BY <1>7 DEF vars
<1>8. QED
  BY <1>1, <1>2, <1>3, <1>4, <1>5, <1>6, <1>7 DEF Next, BodyStep

(* A run shows Success only if its archive was seen on the target and its  *)
(* file passed both checks, whatever fails or restarts.                    *)
THEOREM SuccessBehindVerify == Spec => []SuccessIsVerified
<1>1. Init => PastVerify /\ SuccessIsVerified
  BY DEF Init, PastVerify, SuccessIsVerified
<1>2. TypeOK /\ UploadInv /\ PastVerify /\ SuccessIsVerified /\ [Next]_vars
        => (PastVerify /\ SuccessIsVerified)'
  BY VerifyStep
<1>3. QED
  BY <1>1, <1>2, UploadInvariant, PTL DEF Spec

-----------------------------------------------------------------------------
(* What the log of a run holds at each point of its task.                  *)
FirstStages(l, n) ==
    Len(l) = n /\ \A i \in 1 .. n : l[i] = Entry("INFO", Stages[i])

LogFollowsTask(r) ==
    /\ pc[r] = "none" => logs[r] = << >> /\ at[r] = 1
    /\ pc[r] \in {"update", "log"} => FirstStages(logs[r], at[r] - 1)
    /\ pc[r] = "body" => FirstStages(logs[r], at[r])
    /\ pc[r] \in {"finish", "logDone"} => FirstStages(logs[r], LastStage)
    /\ pc[r] = "fail" => /\ logs[r] # << >>
                        /\ logs[r][Len(logs[r])] = Entry("ERROR", cause[r])
    /\ status[r] = "Failed" => pc[r] \in {"over", "dead"}
    /\ status[r] = "Success" =>
          pc[r] \in {"logDone", "logError", "fail", "over", "lost", "dead"}

Explained(r) ==
    /\ status[r] = "Success" =>
          /\ Len(logs[r]) >= LastStage
          /\ \A i \in 1 .. LastStage : logs[r][i] = Entry("INFO", Stages[i])
    /\ status[r] = "Failed" =>
          /\ logs[r] # << >>
          /\ logs[r][Len(logs[r])] = Entry("ERROR", stage[r])

LogInv == \A r \in Uploads : LogFollowsTask(r) /\ Explained(r)

(* The log of the next stage extends the log of the first ones.            *)
LEMMA FirstStagesGrow ==
    ASSUME NEW l \in Seq(Entries), NEW n \in 1 .. LastStage, FirstStages(l, n - 1)
    PROVE  FirstStages(Append(l, Entry("INFO", Stages[n])), n)
<1>1. n \in 1 .. 6
  BY StageCount
<1>2. Entry("INFO", Stages[n]) \in Entries
  BY StageValues DEF Entry, Entries
<1>3. QED
  BY <1>1, <1>2, LogGrows DEF FirstStages

(* A step of one task only changes the log and the row of its run.         *)
LEMMA LogInvFrame ==
    ASSUME LogInv, NEW r \in Uploads,
           \A q \in Uploads \ {r} :
              /\ pc'[q] = pc[q] /\ at'[q] = at[q] /\ cause'[q] = cause[q]
              /\ logs'[q] = logs[q] /\ status'[q] = status[q] /\ stage'[q] = stage[q],
           (LogFollowsTask(r) /\ Explained(r))'
    PROVE  LogInv'
<1>1. ASSUME NEW q \in Uploads \ {r}
      PROVE  (LogFollowsTask(q) /\ Explained(q))'
  BY <1>1 DEF LogInv, LogFollowsTask, Explained, FirstStages
<1>2. QED
  BY <1>1 DEF LogInv

LEMMA LogInvStep ==
    ASSUME TypeOK, UploadInv, LogInv, [Next]_vars
    PROVE  LogInv'
<1> USE DEF GoTo, RequestFrame, tableVars, taskVars
<1>0. /\ pc \in [Uploads -> TaskPCs] /\ at \in [Uploads -> 1 .. LastStage]
      /\ stage \in [Uploads -> RowStages] /\ cause \in [Uploads -> RowStages]
      /\ logs \in [Uploads -> Seq(Entries)]
      /\ status \in [Uploads -> {"none", "Pending", "Running", "Success", "Failed"}]
  BY DEF TypeOK
<1>1. ASSUME UNCHANGED << status, stage, logs, taskVars >>
      PROVE  LogInv'
  BY <1>1 DEF LogInv, LogFollowsTask, Explained, FirstStages
<1>2. ASSUME NEW r \in Uploads, Commit(r)
      PROVE  LogInv'
  <2>1. pc[r] = "none"
    BY <1>2 DEF Commit, Answer, UploadInv, UploadBehindTask
  <2>2. /\ logs'[r] = << >> /\ at'[r] = 1 /\ pc'[r] = "update"
        /\ status'[r] = "Pending"
    BY <1>0, <1>2, <2>1 DEF Commit, LogInv, LogFollowsTask
  <2>3. (LogFollowsTask(r) /\ Explained(r))'
    BY <2>2 DEF LogFollowsTask, Explained, FirstStages
  <2>4. QED
    BY <1>0, <1>2, <2>3, LogInvFrame DEF Commit
<1>3. ASSUME NEW r \in Uploads, TaskStep(r)
      PROVE  LogInv'
  <2>0. LogFollowsTask(r) /\ Explained(r)
    BY DEF LogInv
  <2>1. CASE UpdateStage(r)
    <3>1. /\ logs'[r] = logs[r] /\ at'[r] = at[r] /\ pc'[r] = "log"
          /\ status'[r] = "Running" /\ FirstStages(logs[r], at[r] - 1)
      BY <1>0, <2>0, <2>1 DEF UpdateStage, LogFollowsTask
    <3>2. (LogFollowsTask(r) /\ Explained(r))'
      BY <3>1 DEF LogFollowsTask, Explained, FirstStages
    <3>3. QED
      BY <1>0, <2>1, <3>2, LogInvFrame DEF UpdateStage
  <2>2. CASE LogStage(r)
    <3>1. /\ logs'[r] = Append(logs[r], Entry("INFO", Stages[at[r]]))
          /\ at'[r] = at[r] /\ pc'[r] = "body" /\ status'[r] = status[r]
          /\ status[r] \notin {"Success", "Failed"}
          /\ FirstStages(logs[r], at[r] - 1)
      BY <1>0, <2>0, <2>2 DEF LogStage, LogFollowsTask
    <3>2. FirstStages(logs'[r], at'[r])
      BY <1>0, <3>1, FirstStagesGrow
    <3>3. (LogFollowsTask(r) /\ Explained(r))'
      BY <3>1, <3>2 DEF LogFollowsTask, Explained, FirstStages
    <3>4. QED
      BY <1>0, <2>2, <3>3, LogInvFrame DEF LogStage
  <2>3. CASE StatementFails(r) \/ HandlerFails(r)
    <3>1. /\ logs'[r] = logs[r] /\ status'[r] = status[r] /\ stage'[r] = stage[r]
          /\ pc'[r] \in {"logError", "lost"} /\ status[r] # "Failed"
      BY <1>0, <2>0, <2>3 DEF StatementFails, HandlerFails, Raise, LogFollowsTask
    <3>2. (LogFollowsTask(r) /\ Explained(r))'
      BY <2>0, <3>1 DEF LogFollowsTask, Explained
    <3>3. QED
      BY <1>0, <2>3, <3>2, LogInvFrame DEF StatementFails, HandlerFails, Raise
  <2>4. CASE FinishRunSuccess(r)
    <3>1. /\ logs'[r] = logs[r] /\ status'[r] = "Success" /\ pc'[r] = "logDone"
          /\ FirstStages(logs[r], LastStage)
      BY <1>0, <2>0, <2>4 DEF FinishRunSuccess, LogFollowsTask
    <3>2. (LogFollowsTask(r) /\ Explained(r))'
      BY <3>1, StageCount DEF LogFollowsTask, Explained, FirstStages
    <3>3. QED
      BY <1>0, <2>4, <3>2, LogInvFrame DEF FinishRunSuccess
  <2>5. CASE LogDone(r) \/ LogError(r)
    <3>1. PICK l \in {"INFO", "ERROR"}, s \in RowStages :
             /\ logs'[r] = Append(logs[r], Entry(l, s))
             /\ LogError(r) => l = "ERROR" /\ s = cause[r]
      BY <1>0, <2>5, StageValues DEF LogDone, LogError
    <3>2. Entry(l, s) \in Entries
      BY DEF Entry, Entries
    <3>3. /\ logs'[r] # << >> /\ Len(logs'[r]) = Len(logs[r]) + 1
          /\ logs'[r][Len(logs'[r])] = Entry(l, s)
          /\ \A i \in 1 .. Len(logs[r]) : logs'[r][i] = logs[r][i]
      <4>1. logs[r] \in Seq(Entries)
        BY <1>0
      <4>2. logs'[r] = Append(logs[r], Entry(l, s))
        BY <3>1
      <4>3. QED
        BY <3>2, <4>1, <4>2, LogGrows
    <3>4. /\ status'[r] = status[r] /\ status[r] # "Failed" /\ cause'[r] = cause[r]
          /\ \/ LogDone(r) /\ pc'[r] = "over"
             \/ LogError(r) /\ pc'[r] = "fail"
      BY <1>0, <2>0, <2>5 DEF LogDone, LogError, LogFollowsTask
    <3>5. Len(logs[r]) \in Nat /\ LastStage = 6
      BY <1>0, StageCount
    <3>6. Explained(r)'
      <4>1. ASSUME status[r] = "Success"
            PROVE  /\ Len(logs'[r]) >= LastStage
                   /\ \A i \in 1 .. LastStage : logs'[r][i] = Entry("INFO", Stages[i])
        <5>1. /\ Len(logs[r]) >= 6
              /\ \A i \in 1 .. 6 : logs[r][i] = Entry("INFO", Stages[i])
          BY <2>0, <3>5, <4>1 DEF Explained
        <5>2. \A i \in 1 .. 6 : i \in 1 .. Len(logs[r])
          BY <3>5, <5>1
        <5>3. QED
          BY <3>3, <3>5, <5>1, <5>2
      <4>2. QED
        BY <3>4, <4>1 DEF Explained
    <3>7. LogFollowsTask(r)'
      BY <3>1, <3>3, <3>4 DEF LogFollowsTask
    <3>8. QED
      BY <1>0, <2>5, <3>6, <3>7, LogInvFrame DEF LogDone, LogError
  <2>6. CASE FinishRunFailed(r)
    <3>1. /\ logs'[r] = logs[r] /\ status'[r] = "Failed" /\ stage'[r] = cause[r]
          /\ pc'[r] = "over" /\ logs[r] # << >>
          /\ logs[r][Len(logs[r])] = Entry("ERROR", cause[r])
      BY <1>0, <2>0, <2>6 DEF FinishRunFailed, LogFollowsTask
    <3>2. (LogFollowsTask(r) /\ Explained(r))'
      BY <3>1 DEF LogFollowsTask, Explained
    <3>3. QED
      BY <1>0, <2>6, <3>2, LogInvFrame DEF FinishRunFailed
  <2>7. QED
    BY <1>3, <2>1, <2>2, <2>3, <2>4, <2>5, <2>6 DEF TaskStep
<1>4. ASSUME NEW r \in Uploads, BodyStep(r)
      PROVE  LogInv'
  <2>0. LogFollowsTask(r) /\ Explained(r)
    BY DEF LogInv
  <2>1. /\ logs'[r] = logs[r] /\ status'[r] = status[r] /\ stage'[r] = stage[r]
        /\ FirstStages(logs[r], at[r]) /\ status[r] \notin {"Success", "Failed"}
    BY <1>0, <1>4, <2>0 DEF BodyStep, Body, BodyFails, Raise, LogFollowsTask
  <2>2. \/ pc'[r] = "logError"
        \/ pc'[r] = "finish" /\ at[r] = LastStage
        \/ pc'[r] = "update" /\ at'[r] = at[r] + 1
    BY <1>0, <1>4 DEF BodyStep, Body, BodyFails, Raise
  <2>3. at[r] \in Nat
    <3>1. at[r] \in 1 .. LastStage
      BY <1>0
    <3>2. QED
      BY <3>1
  <2>4. (LogFollowsTask(r) /\ Explained(r))'
    BY <2>1, <2>2, <2>3 DEF LogFollowsTask, Explained, FirstStages
  <2>5. QED
    BY <1>0, <1>4, <2>4, LogInvFrame DEF BodyStep, Body, BodyFails, Raise
<1>5. CASE CrashAndRestart
  <2>1. ASSUME NEW r \in Uploads
        PROVE  (LogFollowsTask(r) /\ Explained(r))'
    <3>1. /\ pc'[r] = IF pc[r] \in {"none", "over", "lost"} THEN pc[r] ELSE "dead"
          /\ UNCHANGED << logs, status, stage, at >>
      BY <1>5 DEF CrashAndRestart
    <3>2. LogFollowsTask(r) /\ Explained(r)
      BY DEF LogInv
    <3>3. QED
      BY <3>1, <3>2 DEF LogFollowsTask, Explained
  <2>2. QED
    BY <2>1 DEF LogInv
<1>6. QED
  BY <1>1, <1>2, <1>3, <1>4, <1>5
  DEF Next, DeleteSource, DeleteTarget, Receive, RequestStep, FindTarget, FindSource,
      Rollback, ReadFails, vars

LEMMA LogInvariant == Spec => []LogInv
<1>1. Init => LogInv
  BY DEF Init, LogInv, LogFollowsTask, Explained
<1>2. TypeOK /\ UploadInv /\ LogInv /\ [Next]_vars => LogInv'
  BY LogInvStep
<1>3. QED
  BY <1>1, <1>2, UploadInvariant, PTL DEF Spec

(* The log always explains how a closed upload ended.                      *)
THEOREM LogsExplain == Spec => []LogsExplainOutcome
<1>1. LogInv => LogsExplainOutcome
  BY DEF LogInv, Explained, LogsExplainOutcome
<1>2. QED
  BY <1>1, LogInvariant, PTL

-----------------------------------------------------------------------------
(* What a step makes of the row of an upload.                              *)
LEMMA RowSteps ==
    ASSUME TypeOK, UploadInv, [Next]_vars, NEW r \in Uploads
    PROVE  \/ status'[r] = status[r] /\ stage'[r] = stage[r]
           \/ status[r] = "none" /\ status'[r] = "Pending"
           \/ pc[r] = "update" /\ status'[r] = "Running"
           \/ pc[r] = "finish" /\ status'[r] = "Success"
           \/ pc[r] = "fail" /\ status'[r] = "Failed" /\ stage'[r] = cause[r]
<1> USE DEF GoTo, tableVars
<1>0. /\ stage \in [Uploads -> RowStages]
      /\ status \in [Uploads -> {"none", "Pending", "Running", "Success", "Failed"}]
  BY DEF TypeOK
<1>1. ASSUME NEW q \in Uploads, Commit(q)
      PROVE  \/ status'[r] = status[r] /\ stage'[r] = stage[r]
             \/ status[r] = "none" /\ status'[r] = "Pending"
  BY <1>0, <1>1 DEF Commit, Answer, UploadInv, UploadBehindTask
<1>2. ASSUME NEW q \in Uploads, TaskStep(q)
      PROVE  \/ status'[r] = status[r] /\ stage'[r] = stage[r]
             \/ pc[r] = "update" /\ status'[r] = "Running"
             \/ pc[r] = "finish" /\ status'[r] = "Success"
             \/ pc[r] = "fail" /\ status'[r] = "Failed" /\ stage'[r] = cause[r]
  <2>1. CASE UpdateStage(q) \/ FinishRunSuccess(q) \/ FinishRunFailed(q)
    BY <1>0, <2>1 DEF UpdateStage, FinishRunSuccess, FinishRunFailed
  <2>2. CASE LogStage(q) \/ StatementFails(q) \/ LogDone(q) \/ LogError(q) \/ HandlerFails(q)
    BY <2>2 DEF LogStage, StatementFails, Raise, LogDone, LogError, HandlerFails
  <2>3. QED
    BY <1>2, <2>1, <2>2 DEF TaskStep
<1>3. ASSUME ~\E q \in Uploads : Commit(q) \/ TaskStep(q)
      PROVE  UNCHANGED << status, stage >>
  BY <1>3 DEF Next, DeleteSource, DeleteTarget, Receive, RequestStep, FindTarget,
              FindSource, Rollback, ReadFails, BodyStep, Body, BodyFails, Raise,
              CrashAndRestart, vars
<1>4. QED
  BY <1>1, <1>2, <1>3

(* No step writes two rows.                                                *)
LEMMA OneRowAtATime ==
    ASSUME TypeOK, [Next]_vars, NEW q \in Uploads, NEW r \in Uploads, q # r,
           status'[r] # status[r]
    PROVE  status'[q] = status[q]
<1> USE DEF tableVars
<1>0. status \in [Uploads -> {"none", "Pending", "Running", "Success", "Failed"}]
  BY DEF TypeOK
<1>1. ASSUME NEW p \in Uploads, Commit(p) \/ TaskStep(p)
      PROVE  status'[q] = status[q]
  <2>1. CASE Commit(p) \/ UpdateStage(p) \/ FinishRunSuccess(p) \/ FinishRunFailed(p)
    BY <1>0, <2>1 DEF Commit, UpdateStage, FinishRunSuccess, FinishRunFailed
  <2>2. CASE LogStage(p) \/ StatementFails(p) \/ LogDone(p) \/ LogError(p) \/ HandlerFails(p)
    BY <2>2 DEF LogStage, StatementFails, Raise, LogDone, LogError, HandlerFails
  <2>3. QED
    BY <1>1, <2>1, <2>2 DEF TaskStep
<1>2. ASSUME ~\E p \in Uploads : Commit(p) \/ TaskStep(p)
      PROVE  UNCHANGED status
  BY <1>2 DEF Next, DeleteSource, DeleteTarget, Receive, RequestStep, FindTarget,
              FindSource, Rollback, ReadFails, BodyStep, Body, BodyFails, Raise,
              CrashAndRestart, vars
<1>3. QED
  BY <1>1, <1>2

LEMMA HistoryStep ==
    ASSUME TypeOK, UploadInv, LogInv, [Next]_vars
    PROVE  [History!Next]_HistoryRun
<1>1. CASE \A r \in Uploads : status'[r] = status[r]
  BY <1>1 DEF HistoryRun, Terminal
<1>2. ASSUME NEW r \in Uploads, status'[r] # status[r]
      PROVE  [History!Next]_HistoryRun
  <2>1. \A q \in Uploads \ {r} : status'[q] = status[q]
    BY <1>2, OneRowAtATime
  <2>2. \A q \in Uploads \ {r} : HistoryRun'[q] = HistoryRun[q]
    BY <2>1 DEF HistoryRun, Terminal
  <2>3. \/ HistoryRun'[r] = HistoryRun[r]
        \/ HistoryRun[r] = "none" /\ HistoryRun'[r] = "open"
        \/ HistoryRun[r] = "open" /\ HistoryRun'[r] = "closed"
    <3>1. /\ status[r] \in {"none", "Pending", "Running", "Success", "Failed"}
          /\ LogFollowsTask(r) /\ UploadBehindTask(r)
      BY DEF TypeOK, LogInv, UploadInv
    <3>2. /\ pc[r] \in {"update", "finish"} => status[r] \in {"Pending", "Running"}
          /\ pc[r] = "fail" => status[r] # "none"
      BY <3>1 DEF UploadBehindTask, LogFollowsTask
    <3>3. \/ status[r] = "none" /\ status'[r] = "Pending"
          \/ pc[r] = "update" /\ status'[r] = "Running"
          \/ pc[r] = "finish" /\ status'[r] = "Success"
          \/ pc[r] = "fail" /\ status'[r] = "Failed"
      BY <1>2, RowSteps
    <3>4. QED
      BY <3>1, <3>2, <3>3 DEF HistoryRun, Terminal
  <2>4. HistoryRun' = [HistoryRun EXCEPT ![r] = HistoryRun'[r]]
    BY <2>2 DEF HistoryRun
  <2>5. HistoryRun'[r] = HistoryRun[r] => HistoryRun' = HistoryRun
    BY <2>4 DEF HistoryRun
  <2> HIDE DEF HistoryRun
  <2>6. QED
    BY <2>3, <2>4, <2>5 DEF History!Next, History!Enter
<1>3. QED
  BY <1>1, <1>2

(* Whatever fails or restarts: an upload that is there stays there, and    *)
(* one that is closed is never open again.                                 *)
THEOREM ImplementsHistory == Spec => History!Spec
<1>1. Init => History!Init
  BY DEF Init, HistoryRun, History!Init
<1>2. QED
  BY <1>1, HistoryStep, UploadInvariant, LogInvariant, PTL DEF Spec, History!Spec

-----------------------------------------------------------------------------
(* If no statement fails, nothing goes wrong behind a Success.             *)
ErrorBeforeSuccess ==
    \A r \in Uploads : pc[r] \in {"logError", "fail"} => status[r] # "Success"

LEMMA ErrorBeforeSuccessStep ==
    ASSUME ~DbFaults, TypeOK, UploadInv, LogInv, ErrorBeforeSuccess, [Next]_vars
    PROVE  ErrorBeforeSuccess'
<1> USE DEF GoTo, RequestFrame, tableVars, taskVars
<1>0. /\ pc \in [Uploads -> TaskPCs]
      /\ status \in [Uploads -> {"none", "Pending", "Running", "Success", "Failed"}]
  BY DEF TypeOK
<1>1. ASSUME NEW r \in Uploads, Commit(r)
      PROVE  ErrorBeforeSuccess'
  BY <1>0, <1>1 DEF Commit, ErrorBeforeSuccess
<1>2. ASSUME NEW r \in Uploads, TaskStep(r)
      PROVE  ErrorBeforeSuccess'
  <2>1. ~StatementFails(r) /\ ~HandlerFails(r)
    BY DEF StatementFails, HandlerFails
  <2>2. CASE UpdateStage(r) \/ LogStage(r) \/ FinishRunSuccess(r) \/ LogDone(r)
    BY <1>0, <2>2 DEF UpdateStage, LogStage, FinishRunSuccess, LogDone, ErrorBeforeSuccess
  <2>3. CASE LogError(r) \/ FinishRunFailed(r)
    BY <1>0, <2>3 DEF LogError, FinishRunFailed, ErrorBeforeSuccess
  <2>4. QED
    BY <1>2, <2>1, <2>2, <2>3 DEF TaskStep
<1>3. ASSUME NEW r \in Uploads, BodyStep(r)
      PROVE  ErrorBeforeSuccess'
  <2>1. pc[r] = "body" /\ status[r] # "Success" /\ status' = status
    BY <1>3 DEF BodyStep, Body, BodyFails, Raise, LogInv, LogFollowsTask
  <2>2. \A q \in Uploads \ {r} : pc'[q] = pc[q]
    BY <1>0, <1>3 DEF BodyStep, Body, BodyFails, Raise
  <2>3. QED
    BY <2>1, <2>2 DEF ErrorBeforeSuccess
<1>4. CASE CrashAndRestart
  BY <1>0, <1>4 DEF CrashAndRestart, ErrorBeforeSuccess
<1>5. ASSUME ~\E r \in Uploads : Commit(r) \/ TaskStep(r) \/ BodyStep(r), ~CrashAndRestart
      PROVE  UNCHANGED << pc, status >>
  BY <1>5 DEF Next, DeleteSource, DeleteTarget, Receive, RequestStep, FindTarget,
              FindSource, Rollback, ReadFails, vars
<1>6. QED
  BY <1>1, <1>2, <1>3, <1>4, <1>5 DEF ErrorBeforeSuccess

(* With all faults, a closed row is written at most once more: when its     *)
(* closing log fails, a Success becomes Failed and the log says why.        *)
THEOREM ClosedRowsFrozen == Spec => TerminalRowsFrozen
<1> DEFINE Frozen(r) ==
        Terminal(r) =>
            \/ status'[r] = status[r] /\ stage'[r] = stage[r]
            \/ /\ DbFaults
               /\ status[r] = "Success" /\ status'[r] = "Failed"
               /\ logs[r] # << >>
               /\ logs[r][Len(logs[r])] = Entry("ERROR", stage'[r])
           DecidedOnce == DbFaults \/ ErrorBeforeSuccess
<1>1. Init => DecidedOnce
  BY DEF Init, ErrorBeforeSuccess
<1>2. TypeOK /\ UploadInv /\ LogInv /\ DecidedOnce /\ [Next]_vars => DecidedOnce'
  BY ErrorBeforeSuccessStep
<1>3. ASSUME TypeOK, UploadInv, LogInv, DecidedOnce, [Next]_vars
      PROVE  [\A r \in Uploads : Frozen(r)]_vars
  <2> SUFFICES ASSUME NEW r \in Uploads, Terminal(r),
                      ~(status'[r] = status[r] /\ stage'[r] = stage[r])
               PROVE  /\ DbFaults
                      /\ status[r] = "Success" /\ status'[r] = "Failed"
                      /\ logs[r] # << >>
                      /\ logs[r][Len(logs[r])] = Entry("ERROR", stage'[r])
    OBVIOUS
  <2>1. LogFollowsTask(r)
    BY <1>3 DEF LogInv
  <2>2. pc[r] = "fail" /\ status[r] = "Success"
    BY <1>3, <2>1, RowSteps DEF LogFollowsTask, Terminal
  <2>3. status'[r] = "Failed" /\ stage'[r] = cause[r]
    BY <1>3, <2>2, RowSteps
  <2>4. DbFaults
    BY <1>3, <2>2 DEF ErrorBeforeSuccess
  <2>5. logs[r] # << >> /\ logs[r][Len(logs[r])] = Entry("ERROR", cause[r])
    BY <2>1, <2>2 DEF LogFollowsTask
  <2>6. QED
    BY <2>2, <2>3, <2>4, <2>5
<1> HIDE DEF DecidedOnce
<1>4. QED
  BY <1>1, <1>2, <1>3, UploadInvariant, LogInvariant, PTL
     DEF Spec, TerminalRowsFrozen
=============================================================================
