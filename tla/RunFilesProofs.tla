--------------------------- MODULE RunFilesProofs ---------------------------
(***************************************************************************)
(* Theorems about RunFiles, for any number of runs, requests, jobs,        *)
(* targets and hosts.                                                      *)
(***************************************************************************)
EXTENDS RunFiles, TLAPS

Placed  == Working \cup {"logDone"}
AtWork  == {"job", "target", "command", "mark", "log"}

(* What a request holds in memory while it is served, and what a task has  *)
(* decided before it works on its archive.                                 *)
TasksKnowPlace ==
    \A r \in Runs :
        /\ tpc[r] \in Placed \/ status[r] = "Success" => place[r] # None
        /\ status[r] = "Success" => tpc[r] \in {"logDone", "over"}

RequestsKnowRun ==
    \A q \in Requests :
        /\ rpc[q] \in AtWork \cup {"ok"} =>
              /\ reqRun[q] \in Runs
              /\ place[reqRun[q]] # None
              /\ tpc[reqRun[q]] \in {"logDone", "over"}
        /\ rpc[q] \in {"target", "command", "mark", "log"} => reqTarget[q] # None
        /\ rpc[q] \in {"command", "mark", "log"} => reqHost[q] # None
        /\ rpc[q] \in {"mark", "log"} => op[q] = "delete"

TypeInv == TypeOK /\ TasksKnowPlace /\ RequestsKnowRun

-----------------------------------------------------------------------------
(* A place is a host and a path.                                           *)
LEMMA PlaceParts ==
    ASSUME NEW p \in Places
    PROVE  /\ p = << p[1], p[2] >> /\ p[1] \in Hosts /\ p[2] \in Paths
           /\ p # None
BY ConstantsAssumption DEF Places

LEMMA NewPlace ==
    ASSUME TypeOK, NEW t \in Targets, NEW p \in Paths
    PROVE  << hostOf[t], p >> \in Places
BY DEF TypeOK, Places

LEMMA RequestPlace ==
    ASSUME TypeInv, NEW q \in Requests, rpc[q] = "command"
    PROVE  /\ reqRun[q] \in Runs /\ place[reqRun[q]] \in Places
           /\ reqHost[q] \in Hosts
           /\ ReqPlace(q) \in Places
           /\ ReqPlace(q)[2] = Path(reqRun[q])
<1>1. reqRun[q] \in Runs /\ place[reqRun[q]] \in Places /\ reqHost[q] \in Hosts
  BY DEF TypeInv, TypeOK, RequestsKnowRun, AtWork
<1>2. Path(reqRun[q]) \in Paths
  BY <1>1, PlaceParts DEF Path
<1>3. << reqHost[q], Path(reqRun[q]) >> \in Places
  BY <1>1, <1>2 DEF Places
<1> QED BY <1>1, <1>3 DEF ReqPlace

LEMMA TypeInvInit == Init => TypeInv
<1> SUFFICES ASSUME Init PROVE TypeInv
  OBVIOUS
<1>1. TypeOK
  <2>1. clock \in Seconds
    BY ConstantsAssumption DEF Init, Seconds
  <2>2. jobTarget \in [Jobs -> Targets \cup {None}] /\ hostOf \in [Targets -> Hosts]
    BY DEF Init
  <2> QED BY <2>1, <2>2 DEF Init, TypeOK, TaskPCs, RequestPCs
<1>2. TasksKnowPlace
  BY DEF Init, TasksKnowPlace, Placed, Working
<1>3. RequestsKnowRun
  BY DEF Init, RequestsKnowRun, AtWork
<1> QED BY <1>1, <1>2, <1>3 DEF TypeInv

LEMMA TypeInvStep == TypeInv /\ [Next]_vars => TypeInv'
<1> SUFFICES ASSUME TypeInv, [Next]_vars PROVE TypeInv'
  OBVIOUS
<1> USE DEF TypeInv
<1>1. CASE Tick
  BY <1>1, ConstantsAssumption DEF Tick, TypeOK, TasksKnowPlace, RequestsKnowRun,
     configVars, taskVars, reqVars, Seconds
<1>2. CASE CrashAndRestart
  <2>1. TypeOK'
    BY <1>2 DEF CrashAndRestart, TypeOK, configVars, TaskPCs, RequestPCs
  <2>2. TasksKnowPlace' /\ RequestsKnowRun'
    BY <1>2 DEF CrashAndRestart, TypeOK, TasksKnowPlace, RequestsKnowRun,
       Placed, Working, AtWork
  <2> QED BY <2>1, <2>2
<1>3. ASSUME NEW j \in Jobs, NEW t \in Targets \cup {None}, EditJob(j, t)
      PROVE  TypeInv'
  BY <1>3 DEF EditJob, TypeOK, TasksKnowPlace, RequestsKnowRun, taskVars, reqVars
<1>4. ASSUME NEW t \in Targets, NEW h \in Hosts, EditTarget(t, h)
      PROVE  TypeInv'
  BY <1>4 DEF EditTarget, TypeOK, TasksKnowPlace, RequestsKnowRun, taskVars, reqVars
<1>5. ASSUME NEW r \in Runs, NEW j \in Jobs, StartScheduled(r, j) PROVE TypeInv'
  <2>1. TypeOK'
    BY <1>5 DEF StartScheduled, GoTo, TypeOK, configVars, reqVars, TaskPCs
  <2>2. TasksKnowPlace' /\ RequestsKnowRun'
    BY <1>5 DEF StartScheduled, GoTo, TypeOK, TasksKnowPlace, RequestsKnowRun,
       reqVars, Placed, Working
  <2> QED BY <2>1, <2>2
<1>6. ASSUME NEW r \in Runs, NEW t \in Targets, StartManual(r, t) PROVE TypeInv'
  <2>1. TypeOK'
    BY <1>6 DEF StartManual, GoTo, TypeOK, configVars, reqVars, TaskPCs
  <2>2. TasksKnowPlace' /\ RequestsKnowRun'
    BY <1>6 DEF StartManual, GoTo, TypeOK, TasksKnowPlace, RequestsKnowRun,
       reqVars, Placed, Working
  <2> QED BY <2>1, <2>2
<1>7. ASSUME NEW r \in Runs, NEW t \in Targets, NEW p \in Paths, UploadTo(r, t, p)
      PROVE  TypeInv'
  <2>1. << hostOf[t], p >> \in Places /\ << hostOf[t], p >> # None
    BY NewPlace, PlaceParts
  <2>2. TypeOK'
    BY <1>7, <2>1 DEF UploadTo, GoTo, TypeOK, configVars, reqVars, TaskPCs, Working
  <2>3. TasksKnowPlace' /\ RequestsKnowRun'
    BY <1>7, <2>1 DEF UploadTo, GoTo, TypeOK, TasksKnowPlace, RequestsKnowRun,
       reqVars, Placed, Working
  <2> QED BY <2>2, <2>3
<1>8. ASSUME NEW r \in Runs, PrepareScheduled(r) PROVE TypeInv'
  <2>1. runJob[r] \in Jobs /\ jobTarget[runJob[r]] \in Targets
    BY <1>8 DEF PrepareScheduled, TypeOK
  <2>2. << DirOf[runJob[r]], clock >> \in Paths
    BY <2>1 DEF Paths, Dirs, TypeOK
  <2> QED BY <1>7, <1>8, <2>1, <2>2 DEF PrepareScheduled
<1>9. ASSUME NEW r \in Runs, NEW n \in FileNames, PrepareManual(r, n) PROVE TypeInv'
  <2>1. uploadTarget[r] \in Targets
    BY <1>9 DEF PrepareManual, TypeOK
  <2>2. << ManualDir, n >> \in Paths
    BY DEF Paths, Dirs
  <2> QED BY <1>7, <1>9, <2>1, <2>2 DEF PrepareManual
<1>10. ASSUME NEW r \in Runs, RunFails(r) PROVE TypeInv'
  <2>1. TypeOK'
    BY <1>10 DEF RunFails, TypeOK, configVars, reqVars, TaskPCs
  <2>2. TasksKnowPlace' /\ RequestsKnowRun'
    BY <1>10 DEF RunFails, TypeOK, TasksKnowPlace, RequestsKnowRun,
       reqVars, Placed, Working
  <2> QED BY <2>1, <2>2
<1>11. ASSUME NEW r \in Runs, Upload(r) PROVE TypeInv'
  <2>1. TypeOK'
    BY <1>11 DEF Upload, GoTo, TypeOK, configVars, reqVars, TaskPCs, Working
  <2>2. TasksKnowPlace' /\ RequestsKnowRun'
    BY <1>11 DEF Upload, GoTo, TypeOK, TasksKnowPlace, RequestsKnowRun,
       reqVars, Placed, Working
  <2> QED BY <2>1, <2>2
<1>12. ASSUME NEW r \in Runs, Verify(r) \/ FinishRunSuccess(r) \/ LogDone(r)
       PROVE  TypeInv'
  <2>1. TypeOK'
    BY <1>12 DEF Verify, FinishRunSuccess, LogDone, GoTo, TypeOK, configVars,
       reqVars, TaskPCs, Working
  <2>2. TasksKnowPlace' /\ RequestsKnowRun'
    BY <1>12 DEF Verify, FinishRunSuccess, LogDone, GoTo, TypeOK, TasksKnowPlace,
       RequestsKnowRun, reqVars, Placed, Working
  <2> QED BY <2>1, <2>2
<1>13. ASSUME NEW q \in Requests, NEW o \in {"download", "delete"}, NEW r \in Runs,
              Ask(q, o, r)
       PROVE  TypeInv'
  <2>1. TypeOK'
    BY <1>13 DEF Ask, Answer, ReqFrame, TypeOK, configVars, taskVars,
       RequestPCs, Answers
  <2>2. TasksKnowPlace'
    BY <1>13 DEF Ask, ReqFrame, TasksKnowPlace, taskVars
  <2>3. RequestsKnowRun'
    BY <1>13 DEF Ask, Answer, ReqFrame, TypeOK, TasksKnowPlace, RequestsKnowRun,
       taskVars, AtWork
  <2> QED BY <2>1, <2>2, <2>3
<1>14. ASSUME NEW q \in Requests, FindTarget(q) PROVE TypeInv'
  <2> DEFINE t == IF runJob[reqRun[q]] = None
                  THEN uploadTarget[reqRun[q]] ELSE jobTarget[runJob[reqRun[q]]]
  <2>1. reqRun[q] \in Runs
    BY <1>14 DEF FindTarget, RequestsKnowRun, AtWork
  <2>2. t \in Targets \cup {None}
    BY <2>1 DEF TypeOK
  <2>3. /\ reqTarget' = [reqTarget EXCEPT ![q] = t]
        /\ rpc' = [rpc EXCEPT ![q] = IF t = None THEN "notFound" ELSE "target"]
        /\ UNCHANGED << op, reqRun, seenDeleted, reqHost, got >>
        /\ ReqFrame
        /\ rpc[q] = "job"
    BY <1>14 DEF FindTarget, Answer
  <2> HIDE DEF t
  <2>4. TypeOK'
    BY <2>2, <2>3 DEF ReqFrame, TypeOK, configVars, taskVars, RequestPCs, Answers
  <2>5. TasksKnowPlace'
    BY <2>3 DEF ReqFrame, TasksKnowPlace, taskVars
  <2>6. RequestsKnowRun'
    BY <2>2, <2>3 DEF ReqFrame, TypeOK, RequestsKnowRun, taskVars, AtWork
  <2> QED BY <2>4, <2>5, <2>6
<1>15. ASSUME NEW q \in Requests, ReadTarget(q) PROVE TypeInv'
  <2>1. reqTarget[q] \in Targets
    BY <1>15 DEF ReadTarget, TypeOK, RequestsKnowRun
  <2>2. hostOf[reqTarget[q]] \in Hosts /\ hostOf[reqTarget[q]] # None
    BY <2>1, ConstantsAssumption DEF TypeOK
  <2>3. PICK a \in {"command", "conflict", "ok"} :
           rpc' = [rpc EXCEPT ![q] = a]
    BY <1>15 DEF ReadTarget, Answer, TypeOK
  <2>4. TypeOK'
    BY <1>15, <2>2, <2>3 DEF ReadTarget, ReqFrame, TypeOK, configVars, taskVars,
       RequestPCs, Answers
  <2>5. TasksKnowPlace'
    BY <1>15 DEF ReadTarget, ReqFrame, TasksKnowPlace, taskVars
  <2>6. RequestsKnowRun'
    BY <1>15, <2>2, <2>3 DEF ReadTarget, ReqFrame, TypeOK, RequestsKnowRun,
       taskVars, AtWork
  <2> QED BY <2>4, <2>5, <2>6
<1>16. ASSUME NEW q \in Requests, Download(q) PROVE TypeInv'
  <2>1. ReqPlace(q) \in Places
    BY <1>16, RequestPlace DEF Download
  <2>2. files[ReqPlace(q)] \in Runs \cup {None}
    BY <2>1 DEF TypeOK
  <2>3. PICK a \in {"ok", "error", "conflict"} : rpc' = [rpc EXCEPT ![q] = a]
    BY <1>16 DEF Download, Answer
  <2>4. got' \in [Requests -> Runs \cup {None}]
    BY <1>16, <2>2 DEF Download, TypeOK
  <2>5. TypeOK'
    BY <1>16, <2>3, <2>4 DEF Download, ReqFrame, TypeOK, configVars, taskVars,
       RequestPCs, Answers
  <2>6. TasksKnowPlace'
    BY <1>16 DEF Download, ReqFrame, TasksKnowPlace, taskVars
  <2>7. RequestsKnowRun'
    BY <1>16, <2>3 DEF Download, ReqFrame, TypeOK, RequestsKnowRun, taskVars, AtWork
  <2> QED BY <2>5, <2>6, <2>7
<1>17. ASSUME NEW q \in Requests, Remove(q) PROVE TypeInv'
  <2>1. PICK a \in {"mark", "error"} : rpc' = [rpc EXCEPT ![q] = a]
    BY <1>17 DEF Remove, Answer
  <2>2. TypeOK'
    BY <1>17, <2>1 DEF Remove, TypeOK, configVars, taskVars, RequestPCs, Answers
  <2>3. TasksKnowPlace'
    BY <1>17 DEF Remove, TasksKnowPlace, taskVars
  <2>4. RequestsKnowRun'
    BY <1>17, <2>1 DEF Remove, TypeOK, RequestsKnowRun, taskVars, AtWork
  <2> QED BY <2>2, <2>3, <2>4
<1>18. ASSUME NEW q \in Requests,
              CommandFails(q) \/ LogFileDelete(q) \/ StatementFails(q)
       PROVE  TypeInv'
  <2>1. PICK a \in {"ok", "error", "notFound"} :
           /\ rpc' = [rpc EXCEPT ![q] = a]
           /\ a = "ok" => rpc[q] = "log"
    BY <1>18 DEF CommandFails, LogFileDelete, StatementFails, Answer
  <2>2. ReqFrame /\ UNCHANGED << op, reqRun, seenDeleted, reqTarget, reqHost, got >>
    BY <1>18 DEF CommandFails, LogFileDelete, StatementFails
  <2>3. TypeOK'
    BY <2>1, <2>2 DEF ReqFrame, TypeOK, configVars, taskVars, RequestPCs, Answers
  <2>4. TasksKnowPlace'
    BY <2>2 DEF ReqFrame, TasksKnowPlace, taskVars
  <2>5. RequestsKnowRun'
    BY <2>1, <2>2 DEF ReqFrame, TypeOK, RequestsKnowRun, taskVars, AtWork
  <2> QED BY <2>3, <2>4, <2>5
<1>19. ASSUME NEW q \in Requests, Mark(q) PROVE TypeInv'
  <2>1. reqRun[q] \in Runs
    BY <1>19 DEF Mark, RequestsKnowRun, AtWork
  <2>2. TypeOK'
    BY <1>19, <2>1 DEF Mark, Answer, TypeOK, configVars, taskVars, RequestPCs
  <2>3. TasksKnowPlace'
    BY <1>19 DEF Mark, TasksKnowPlace, taskVars
  <2>4. RequestsKnowRun'
    BY <1>19 DEF Mark, Answer, TypeOK, RequestsKnowRun, taskVars, AtWork
  <2> QED BY <2>2, <2>3, <2>4
<1>20. CASE UNCHANGED vars
  BY <1>20 DEF vars, configVars, taskVars, reqVars, TypeOK, TasksKnowPlace,
     RequestsKnowRun
<1> QED
  BY <1>1, <1>2, <1>3, <1>4, <1>5, <1>6, <1>8, <1>9, <1>10, <1>11, <1>12, <1>13,
     <1>14, <1>15, <1>16, <1>17, <1>18, <1>19, <1>20 DEF Next, TaskStep, RequestStep

LEMMA TypeInvariant == Spec => []TypeInv
BY TypeInvInit, TypeInvStep, PTL DEF Spec

(* Every variable keeps its type.                                          *)
THEOREM TypeCorrect == Spec => []TypeOK
<1>1. TypeInv => TypeOK
  BY DEF TypeInv
<1> QED BY <1>1, TypeInvariant, PTL

-----------------------------------------------------------------------------
(* A request becomes a successful download only in Download.               *)
LEMMA IntegrityStep ==
    TypeInv /\ DownloadIntegrity /\ [Next]_vars => DownloadIntegrity'
<1> SUFFICES ASSUME TypeInv, DownloadIntegrity, [Next]_vars PROVE DownloadIntegrity'
  OBVIOUS
<1>1. ASSUME UNCHANGED << rpc, op, reqRun, got >> PROVE DownloadIntegrity'
  BY <1>1 DEF DownloadIntegrity
<1>2. CASE CrashAndRestart
  BY <1>2 DEF CrashAndRestart, DownloadIntegrity
<1>3. ASSUME NEW q \in Requests, NEW a, a # "ok" \/ op[q] # "download",
             rpc' = [rpc EXCEPT ![q] = a], UNCHANGED << op, reqRun, got >>
      PROVE  DownloadIntegrity'
  BY <1>3 DEF DownloadIntegrity, TypeInv, TypeOK
<1>4. ASSUME NEW q \in Requests, NEW o \in {"download", "delete"}, NEW r \in Runs,
             Ask(q, o, r)
      PROVE  DownloadIntegrity'
  BY <1>4 DEF Ask, Answer, DownloadIntegrity, TypeInv, TypeOK
<1>5. ASSUME NEW q \in Requests, Download(q) PROVE DownloadIntegrity'
  <2>1. CASE files[ReqPlace(q)] = reqRun[q]
    <3>1. /\ got' = [got EXCEPT ![q] = reqRun[q]]
          /\ rpc' = [rpc EXCEPT ![q] = "ok"]
          /\ UNCHANGED << op, reqRun >>
      BY <1>5, <2>1 DEF Download, Answer
    <3> QED BY <3>1 DEF DownloadIntegrity, TypeInv, TypeOK
  <2>2. CASE files[ReqPlace(q)] # reqRun[q]
    <3>1. PICK a \in {"error", "conflict"} : rpc' = [rpc EXCEPT ![q] = a]
      BY <1>5, <2>2 DEF Download, Answer
    <3>2. UNCHANGED << op, reqRun, got >>
      BY <1>5, <2>2 DEF Download
    <3> QED BY <1>3, <3>1, <3>2
  <2> QED BY <2>1, <2>2
<1>6. ASSUME NEW q \in Requests, RequestStep(q) PROVE DownloadIntegrity'
  <2>1. CASE FindTarget(q)
    <3>1. PICK a \in {"notFound", "target"} : rpc' = [rpc EXCEPT ![q] = a]
      BY <2>1 DEF FindTarget, Answer
    <3> QED BY <1>3, <2>1, <3>1 DEF FindTarget
  <2>2. CASE ReadTarget(q)
    <3>1. PICK a \in {"command", "conflict", "ok"} :
             /\ rpc' = [rpc EXCEPT ![q] = a]
             /\ a = "ok" => op[q] = "delete"
      BY <2>2 DEF ReadTarget, Answer, TypeInv, TypeOK
    <3> QED BY <1>3, <2>2, <3>1 DEF ReadTarget
  <2>3. CASE Remove(q)
    <3>1. PICK a \in {"mark", "error"} : rpc' = [rpc EXCEPT ![q] = a]
      BY <2>3 DEF Remove, Answer
    <3> QED BY <1>3, <2>3, <3>1 DEF Remove
  <2>4. CASE CommandFails(q)
    BY <1>3, <2>4 DEF CommandFails, Answer
  <2>5. CASE Mark(q)
    BY <1>3, <2>5 DEF Mark, Answer
  <2>6. CASE LogFileDelete(q)
    <3>1. op[q] # "download"
      BY <2>6 DEF LogFileDelete, TypeInv, RequestsKnowRun
    <3> QED BY <1>3, <2>6, <3>1 DEF LogFileDelete, Answer
  <2>7. CASE StatementFails(q)
    <3>1. PICK a \in {"notFound", "error"} : rpc' = [rpc EXCEPT ![q] = a]
      BY <2>7 DEF StatementFails, Answer
    <3> QED BY <1>3, <2>7, <3>1 DEF StatementFails
  <2> QED BY <1>5, <1>6, <2>1, <2>2, <2>3, <2>4, <2>5, <2>6, <2>7 DEF RequestStep
<1>7. ASSUME NEW r \in Runs, TaskStep(r) PROVE UNCHANGED << rpc, op, reqRun, got >>
  BY <1>7 DEF TaskStep, PrepareScheduled, PrepareManual, UploadTo, RunFails,
     Upload, Verify, FinishRunSuccess, LogDone, reqVars
<1>8. CASE /\ ~(\E q \in Requests : RequestStep(q))
           /\ ~(\E q \in Requests, o \in {"download", "delete"}, r \in Runs :
                   Ask(q, o, r))
           /\ ~CrashAndRestart
  <2>1. UNCHANGED << rpc, op, reqRun, got >>
    BY <1>7, <1>8 DEF Next, vars, Tick, EditJob, EditTarget, StartScheduled,
       StartManual, reqVars
  <2> QED BY <1>1, <2>1
<1> QED BY <1>2, <1>4, <1>6, <1>8

(* With all faults and all edits: a file that is served is the archive of  *)
(* the run it was asked for.                                               *)
THEOREM ServedFilesAreRight == Spec => []DownloadIntegrity
<1>1. Init => DownloadIntegrity
  BY DEF Init, DownloadIntegrity
<1> QED BY <1>1, IntegrityStep, TypeInvariant, PTL DEF Spec

-----------------------------------------------------------------------------
(* Upload and Remove are the only steps that change the files.             *)
LEMMA FilesFrame ==
    ASSUME [Next]_vars,
           ~(\E r \in Runs : Upload(r)), ~(\E q \in Requests : Remove(q))
    PROVE  files' = files
<1>1. ASSUME NEW r \in Runs, TaskStep(r) PROVE files' = files
  BY <1>1 DEF TaskStep, PrepareScheduled, PrepareManual, UploadTo, RunFails,
     Verify, FinishRunSuccess, LogDone
<1>2. ASSUME NEW q \in Requests, RequestStep(q) PROVE files' = files
  BY <1>2 DEF RequestStep, FindTarget, ReadTarget, Download, CommandFails, Mark,
     LogFileDelete, StatementFails, ReqFrame
<1>3. ASSUME NEW q \in Requests, NEW o \in {"download", "delete"}, NEW r \in Runs,
             Ask(q, o, r)
      PROVE  files' = files
  BY <1>3 DEF Ask, ReqFrame
<1> QED
  BY <1>1, <1>2, <1>3 DEF Next, vars, Tick, CrashAndRestart, EditJob, EditTarget,
     StartScheduled, StartManual

LEMMA LossStep ==
    ASSUME TypeInv, [Next]_vars, NEW r \in Runs,
           place[r] # None, files[place[r]] = r, files'[place[r]] # r
    PROVE  \/ \E q \in Requests : rpc[q] = "command" /\ Deleting(q, r)
           \/ \E r2 \in Runs \ {r} : place[r2] # None /\ Path(r2) = Path(r)
<1>1. place[r] \in Places
  BY DEF TypeInv, TypeOK
<1>2. ASSUME NEW s \in Runs, Upload(s)
      PROVE  \E r2 \in Runs \ {r} : place[r2] # None /\ Path(r2) = Path(r)
  <2>1. files' = [files EXCEPT ![place[s]] = s] /\ tpc[s] = "upload"
    BY <1>2 DEF Upload, GoTo
  <2>2. place[s] # None
    BY <2>1 DEF TypeInv, TasksKnowPlace, Placed, Working
  <2>3. place[s] = place[r] /\ s # r
    BY <1>1, <2>1 DEF TypeInv, TypeOK
  <2> QED BY <2>2, <2>3 DEF Path
<1>3. ASSUME NEW q \in Requests, Remove(q)
      PROVE  \/ rpc[q] = "command" /\ Deleting(q, r)
             \/ \E r2 \in Runs \ {r} : place[r2] # None /\ Path(r2) = Path(r)
  <2>1. /\ files' = [files EXCEPT ![ReqPlace(q)] = None]
        /\ rpc[q] = "command" /\ op[q] = "delete"
    BY <1>3 DEF Remove
  <2>2. /\ reqRun[q] \in Runs /\ place[reqRun[q]] # None
        /\ ReqPlace(q)[2] = Path(reqRun[q])
    BY <2>1, RequestPlace, PlaceParts
  <2>3. ReqPlace(q) = place[r]
    BY <1>1, <2>1 DEF TypeInv, TypeOK
  <2>4. Path(reqRun[q]) = Path(r)
    BY <2>2, <2>3 DEF Path
  <2> QED BY <2>1, <2>2, <2>4 DEF Deleting
<1> QED BY <1>2, <1>3, FilesFrame

(* With all faults and all edits: an archive disappears only in a delete   *)
(* of its own run, or because another run has the same path.               *)
THEOREM LossesAreExplained == Spec => FileLossExplained
<1>1. TypeInv /\ [Next]_vars =>
        [ \A r \in Runs :
            place[r] # None /\ files[place[r]] = r /\ files'[place[r]] # r =>
               \/ \E q \in Requests : rpc[q] = "command" /\ Deleting(q, r)
               \/ \E r2 \in Runs \ {r} :
                     place[r2] # None /\ Path(r2) = Path(r) ]_vars
  BY LossStep
<1> QED BY <1>1, TypeInvariant, PTL DEF Spec, FileLossExplained

-----------------------------------------------------------------------------
(* When jobs and targets keep their addresses, a request finds the place   *)
(* its run was uploaded to.                                                *)
HomeTarget(r) ==
    IF runJob[r] = None THEN uploadTarget[r] ELSE jobTarget[runJob[r]]

HomesKnown ==
    \A r \in Runs :
        /\ tpc[r] \in {"idle", "prepare"} => place[r] = None
        /\ tpc[r] = "idle" => runJob[r] = None /\ uploadTarget[r] = None
        /\ runJob[r] = None \/ uploadTarget[r] = None
        /\ place[r] # None => /\ HomeTarget(r) \in Targets
                              /\ place[r][1] = hostOf[HomeTarget(r)]

RequestsFindHome ==
    \A q \in Requests :
        /\ rpc[q] \in {"target", "command"} => reqTarget[q] = HomeTarget(reqRun[q])
        /\ rpc[q] = "command" => reqHost[q] = hostOf[HomeTarget(reqRun[q])]

HomeInv == HomesKnown /\ RequestsFindHome

(* A step that leaves jobs, targets and what the runs are about alone.     *)
LEMMA HomeFrame ==
    ASSUME UNCHANGED << configVars, runJob, uploadTarget, place, tpc >>, HomesKnown
    PROVE  /\ HomesKnown'
           /\ \A r \in Runs : HomeTarget(r)' = HomeTarget(r)
BY DEF HomesKnown, HomeTarget, configVars

LEMMA HomeStep ==
    ASSUME ~EditJobs, ~EditTargets
    PROVE  TypeInv /\ HomeInv /\ [Next]_vars => HomeInv'
<1> SUFFICES ASSUME TypeInv, HomesKnown, RequestsFindHome, [Next]_vars
             PROVE  HomesKnown' /\ RequestsFindHome'
  BY DEF HomeInv
<1>1. UNCHANGED configVars
  <2>1. ASSUME NEW r \in Runs, TaskStep(r) PROVE UNCHANGED configVars
    BY <2>1 DEF TaskStep, PrepareScheduled, PrepareManual, UploadTo, RunFails,
       Upload, Verify, FinishRunSuccess, LogDone
  <2>2. ASSUME NEW q \in Requests, RequestStep(q) PROVE UNCHANGED configVars
    BY <2>2 DEF RequestStep, FindTarget, ReadTarget, Download, Remove, CommandFails,
       Mark, LogFileDelete, StatementFails, ReqFrame
  <2>3. ASSUME NEW q \in Requests, NEW o \in {"download", "delete"}, NEW r \in Runs,
               Ask(q, o, r)
        PROVE  UNCHANGED configVars
    BY <2>3 DEF Ask, ReqFrame
  <2> QED
    BY <2>1, <2>2, <2>3 DEF Next, vars, Tick, CrashAndRestart, EditJob, EditTarget,
       StartScheduled, StartManual
<1>2. ASSUME NEW r \in Runs, UNCHANGED << runJob, uploadTarget, reqVars >>,
             NEW t, NEW p \in Paths, t \in Targets, t = HomeTarget(r),
             place' = [place EXCEPT ![r] = << hostOf[t], p >>],
             tpc' = [tpc EXCEPT ![r] = "upload"], tpc[r] = "prepare"
      PROVE  HomesKnown' /\ RequestsFindHome'
  <2>1. \A s \in Runs : HomeTarget(s)' = HomeTarget(s)
    BY <1>1, <1>2 DEF HomeTarget, configVars
  <2>2. place'[r] = << hostOf[t], p >> /\ tpc'[r] = "upload"
    BY <1>2 DEF TypeInv, TypeOK
  <2>3. \A s \in Runs \ {r} : place'[s] = place[s] /\ tpc'[s] = tpc[s]
    BY <1>2 DEF TypeInv, TypeOK
  <2>4. place'[r][1] = hostOf'[HomeTarget(r)'] /\ HomeTarget(r)' \in Targets
    BY <1>1, <1>2, <2>1, <2>2 DEF configVars
  <2>5. HomesKnown'
    <3> SUFFICES ASSUME NEW s \in Runs
                 PROVE  /\ tpc'[s] \in {"idle", "prepare"} => place'[s] = None
                        /\ tpc'[s] = "idle" => runJob'[s] = None /\ uploadTarget'[s] = None
                        /\ runJob'[s] = None \/ uploadTarget'[s] = None
                        /\ place'[s] # None => /\ HomeTarget(s)' \in Targets
                                               /\ place'[s][1] = hostOf'[HomeTarget(s)']
      BY DEF HomesKnown
    <3>1. CASE s = r
      BY <1>2, <2>2, <2>4, <3>1 DEF HomesKnown
    <3>2. CASE s # r
      BY <1>1, <1>2, <2>1, <2>3, <3>2 DEF HomesKnown, configVars
    <3> QED BY <3>1, <3>2
  <2>6. RequestsFindHome'
    BY <1>1, <1>2, <2>1 DEF RequestsFindHome, TypeInv, RequestsKnowRun, AtWork,
       configVars, reqVars
  <2> QED BY <2>5, <2>6
<1>3. ASSUME NEW r \in Runs, TaskStep(r) PROVE HomesKnown' /\ RequestsFindHome'
  <2>1. CASE PrepareScheduled(r)
    <3>1. runJob[r] \in Jobs /\ jobTarget[runJob[r]] \in Targets
          /\ jobTarget[runJob[r]] = HomeTarget(r)
      BY <2>1 DEF PrepareScheduled, TypeInv, TypeOK, HomeTarget
    <3>2. << DirOf[runJob[r]], clock >> \in Paths
      BY <3>1 DEF Paths, Dirs, TypeInv, TypeOK
    <3> QED BY <1>2, <2>1, <3>1, <3>2 DEF PrepareScheduled, UploadTo, GoTo
  <2>2. ASSUME NEW n \in FileNames, PrepareManual(r, n)
        PROVE  HomesKnown' /\ RequestsFindHome'
    <3>1. uploadTarget[r] \in Targets /\ uploadTarget[r] = HomeTarget(r)
      BY <2>2 DEF PrepareManual, TypeInv, TypeOK, HomeTarget, HomesKnown
    <3>2. << ManualDir, n >> \in Paths
      BY DEF Paths, Dirs
    <3> QED BY <1>2, <2>2, <3>1, <3>2 DEF PrepareManual, UploadTo, GoTo
  <2>3. CASE RunFails(r) \/ Upload(r) \/ Verify(r) \/ FinishRunSuccess(r) \/ LogDone(r)
    <3>1. UNCHANGED << runJob, uploadTarget, place, reqVars >>
      BY <2>3 DEF RunFails, Upload, Verify, FinishRunSuccess, LogDone
    <3>2. PICK c \in Working \cup {"logDone", "over"} : tpc' = [tpc EXCEPT ![r] = c]
      BY <2>3 DEF RunFails, Upload, Verify, FinishRunSuccess, LogDone, GoTo, Working
    <3>3. \A s \in Runs : tpc'[s] \in {"idle", "prepare"} => tpc'[s] = tpc[s]
      BY <3>2 DEF Working, TypeInv, TypeOK
    <3>4. \A s \in Runs : HomeTarget(s)' = HomeTarget(s)
      BY <1>1, <3>1 DEF HomeTarget, configVars
    <3>5. HomesKnown'
      BY <1>1, <3>1, <3>3, <3>4 DEF HomesKnown, configVars
    <3>6. RequestsFindHome'
      BY <1>1, <3>1, <3>4 DEF RequestsFindHome, TypeInv, RequestsKnowRun, AtWork,
         configVars, reqVars
    <3> QED BY <3>5, <3>6
  <2> QED BY <1>3, <2>1, <2>2, <2>3 DEF TaskStep
<1>4. ASSUME NEW r \in Runs, tpc[r] = "idle", tpc' = [tpc EXCEPT ![r] = "prepare"],
             UNCHANGED << place, reqVars >>,
             NEW j \in Jobs \cup {None}, NEW t \in Targets \cup {None},
             runJob' = [runJob EXCEPT ![r] = j],
             uploadTarget' = [uploadTarget EXCEPT ![r] = t],
             j = None \/ t = None
      PROVE  HomesKnown' /\ RequestsFindHome'
  <2>1. place[r] = None
    BY <1>4 DEF HomesKnown
  <2>2. \A s \in Runs \ {r} : HomeTarget(s)' = HomeTarget(s) /\ tpc'[s] = tpc[s]
                              /\ runJob'[s] = runJob[s]
                              /\ uploadTarget'[s] = uploadTarget[s]
    BY <1>1, <1>4 DEF HomeTarget, configVars, TypeInv, TypeOK
  <2>3. tpc'[r] = "prepare" /\ runJob'[r] = j /\ uploadTarget'[r] = t
    BY <1>4 DEF TypeInv, TypeOK
  <2>4. HomesKnown'
    BY <1>1, <1>4, <2>1, <2>2, <2>3 DEF HomesKnown, configVars
  <2>5. ASSUME NEW q \in Requests, rpc[q] \in {"target", "command"}
        PROVE  HomeTarget(reqRun[q])' = HomeTarget(reqRun[q])
    <3>1. reqRun[q] \in Runs /\ reqRun[q] # r /\ reqRun'[q] = reqRun[q]
      BY <1>4, <2>1, <2>5 DEF TypeInv, RequestsKnowRun, AtWork, reqVars
    <3> QED BY <1>4, <2>2, <3>1 DEF HomeTarget, reqVars
  <2>6. RequestsFindHome'
    BY <1>1, <1>4, <2>5 DEF RequestsFindHome, configVars, reqVars
  <2> QED BY <2>4, <2>6
<1>5. ASSUME NEW r \in Runs, NEW j \in Jobs, StartScheduled(r, j)
      PROVE  HomesKnown' /\ RequestsFindHome'
  <2>1. uploadTarget[r] = None
    BY <1>5 DEF StartScheduled, GoTo, HomesKnown
  <2>2. uploadTarget' = [uploadTarget EXCEPT ![r] = None]
    BY <1>5, <2>1 DEF StartScheduled, TypeInv, TypeOK
  <2> QED BY <1>4, <1>5, <2>2 DEF StartScheduled, GoTo
<1>6. ASSUME NEW r \in Runs, NEW t \in Targets, StartManual(r, t)
      PROVE  HomesKnown' /\ RequestsFindHome'
  <2>1. runJob[r] = None
    BY <1>6 DEF StartManual, GoTo, HomesKnown
  <2>2. runJob' = [runJob EXCEPT ![r] = None]
    BY <1>6, <2>1 DEF StartManual, TypeInv, TypeOK
  <2> QED BY <1>4, <1>6, <2>2 DEF StartManual, GoTo
<1>7. ASSUME UNCHANGED taskVars, NEW q \in Requests, NEW a,
             rpc' = [rpc EXCEPT ![q] = a], a \notin {"target", "command"},
             \A p \in Requests \ {q} : /\ reqRun'[p] = reqRun[p]
                                       /\ reqTarget'[p] = reqTarget[p]
                                       /\ reqHost'[p] = reqHost[p]
      PROVE  HomesKnown' /\ RequestsFindHome'
  <2>1. HomesKnown' /\ \A s \in Runs : HomeTarget(s)' = HomeTarget(s)
    BY <1>1, <1>7, HomeFrame DEF taskVars
  <2>2. \A p \in Requests \ {q} : rpc'[p] = rpc[p]
    BY <1>7 DEF TypeInv, TypeOK
  <2>3. rpc'[q] = a
    BY <1>7 DEF TypeInv, TypeOK
  <2>4. \A p \in Requests : rpc'[p] \in {"target", "command"} =>
           p # q /\ reqRun[p] \in Runs
    BY <1>7, <2>2, <2>3 DEF TypeInv, RequestsKnowRun, AtWork
  <2>5. RequestsFindHome'
    BY <1>1, <1>7, <2>1, <2>2, <2>4 DEF RequestsFindHome, configVars
  <2> QED BY <2>1, <2>5
<1>8. ASSUME NEW q \in Requests, NEW o \in {"download", "delete"}, NEW r \in Runs,
             Ask(q, o, r)
      PROVE  HomesKnown' /\ RequestsFindHome'
  <2>1. PICK a \in {"job", "conflict"} : rpc' = [rpc EXCEPT ![q] = a]
    BY <1>8 DEF Ask, Answer
  <2>2. \A p \in Requests \ {q} : /\ reqRun'[p] = reqRun[p]
                                  /\ reqTarget'[p] = reqTarget[p]
                                  /\ reqHost'[p] = reqHost[p]
    BY <1>8 DEF Ask, TypeInv, TypeOK
  <2>3. UNCHANGED taskVars
    BY <1>8 DEF Ask, ReqFrame
  <2> QED BY <1>7, <2>1, <2>2, <2>3
<1>9. ASSUME NEW q \in Requests, FindTarget(q) PROVE HomesKnown' /\ RequestsFindHome'
  <2>1. rpc[q] = "job" /\ reqRun[q] \in Runs
    BY <1>9 DEF FindTarget, TypeInv, RequestsKnowRun, AtWork
  <2>2. /\ reqTarget' = [reqTarget EXCEPT ![q] = HomeTarget(reqRun[q])]
        /\ UNCHANGED << taskVars, reqRun, reqHost >>
    BY <1>9 DEF FindTarget, ReqFrame, HomeTarget
  <2>3. PICK a \in {"target", "notFound"} : rpc' = [rpc EXCEPT ![q] = a]
    BY <1>9 DEF FindTarget, Answer
  <2>4. HomesKnown' /\ \A s \in Runs : HomeTarget(s)' = HomeTarget(s)
    BY <1>1, <2>2, HomeFrame DEF taskVars
  <2>5. \A p \in Requests : rpc'[p] \in {"target", "command"} => reqRun[p] \in Runs
    BY <2>1, <2>3 DEF TypeInv, TypeOK, RequestsKnowRun, AtWork
  <2>6. RequestsFindHome'
    BY <1>1, <2>2, <2>3, <2>4, <2>5 DEF RequestsFindHome, configVars, TypeInv, TypeOK
  <2> QED BY <2>4, <2>6
<1>10. ASSUME NEW q \in Requests, ReadTarget(q) PROVE HomesKnown' /\ RequestsFindHome'
  <2>1. rpc[q] = "target" /\ reqRun[q] \in Runs /\ reqTarget[q] = HomeTarget(reqRun[q])
    BY <1>10 DEF ReadTarget, TypeInv, RequestsKnowRun, AtWork, RequestsFindHome
  <2>2. /\ reqHost' = [reqHost EXCEPT ![q] = hostOf[HomeTarget(reqRun[q])]]
        /\ UNCHANGED << taskVars, reqRun, reqTarget >>
    BY <1>10, <2>1 DEF ReadTarget, ReqFrame
  <2>3. PICK a \in {"command", "conflict", "ok"} : rpc' = [rpc EXCEPT ![q] = a]
    BY <1>10 DEF ReadTarget, Answer, TypeInv, TypeOK
  <2>4. HomesKnown' /\ \A s \in Runs : HomeTarget(s)' = HomeTarget(s)
    BY <1>1, <2>2, HomeFrame DEF taskVars
  <2>5. \A p \in Requests : rpc'[p] \in {"target", "command"} => reqRun[p] \in Runs
    BY <2>1, <2>3 DEF TypeInv, TypeOK, RequestsKnowRun, AtWork
  <2>6. RequestsFindHome'
    BY <1>1, <2>1, <2>2, <2>3, <2>4, <2>5
       DEF RequestsFindHome, configVars, TypeInv, TypeOK
  <2> QED BY <2>4, <2>6
<1>11. ASSUME NEW q \in Requests,
              Download(q) \/ Remove(q) \/ CommandFails(q) \/ Mark(q)
              \/ LogFileDelete(q) \/ StatementFails(q)
       PROVE  HomesKnown' /\ RequestsFindHome'
  <2>1. PICK a \in Answers \cup {"mark", "log"} : rpc' = [rpc EXCEPT ![q] = a]
    BY <1>11 DEF Download, Remove, CommandFails, Mark, LogFileDelete,
       StatementFails, Answer, Answers
  <2>2. UNCHANGED << taskVars, reqRun, reqTarget, reqHost >>
    BY <1>11 DEF Download, Remove, CommandFails, Mark, LogFileDelete,
       StatementFails, ReqFrame
  <2> QED BY <1>7, <2>1, <2>2 DEF Answers
<1>12. CASE CrashAndRestart
  <2>1. UNCHANGED << runJob, uploadTarget, place >>
    BY <1>12 DEF CrashAndRestart
  <2>2. \A s \in Runs : tpc'[s] \in {"idle", "prepare"} => tpc'[s] = tpc[s]
    BY <1>12 DEF CrashAndRestart
  <2>3. \A s \in Runs : HomeTarget(s)' = HomeTarget(s)
    BY <1>1, <2>1 DEF HomeTarget, configVars
  <2>4. HomesKnown'
    BY <1>1, <2>1, <2>2, <2>3 DEF HomesKnown, configVars
  <2>5. RequestsFindHome'
    BY <1>12 DEF CrashAndRestart, RequestsFindHome
  <2> QED BY <2>4, <2>5
<1>13. CASE UNCHANGED << taskVars, reqVars >>
  <2>1. HomesKnown' /\ \A s \in Runs : HomeTarget(s)' = HomeTarget(s)
    BY <1>1, <1>13, HomeFrame DEF taskVars
  <2> QED BY <1>1, <1>13, <2>1 DEF RequestsFindHome, TypeInv, RequestsKnowRun,
             AtWork, configVars, reqVars
<1> QED
  BY <1>3, <1>5, <1>6, <1>8, <1>9, <1>10, <1>11, <1>12, <1>13
  DEF Next, RequestStep, Tick, EditJob, EditTarget, vars

-----------------------------------------------------------------------------
(* An archive that was removed does not come back: its task is past the    *)
(* upload.  `Condemned' are the runs whose removal somebody counts on.     *)
Gone(r) == files[place[r]] # r

Condemned(r) ==
    \/ fileDeleted[r]
    \/ \E q \in Requests :
          /\ reqRun[q] = r
          /\ \/ rpc[q] \in {"mark", "log"}
             \/ rpc[q] = "ok" /\ op[q] = "delete"

GoneInv ==
    /\ \A r \in Runs : Condemned(r) =>
          place[r] # None /\ tpc[r] \in {"logDone", "over"} /\ Gone(r)
    /\ \A q \in Requests :
          rpc[q] \in {"job", "target"} /\ seenDeleted[q] => fileDeleted[reqRun[q]]

(* The request removes what its run's task uploaded.                       *)
LEMMA RemovesHome ==
    ASSUME TypeInv, HomeInv, NEW q \in Requests, rpc[q] = "command"
    PROVE  ReqPlace(q) = place[reqRun[q]]
<1>1. reqRun[q] \in Runs /\ place[reqRun[q]] \in Places
  BY RequestPlace
<1>2. /\ place[reqRun[q]] = << place[reqRun[q]][1], place[reqRun[q]][2] >>
      /\ place[reqRun[q]] # None
  BY <1>1, PlaceParts
<1>3. reqHost[q] = place[reqRun[q]][1]
  BY <1>1, <1>2 DEF HomeInv, HomesKnown, RequestsFindHome
<1> QED BY <1>2, <1>3 DEF ReqPlace, Path

LEMMA GoneStep ==
    TypeInv /\ HomeInv /\ GoneInv /\ [Next]_vars => GoneInv'
<1> SUFFICES ASSUME TypeInv, HomeInv, GoneInv, [Next]_vars PROVE GoneInv'
  OBVIOUS
\* A step that adds no request to count on and does not upload the run again.
<1>1. ASSUME \A r \in Runs : Condemned(r)' => Condemned(r),
             \A r \in Runs : Condemned(r) =>
                 place'[r] = place[r] /\ tpc'[r] \in {"logDone", "over"} /\ Gone(r)',
             \A q \in Requests : rpc'[q] \in {"job", "target"} /\ seenDeleted'[q] =>
                 fileDeleted'[reqRun'[q]]
      PROVE  GoneInv'
  BY <1>1 DEF GoneInv
<1>2. ASSUME NEW r \in Runs, TaskStep(r) \/ Tick
             \/ (\E j \in Jobs : StartScheduled(r, j))
             \/ (\E t \in Targets : StartManual(r, t))
      PROVE  GoneInv'
  <2>1. UNCHANGED << reqVars, fileDeleted >>
    BY <1>2 DEF TaskStep, Tick, PrepareScheduled, PrepareManual, UploadTo, RunFails,
       Upload, Verify, FinishRunSuccess, LogDone, StartScheduled, StartManual
  <2>2. \A s \in Runs : Condemned(s)' <=> Condemned(s)
    BY <2>1 DEF Condemned, reqVars
  <2>3. ASSUME NEW s \in Runs, Condemned(s)
        PROVE  place'[s] = place[s] /\ tpc'[s] \in {"logDone", "over"} /\ Gone(s)'
    <3>1. place[s] \in Places /\ tpc[s] \in {"logDone", "over"} /\ files[place[s]] # s
      BY <2>3 DEF GoneInv, Gone, TypeInv, TypeOK
    <3>2. place'[s] = place[s] /\ tpc'[s] \in {"logDone", "over"}
      BY <1>2, <3>1 DEF TaskStep, Tick, PrepareScheduled, PrepareManual, UploadTo,
         RunFails, Upload, Verify, FinishRunSuccess, LogDone, StartScheduled,
         StartManual, GoTo, TypeInv, TypeOK, taskVars
    <3>3. files'[place[s]] # s
      <4>1. CASE Upload(r)
        BY <3>1, <4>1 DEF Upload, GoTo, TypeInv, TypeOK
      <4>2. CASE ~Upload(r)
        <5>1. files' = files
          BY <1>2, <4>2 DEF TaskStep, Tick, PrepareScheduled, PrepareManual,
             UploadTo, RunFails, Verify, FinishRunSuccess, LogDone,
             StartScheduled, StartManual
        <5> QED BY <3>1, <5>1
      <4> QED BY <4>1, <4>2
    <3> QED BY <3>2, <3>3 DEF Gone
  <2>4. \A q \in Requests : rpc'[q] \in {"job", "target"} /\ seenDeleted'[q] =>
           fileDeleted'[reqRun'[q]]
    BY <2>1 DEF GoneInv, reqVars
  <2> QED BY <1>1, <2>2, <2>3, <2>4
<1>3. CASE CrashAndRestart
  <2>1. \A s \in Runs : Condemned(s)' => Condemned(s)
    BY <1>3 DEF CrashAndRestart, Condemned
  <2>2. ASSUME NEW s \in Runs, Condemned(s)
        PROVE  place'[s] = place[s] /\ tpc'[s] \in {"logDone", "over"} /\ Gone(s)'
    BY <1>3, <2>2 DEF CrashAndRestart, GoneInv, Gone
  <2>3. \A q \in Requests : rpc'[q] \notin {"job", "target"}
    BY <1>3 DEF CrashAndRestart
  <2> QED BY <1>1, <2>1, <2>2, <2>3
\* A step of one request that leaves files and rows alone.
<1>4. ASSUME ReqFrame, NEW q \in Requests, NEW a, rpc' = [rpc EXCEPT ![q] = a],
             \A p \in Requests \ {q} : /\ reqRun'[p] = reqRun[p] /\ op'[p] = op[p]
                                       /\ seenDeleted'[p] = seenDeleted[p],
             a \notin {"mark", "log"},
             a = "ok" /\ op'[q] = "delete" =>
                 reqRun'[q] = reqRun[q] /\ (rpc[q] = "log" \/ fileDeleted[reqRun[q]]),
             a \in {"job", "target"} /\ seenDeleted'[q] => fileDeleted[reqRun'[q]]
      PROVE  GoneInv'
  <2>1. /\ rpc'[q] = a
        /\ \A p \in Requests \ {q} : rpc'[p] = rpc[p]
    BY <1>4 DEF TypeInv, TypeOK
  <2>2. UNCHANGED << files, fileDeleted, place, tpc >>
    BY <1>4 DEF ReqFrame, taskVars
  <2>3. ASSUME NEW s \in Runs, Condemned(s)' PROVE Condemned(s)
    <3>1. CASE fileDeleted'[s]
      BY <2>2, <3>1 DEF Condemned
    <3>2. CASE ~fileDeleted'[s]
      <4>1. PICK p \in Requests :
               /\ reqRun'[p] = s
               /\ \/ rpc'[p] \in {"mark", "log"}
                  \/ rpc'[p] = "ok" /\ op'[p] = "delete"
        BY <2>3, <3>2 DEF Condemned
      <4>2. CASE p = q
        BY <1>4, <2>1, <2>2, <3>2, <4>1, <4>2 DEF Condemned
      <4>3. CASE p # q
        BY <1>4, <2>1, <4>1, <4>3 DEF Condemned
      <4> QED BY <4>2, <4>3
    <3> QED BY <3>1, <3>2
  <2>4. ASSUME NEW s \in Runs, Condemned(s)
        PROVE  place'[s] = place[s] /\ tpc'[s] \in {"logDone", "over"} /\ Gone(s)'
    BY <2>2, <2>4 DEF GoneInv, Gone
  <2>5. \A p \in Requests : rpc'[p] \in {"job", "target"} /\ seenDeleted'[p] =>
           fileDeleted'[reqRun'[p]]
    BY <1>4, <2>1, <2>2 DEF GoneInv
  <2> QED BY <1>1, <2>3, <2>4, <2>5
<1>5. ASSUME NEW q \in Requests, NEW o \in {"download", "delete"}, NEW r \in Runs,
             Ask(q, o, r)
      PROVE  GoneInv'
  <2>1. PICK a \in {"job", "conflict"} : rpc' = [rpc EXCEPT ![q] = a]
    BY <1>5 DEF Ask, Answer
  <2>2. \A p \in Requests \ {q} : /\ reqRun'[p] = reqRun[p] /\ op'[p] = op[p]
                                  /\ seenDeleted'[p] = seenDeleted[p]
    BY <1>5 DEF Ask, TypeInv, TypeOK
  <2>3. reqRun'[q] = r /\ seenDeleted'[q] = fileDeleted[r] /\ ReqFrame
    BY <1>5 DEF Ask, TypeInv, TypeOK
  <2> QED BY <1>4, <2>1, <2>2, <2>3
<1>6. ASSUME NEW q \in Requests, FindTarget(q) PROVE GoneInv'
  <2>1. PICK a \in {"target", "notFound"} : rpc' = [rpc EXCEPT ![q] = a]
    BY <1>6 DEF FindTarget, Answer
  <2>2. rpc[q] = "job" /\ ReqFrame /\ UNCHANGED << op, reqRun, seenDeleted >>
    BY <1>6 DEF FindTarget
  <2>3. seenDeleted[q] => fileDeleted[reqRun[q]]
    BY <2>2 DEF GoneInv
  <2> QED BY <1>4, <2>1, <2>2, <2>3
<1>7. ASSUME NEW q \in Requests, ReadTarget(q) PROVE GoneInv'
  <2>1. PICK a \in {"command", "conflict", "ok"} :
           rpc' = [rpc EXCEPT ![q] = a] /\ (a = "ok" => seenDeleted[q])
    BY <1>7 DEF ReadTarget, Answer, TypeInv, TypeOK
  <2>2. rpc[q] = "target" /\ ReqFrame /\ UNCHANGED << op, reqRun, seenDeleted >>
    BY <1>7 DEF ReadTarget
  <2>3. seenDeleted[q] => fileDeleted[reqRun[q]]
    BY <2>2 DEF GoneInv
  <2> QED BY <1>4, <2>1, <2>2, <2>3
<1>8. ASSUME NEW q \in Requests, Download(q) PROVE GoneInv'
  <2>1. PICK a \in {"ok", "error", "conflict"} : rpc' = [rpc EXCEPT ![q] = a]
    BY <1>8 DEF Download, Answer
  <2>2. op[q] = "download" /\ ReqFrame /\ UNCHANGED << op, reqRun, seenDeleted >>
    BY <1>8 DEF Download
  <2> QED BY <1>4, <2>1, <2>2
<1>9. ASSUME NEW q \in Requests,
             CommandFails(q) \/ LogFileDelete(q) \/ StatementFails(q)
      PROVE  GoneInv'
  <2>1. PICK a \in {"ok", "error", "notFound"} :
           rpc' = [rpc EXCEPT ![q] = a] /\ (a = "ok" => rpc[q] = "log")
    BY <1>9 DEF CommandFails, LogFileDelete, StatementFails, Answer
  <2>2. ReqFrame /\ UNCHANGED << op, reqRun, seenDeleted >>
    BY <1>9 DEF CommandFails, LogFileDelete, StatementFails
  <2> QED BY <1>4, <2>1, <2>2
<1>10. ASSUME NEW q \in Requests, Remove(q) PROVE GoneInv'
  <2>1. PICK a \in {"mark", "error"} : rpc' = [rpc EXCEPT ![q] = a]
    BY <1>10 DEF Remove, Answer
  <2>2. /\ rpc[q] = "command"
        /\ files' = [files EXCEPT ![ReqPlace(q)] = None]
        /\ UNCHANGED << op, reqRun, seenDeleted, fileDeleted, place, tpc >>
    BY <1>10 DEF Remove, taskVars
  <2>3. /\ reqRun[q] \in Runs /\ place[reqRun[q]] \in Places
        /\ tpc[reqRun[q]] \in {"logDone", "over"}
        /\ place[reqRun[q]] # None
    BY <2>2, RequestPlace, PlaceParts DEF TypeInv, RequestsKnowRun, AtWork
  <2>4. files' = [files EXCEPT ![place[reqRun[q]]] = None]
    BY <2>2, RemovesHome
  <2>5. \A s \in Runs, p \in Places : files[p] # s => files'[p] # s
    BY <2>3, <2>4, ConstantsAssumption DEF TypeInv, TypeOK
  <2>6. Gone(reqRun[q])'
    BY <2>2, <2>3, <2>4, ConstantsAssumption DEF Gone, TypeInv, TypeOK
  <2>7. /\ rpc'[q] = a
        /\ \A p \in Requests \ {q} : rpc'[p] = rpc[p]
    BY <2>1 DEF TypeInv, TypeOK
  <2>8. ASSUME NEW s \in Runs, Condemned(s)'
        PROVE  place'[s] # None /\ tpc'[s] \in {"logDone", "over"} /\ Gone(s)'
    <3>1. CASE s = reqRun[q]
      BY <2>2, <2>3, <2>6, <3>1
    <3>2. CASE s # reqRun[q]
      <4>1. Condemned(s)
        BY <2>2, <2>7, <2>8, <3>2 DEF Condemned
      <4>2. place[s] \in Places /\ place[s] # None /\ tpc[s] \in {"logDone", "over"}
            /\ Gone(s)
        BY <4>1 DEF GoneInv, TypeInv, TypeOK
      <4> QED BY <2>2, <2>5, <4>2 DEF Gone
    <3> QED BY <3>1, <3>2
  <2>9. \A p \in Requests : rpc'[p] \in {"job", "target"} /\ seenDeleted'[p] =>
           fileDeleted'[reqRun'[p]]
    BY <2>2, <2>7 DEF GoneInv
  <2> QED BY <2>8, <2>9 DEF GoneInv
<1>11. ASSUME NEW q \in Requests, Mark(q) PROVE GoneInv'
  <2>1. /\ rpc[q] = "mark"
        /\ rpc' = [rpc EXCEPT ![q] = "log"]
        /\ fileDeleted' = [fileDeleted EXCEPT ![reqRun[q]] = TRUE]
        /\ UNCHANGED << op, reqRun, seenDeleted, files, place, tpc >>
    BY <1>11 DEF Mark, Answer, taskVars
  <2>2. reqRun[q] \in Runs /\ Condemned(reqRun[q])
    BY <2>1 DEF TypeInv, RequestsKnowRun, AtWork, Condemned
  <2>3. ASSUME NEW s \in Runs, Condemned(s)' PROVE Condemned(s)
    <3>1. CASE s = reqRun[q]
      BY <2>2, <3>1
    <3>2. CASE s # reqRun[q]
      <4>1. fileDeleted'[s] = fileDeleted[s]
        BY <2>1, <3>2 DEF TypeInv, TypeOK
      <4> QED BY <2>1, <2>3, <3>2, <4>1 DEF Condemned, TypeInv, TypeOK
    <3> QED BY <3>1, <3>2
  <2>4. ASSUME NEW s \in Runs, Condemned(s)
        PROVE  place'[s] = place[s] /\ tpc'[s] \in {"logDone", "over"} /\ Gone(s)'
    BY <2>1, <2>4 DEF GoneInv, Gone
  <2>5. ASSUME NEW p \in Requests, rpc'[p] \in {"job", "target"}, seenDeleted'[p]
        PROVE  fileDeleted'[reqRun'[p]]
    <3>1. rpc[p] \in {"job", "target"} /\ seenDeleted[p]
      BY <2>1, <2>5 DEF TypeInv, TypeOK
    <3>2. fileDeleted[reqRun[p]] /\ reqRun[p] \in Runs
      BY <3>1 DEF GoneInv, TypeInv, RequestsKnowRun, AtWork
    <3> QED BY <2>1, <3>2 DEF TypeInv, TypeOK
  <2> QED BY <1>1, <2>3, <2>4, <2>5
<1>12. CASE \/ UNCHANGED vars
            \/ \E j \in Jobs, t \in Targets \cup {None} : EditJob(j, t)
            \/ \E t \in Targets, h \in Hosts : EditTarget(t, h)
            \/ Tick
  <2>1. UNCHANGED << files, fileDeleted, taskVars, reqVars >>
    BY <1>12 DEF vars, EditJob, EditTarget, Tick
  <2>2. \A s \in Runs : (Condemned(s)' <=> Condemned(s)) /\ (Gone(s)' <=> Gone(s))
    BY <2>1 DEF Condemned, Gone, taskVars, reqVars
  <2> QED BY <2>1, <2>2 DEF GoneInv, taskVars, reqVars
<1> QED
  BY <1>2, <1>3, <1>5, <1>6, <1>7, <1>8, <1>9, <1>10, <1>11, <1>12
  DEF Next, RequestStep

(* While jobs and targets keep their addresses, through all faults and     *)
(* restarts: deleted means gone.                                           *)
THEOREM DeletesAreTrue ==
    ASSUME ~EditJobs, ~EditTargets
    PROVE  Spec => []DeletedMeansGone
<1>1. Init => HomeInv /\ GoneInv
  BY DEF Init, HomeInv, HomesKnown, RequestsFindHome, GoneInv, Condemned
<1>2. TypeInv /\ HomeInv /\ [Next]_vars => HomeInv'
  BY HomeStep
<1>3. GoneInv => DeletedMeansGone
  BY DEF GoneInv, Condemned, Gone, DeletedMeansGone, Deleting
<1> QED BY <1>1, <1>2, <1>3, GoneStep, TypeInvariant, PTL DEF Spec
=============================================================================
