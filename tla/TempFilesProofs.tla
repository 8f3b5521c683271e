-------------------------- MODULE TempFilesProofs --------------------------
(***************************************************************************)
(* Theorems about TempFiles, for any number of tasks and of files, with    *)
(* all faults.                                                             *)
(***************************************************************************)
EXTENDS TempFiles, TLAPS

FileRec == [mode : Modes, side : {"source", "target"}, fault : FaultKinds]

(* The files a task has named and not given up.                            *)
Own(t) == {key[t], copy[t]} \cap Paths

-----------------------------------------------------------------------------
(* The inductive invariant.                                                *)

(* The identity file of the call a task is in.                             *)
KeyOK(t) ==
    /\ pc[t] \in {"idle", "check", "return", "read", "unlink"} => key[t] = NoPath
    /\ pc[t] \in {"write", "chmod"} => key[t] \in Paths
    /\ pc[t] \in {"spawn", "running", "remove"} =>
          (Side(call[t]) \in byKey[t] => key[t] \in Paths)
    /\ key[t] \in Paths =>
          /\ file[key[t]].fault = "none"
          /\ file[key[t]].side = Side(call[t])
          /\ pc[t] = "write" => file[key[t]].mode = "named"
          /\ pc[t] = "chmod" => file[key[t]].mode = "open"
          /\ pc[t] \in {"spawn", "running", "remove"} =>
                file[key[t]].mode = "private"

(* The copy of a download.  It is on disk only after the command has run,  *)
(* and knows if the command failed.                                        *)
CopyOK(t) ==
    /\ pc[t] = "idle" => copy[t] = NoPath
    /\ copy[t] \in Paths <=> call[t] = "fetch"
    /\ pc[t] \in {"read", "unlink"} => call[t] = "fetch"
    /\ copy[t] \in Paths =>
          /\ file[copy[t]].side = "target"
          /\ file[copy[t]].mode \in {"named", "copy"}
          /\ file[copy[t]].fault \in {"none", "notFetched"}
          /\ pc[t] \in {"check", "write", "chmod", "spawn", "running"} =>
                file[copy[t]].mode = "named" /\ file[copy[t]].fault = "none"
          /\ pc[t] \in {"remove", "return"} /\ ~ok[t] =>
                file[copy[t]].mode = "named" \/ file[copy[t]].fault = "notFetched"

Excused(p) == OnDisk(p) => file[p].fault \in Excuses(p)

Inv ==
    /\ TypeOK
    /\ \A t \in Tasks : KeyOK(t) /\ CopyOK(t)
    /\ \A t \in Tasks : key[t] = copy[t] => key[t] = NoPath
    /\ \A t, u \in Tasks : t # u => Own(t) \cap Own(u) = {}
    /\ \A p \in Paths : (\A t \in Tasks : p \notin Own(t)) => Excused(p)

LEMMA InvInit == Init => Inv
BY ConstantsAssumption DEF Init, Inv, TypeOK, KeyOK, CopyOK, Own, Excused, OnDisk,
   Unnamed, PCs, Kinds, Handlers, Calls, TargetCalls, Modes, FaultKinds

-----------------------------------------------------------------------------
(* Frames: what a step of one task leaves alone.                           *)

(* A step of t touches its own names and at most names that are new.       *)
Touches(t) ==
    /\ \A u \in Tasks \ {t} :
          /\ pc'[u] = pc[u] /\ byKey'[u] = byKey[u] /\ call'[u] = call[u]
          /\ ok'[u] = ok[u] /\ key'[u] = key[u] /\ copy'[u] = copy[u]
    /\ \A p \in Paths : p \notin Own(t) \cup Own(t)' => file'[p] = file[p]
    /\ \A p \in Own(t)' : p \in Own(t) \/ file[p] = Unnamed

(* Every file a task holds has been named.                                 *)
LEMMA HeldIsNamed ==
    ASSUME Inv, NEW u \in Tasks, NEW p \in Own(u)
    PROVE  file[p].mode # "unnamed"
<1>1. pc[u] \in PCs /\ KeyOK(u) /\ CopyOK(u)
  BY DEF Inv, TypeOK
<1>2. CASE p = key[u]
  BY <1>1, <1>2, ConstantsAssumption DEF KeyOK, PCs, Own
<1>3. CASE p = copy[u]
  BY <1>1, <1>3 DEF CopyOK, Own
<1>4. QED
  BY <1>2, <1>3 DEF Own

(* Then it is enough to look at t and at the files it gives up.            *)
LEMMA StepOfOne ==
    ASSUME Inv, NEW t \in Tasks, Touches(t), TypeOK', KeyOK(t)', CopyOK(t)',
           key'[t] = copy'[t] => key'[t] = NoPath,
           \A p \in Own(t) : p \notin Own(t)' => Excused(p)'
    PROVE  Inv'
<1>1. \A u \in Tasks \ {t} : Own(u)' = Own(u)
  BY DEF Touches, Own
<1>2. \A u \in Tasks \ {t} : \A p \in Own(u) : p \notin Own(t) \cup Own(t)'
  <2> SUFFICES ASSUME NEW u \in Tasks \ {t}, NEW p \in Own(u)
               PROVE  p \notin Own(t) \cup Own(t)'
    OBVIOUS
  <2>1. p \notin Own(t)
    BY DEF Inv
  <2>2. file[p] # Unnamed
    BY HeldIsNamed DEF Unnamed
  <2>3. QED
    BY <2>1, <2>2 DEF Touches
<1>3. \A u \in Tasks \ {t} : \A p \in Own(u) : p \in Paths /\ file'[p] = file[p]
  BY <1>2 DEF Touches, Own
<1>4. \A u \in Tasks \ {t} : KeyOK(u)' /\ CopyOK(u)'
  <2> SUFFICES ASSUME NEW u \in Tasks \ {t} PROVE KeyOK(u)' /\ CopyOK(u)'
    OBVIOUS
  <2>1. /\ pc'[u] = pc[u] /\ byKey'[u] = byKey[u] /\ call'[u] = call[u]
        /\ ok'[u] = ok[u] /\ key'[u] = key[u] /\ copy'[u] = copy[u]
    BY DEF Touches
  <2>2. key[u] \in Paths => file'[key[u]] = file[key[u]]
    BY <1>3 DEF Own
  <2>3. copy[u] \in Paths => file'[copy[u]] = file[copy[u]]
    BY <1>3 DEF Own
  <2>4. KeyOK(u) /\ CopyOK(u)
    BY DEF Inv
  <2>5. KeyOK(u)'
    BY <2>1, <2>2, <2>4 DEF KeyOK
  <2>6. CopyOK(u)'
    BY <2>1, <2>3, <2>4 DEF CopyOK
  <2>7. QED
    BY <2>5, <2>6
<1>5. \A u, v \in Tasks : u # v => Own(u)' \cap Own(v)' = {}
  <2> SUFFICES ASSUME NEW u \in Tasks, NEW v \in Tasks, u # v
               PROVE  Own(u)' \cap Own(v)' = {}
    OBVIOUS
  <2>1. CASE u # t /\ v # t
    BY <2>1, <1>1 DEF Inv
  <2>2. CASE u = t
    BY <2>2, <1>1, <1>2
  <2>3. CASE v = t
    BY <2>3, <1>1, <1>2
  <2>4. QED
    BY <2>1, <2>2, <2>3
<1>6. ASSUME NEW p \in Paths, \A u \in Tasks : p \notin Own(u)'
      PROVE  Excused(p)'
  <2>1. CASE p \in Own(t)
    BY <2>1, <1>6
  <2>2. CASE p \notin Own(t)
    <3>1. \A u \in Tasks : p \notin Own(u)
      BY <2>2, <1>6, <1>1
    <3>2. file'[p] = file[p]
      BY <2>2, <1>6 DEF Touches
    <3>3. Excused(p)
      BY <3>1 DEF Inv
    <3>4. QED
      BY <3>2, <3>3 DEF Excused, OnDisk, Excuses
  <2>3. QED
    BY <2>1, <2>2
<1>7. \A u \in Tasks : key'[u] = copy'[u] => key'[u] = NoPath
  BY DEF Touches, Inv
<1>8. QED
  BY <1>4, <1>5, <1>6, <1>7 DEF Inv

(* A task that ends leaves its files to their excuses.                     *)
LEMMA AfterEnd ==
    ASSUME Inv, NEW t \in Tasks, Ends(t), file' \in [Paths -> FileRec],
           \A p \in Paths : p \notin Own(t) => file'[p] = file[p],
           \A p \in Own(t) : Excused(p)'
    PROVE  Inv'
<1>1. TypeOK'
  BY ConstantsAssumption DEF Ends, Inv, TypeOK, FileRec, PCs, Kinds, Handlers, Calls, TargetCalls
<1>2. /\ pc'[t] = "idle" /\ call'[t] = "rm"
      /\ key'[t] = NoPath /\ copy'[t] = NoPath
  BY DEF Ends, Inv, TypeOK
<1>3. Own(t)' = {}
  BY <1>2, ConstantsAssumption DEF Own
<1>4. Touches(t)
  <2>1. \A u \in Tasks \ {t} :
          /\ pc'[u] = pc[u] /\ byKey'[u] = byKey[u] /\ call'[u] = call[u]
          /\ ok'[u] = ok[u] /\ key'[u] = key[u] /\ copy'[u] = copy[u]
    BY DEF Ends, Inv, TypeOK
  <2>2. QED
    BY <2>1, <1>3 DEF Touches
<1>5. KeyOK(t)' /\ CopyOK(t)'
  BY <1>2, ConstantsAssumption DEF KeyOK, CopyOK
<1>6. QED
  BY <1>1, <1>2, <1>3, <1>4, <1>5, StepOfOne

(* A task that goes on with the names it has.                              *)
LEMMA AfterStep ==
    ASSUME Inv, NEW t \in Tasks, NEW to \in PCs,
           pc' = [pc EXCEPT ![t] = to], UNCHANGED << kind, byKey, copy, key >>,
           call' \in [Tasks -> Calls], ok' \in [Tasks -> BOOLEAN],
           \A u \in Tasks \ {t} : call'[u] = call[u] /\ ok'[u] = ok[u],
           file' \in [Paths -> FileRec],
           \A p \in Paths : p \notin Own(t) => file'[p] = file[p],
           KeyOK(t)', CopyOK(t)'
    PROVE  Inv'
<1>1. TypeOK'
  BY DEF Inv, TypeOK, FileRec
<1>2. Own(t)' = Own(t)
  BY DEF Own
<1>3. Touches(t)
  BY <1>2 DEF Touches, Inv, TypeOK
<1>4. QED
  BY <1>1, <1>2, <1>3, StepOfOne DEF Inv

(* What Blame changes.                                                     *)
LEMMA BlameChanges ==
    ASSUME NEW fs \in [Paths -> FileRec], NEW ps, NEW fault \in FaultKinds
    PROVE  /\ Blame(fs, ps, fault) \in [Paths -> FileRec]
           /\ \A p \in Paths :
                 /\ Blame(fs, ps, fault)[p].mode = fs[p].mode
                 /\ Blame(fs, ps, fault)[p].side = fs[p].side
                 /\ p \notin ps => Blame(fs, ps, fault)[p] = fs[p]
                 /\ p \in ps =>
                       Blame(fs, ps, fault)[p].fault =
                           IF fs[p].fault = "none" THEN fault ELSE fs[p].fault
<1>1. \A p \in Paths : Blame(fs, ps, fault)[p] =
          IF p \in ps /\ fs[p].fault = "none"
          THEN [fs[p] EXCEPT !.fault = fault] ELSE fs[p]
  BY DEF Blame
<1>2. \A p \in Paths : fs[p] \in FileRec
  OBVIOUS
<1>3. \A p \in Paths : Blame(fs, ps, fault)[p] \in FileRec
  BY <1>1, <1>2 DEF FileRec
<1>4. Blame(fs, ps, fault) = [p \in Paths |-> Blame(fs, ps, fault)[p]]
  BY DEF Blame
<1>5. QED
  BY <1>1, <1>2, <1>3, <1>4 DEF FileRec

LEMMA FileTyped == ASSUME Inv PROVE file \in [Paths -> FileRec]
BY DEF Inv, TypeOK, FileRec

(* The names a task holds, and its part of the invariant.                  *)
LEMMA Holds ==
    ASSUME Inv, NEW t \in Tasks
    PROVE  /\ KeyOK(t) /\ CopyOK(t) /\ pc[t] \in PCs /\ call[t] \in Calls
           /\ \A p \in Own(t) : p \in Paths /\ (p = key[t] \/ p = copy[t])
           /\ key[t] \in Paths => key[t] # copy[t]
           /\ NoPath \notin Paths
BY ConstantsAssumption DEF Inv, TypeOK, Own

-----------------------------------------------------------------------------
(* Each action keeps the invariant.                                        *)

LEMMA RefuseStep == ASSUME Inv, NEW t \in Tasks, Refuse(t) PROVE Inv'
<1>1. \A p \in Own(t) : Excused(p)'
  BY Holds DEF Refuse, KeyOK, CopyOK, Excused, OnDisk
<1>2. QED
  BY <1>1, AfterEnd, FileTyped DEF Refuse

LEMMA SkipKeyStep == ASSUME Inv, NEW t \in Tasks, SkipKey(t) PROVE Inv'
<1>1. pc'[t] = "spawn"
  BY DEF SkipKey, GoTo, Inv, TypeOK
<1>2. KeyOK(t)' /\ CopyOK(t)'
  BY <1>1, Holds DEF SkipKey, GoTo, KeyOK, CopyOK
<1>3. QED
  BY <1>2, AfterStep, FileTyped DEF SkipKey, GoTo, PCs, Inv, TypeOK

LEMMA WriteKeyStep == ASSUME Inv, NEW t \in Tasks, WriteKey(t) PROVE Inv'
<1>1. pc'[t] = "chmod"
  BY DEF WriteKey, GoTo, Inv, TypeOK
<1>2. key[t] \in Own(t)
  BY Holds DEF WriteKey, KeyOK, Own
<1>3. /\ file' \in [Paths -> FileRec]
      /\ \A p \in Paths \ {key[t]} : file'[p] = file[p]
      /\ file'[key[t]] = [file[key[t]] EXCEPT !.mode = "open"]
  BY <1>2, FileTyped DEF WriteKey, SetMode, FileRec, Modes, Own
<1>4. KeyOK(t)'
  BY <1>1, <1>2, <1>3, Holds, FileTyped DEF WriteKey, GoTo, KeyOK, FileRec
<1>5. CopyOK(t)'
  BY <1>1, <1>3, Holds DEF WriteKey, GoTo, CopyOK, KeyOK
<1>6. QED
  BY <1>2, <1>3, <1>4, <1>5, AfterStep DEF WriteKey, GoTo, PCs, Inv, TypeOK

LEMMA SetPermissionsStep ==
    ASSUME Inv, NEW t \in Tasks, SetPermissions(t) PROVE Inv'
<1>1. pc'[t] = "spawn"
  BY DEF SetPermissions, GoTo, Inv, TypeOK
<1>2. key[t] \in Own(t)
  BY Holds DEF SetPermissions, KeyOK, Own
<1>3. /\ file' \in [Paths -> FileRec]
      /\ \A p \in Paths \ {key[t]} : file'[p] = file[p]
      /\ file'[key[t]] = [file[key[t]] EXCEPT !.mode = "private"]
  BY <1>2, FileTyped DEF SetPermissions, SetMode, FileRec, Modes, Own
<1>4. KeyOK(t)'
  BY <1>1, <1>2, <1>3, Holds, FileTyped DEF SetPermissions, GoTo, KeyOK, FileRec
<1>5. CopyOK(t)'
  BY <1>1, <1>3, Holds DEF SetPermissions, GoTo, CopyOK, KeyOK
<1>6. QED
  BY <1>2, <1>3, <1>4, <1>5, AfterStep DEF SetPermissions, GoTo, PCs, Inv, TypeOK

LEMMA StartCommandStep ==
    ASSUME Inv, NEW t \in Tasks, StartCommand(t) PROVE Inv'
<1>1. pc'[t] = "running"
  BY DEF StartCommand, GoTo, Inv, TypeOK
<1>2. KeyOK(t)' /\ CopyOK(t)'
  BY <1>1, Holds DEF StartCommand, GoTo, KeyOK, CopyOK
<1>3. QED
  BY <1>2, AfterStep, FileTyped DEF StartCommand, GoTo, PCs, Inv, TypeOK

(* A failed write leaves nothing, or a file that was not written.          *)
LEMMA WriteFailsStep == ASSUME Inv, NEW t \in Tasks, WriteFails(t) PROVE Inv'
<1>1. PICK mode \in {"named", "open"} :
          file' = Blame(SetMode(key[t], mode), {key[t]}, "notWritten")
  BY DEF WriteFails
<1>2. key[t] \in Own(t) /\ file[key[t]].fault = "none"
  BY Holds DEF WriteFails, KeyOK, Own
<1> DEFINE fs == SetMode(key[t], mode)
<1>3. /\ fs \in [Paths -> FileRec]
      /\ \A p \in Paths \ {key[t]} : fs[p] = file[p]
      /\ fs[key[t]].fault = "none"
  BY <1>2, FileTyped DEF SetMode, FileRec, Modes, Own
<1>4. file' = Blame(fs, {key[t]}, "notWritten") /\ "notWritten" \in FaultKinds
  BY <1>1 DEF FaultKinds
<1> HIDE DEF fs
<1>5. /\ file' \in [Paths -> FileRec]
      /\ \A p \in Paths \ {key[t]} : file'[p] = file[p]
      /\ file'[key[t]].fault = "notWritten"
  <2>1. key[t] \in Paths
    BY <1>2 DEF Own
  <2>2. QED
    BY <1>3, <1>4, <2>1, BlameChanges
<1>6. ASSUME NEW p \in Own(t) PROVE Excused(p)'
  <2>1. CASE p = key[t]
    BY <2>1, <1>5 DEF Excused, Excuses
  <2>2. CASE p # key[t]
    BY <2>2, <1>5, Holds DEF Excused, OnDisk, CopyOK, WriteFails
  <2>3. QED
    BY <2>1, <2>2
<1>7. QED
  BY <1>2, <1>5, <1>6, AfterEnd DEF WriteFails

LEMMA SetPermissionsFailsStep ==
    ASSUME Inv, NEW t \in Tasks, SetPermissionsFails(t) PROVE Inv'
<1>1. key[t] \in Own(t) /\ file[key[t]].fault = "none"
  BY Holds DEF SetPermissionsFails, KeyOK, Own
<1>2. "notWritten" \in FaultKinds
  BY DEF FaultKinds
<1>3. /\ file' \in [Paths -> FileRec]
      /\ \A p \in Paths \ {key[t]} : file'[p] = file[p]
      /\ file'[key[t]].fault = "notWritten"
  BY <1>1, <1>2, Holds, FileTyped, BlameChanges DEF SetPermissionsFails
<1>4. ASSUME NEW p \in Own(t) PROVE Excused(p)'
  <2>1. CASE p = key[t]
    BY <2>1, <1>3 DEF Excused, Excuses
  <2>2. CASE p # key[t]
    BY <2>2, <1>3, Holds DEF Excused, OnDisk, CopyOK, SetPermissionsFails
  <2>3. QED
    BY <2>1, <2>2
<1>5. QED
  BY <1>1, <1>3, <1>4, AfterEnd DEF SetPermissionsFails

LEMMA NameKeyStep ==
    ASSUME Inv, NEW t \in Tasks, NEW p \in Paths, NameKey(t, p) PROVE Inv'
<1>1. /\ pc'[t] = "write" /\ key'[t] = p /\ key[t] = NoPath
      /\ copy'[t] = copy[t] /\ call'[t] = call[t] /\ ok'[t] = ok[t]
      /\ file[p] = Unnamed
  BY Holds DEF NameKey, GoTo, Fresh, KeyOK, Inv, TypeOK
<1>2. TypeOK'
  BY DEF NameKey, GoTo, Named, Side, Inv, TypeOK, PCs, Modes, FaultKinds
<1>3. p \notin Own(t)
  BY <1>1, HeldIsNamed DEF Unnamed
<1>4. /\ file'[p] = Named(Side(call[t]))
      /\ \A q \in Paths \ {p} : file'[q] = file[q]
  BY DEF NameKey, Inv, TypeOK
<1>5. Own(t)' = Own(t) \cup {p}
  BY <1>1, Holds DEF Own
<1>6. Touches(t)
  BY <1>1, <1>4, <1>5 DEF Touches, NameKey, GoTo, Inv, TypeOK
<1>7. KeyOK(t)'
  BY <1>1, <1>4 DEF KeyOK, Named, NameKey, GoTo
<1>8. CopyOK(t)'
  BY <1>1, <1>3, <1>4, Holds DEF CopyOK, Own, NameKey
<1>9. key'[t] # copy'[t]
  BY <1>1, <1>3 DEF Own
<1>10. QED
  BY <1>2, <1>5, <1>6, <1>7, <1>8, <1>9, StepOfOne

(* A command that cannot be put together: only calls of a source leave     *)
(* their key for it.                                                       *)
LEMMA BuildFailsStep == ASSUME Inv, NEW t \in Tasks, BuildFails(t) PROVE Inv'
<1>1. "notBuilt" \in FaultKinds
  BY DEF FaultKinds
<1>2. /\ file' \in [Paths -> FileRec]
      /\ \A p \in Paths :
            /\ file'[p].mode = file[p].mode /\ file'[p].side = file[p].side
            /\ p # key[t] => file'[p] = file[p]
            /\ p = key[t] => file'[p].fault =
                  IF file[p].fault = "none" THEN "notBuilt" ELSE file[p].fault
  BY <1>1, FileTyped, BlameChanges DEF BuildFails
<1>3. Side(call[t]) = "source" /\ copy[t] \notin Paths
  BY Holds DEF BuildFails, Side, SourceCalls, CopyOK
<1>4. \A p \in Own(t) : Excused(p)'
  BY <1>2, <1>3, Holds DEF Excused, Excuses, KeyOK
<1>5. QED
  BY <1>2, <1>4, AfterEnd, Holds DEF BuildFails, Own

LEMMA CommandMissingStep ==
    ASSUME Inv, NEW t \in Tasks, CommandMissing(t) PROVE Inv'
<1>1. CASE /\ call[t] \in TargetCalls
           /\ file' = Blame(file, {key[t], copy[t]}, "notStarted")
           /\ Ends(t)
  <2>1. "notStarted" \in FaultKinds
    BY DEF FaultKinds
  <2>2. /\ file' \in [Paths -> FileRec]
        /\ \A p \in Paths :
              /\ file'[p].mode = file[p].mode /\ file'[p].side = file[p].side
              /\ p \notin {key[t], copy[t]} => file'[p] = file[p]
              /\ p \in {key[t], copy[t]} => file'[p].fault =
                    IF file[p].fault = "none" THEN "notStarted" ELSE file[p].fault
    BY <1>1, <2>1, FileTyped, BlameChanges
  <2>3. Side(call[t]) = "target"
    BY <1>1 DEF Side, TargetCalls, SourceCalls
  <2>4. ASSUME NEW p \in Own(t) PROVE Excused(p)'
    <3>1. CASE p = key[t]
      BY <3>1, <2>2, <2>3, Holds DEF Excused, Excuses, KeyOK
    <3>2. CASE p = copy[t]
      BY <3>2, <2>2, Holds DEF Excused, OnDisk, CopyOK, CommandMissing
    <3>3. QED
      BY <3>1, <3>2, Holds
  <2>5. QED
    BY <1>1, <2>2, <2>4, AfterEnd DEF Own
<1>2. CASE /\ call[t] \in SourceCalls
           /\ ok' = [ok EXCEPT ![t] = FALSE]
           /\ GoTo(t, "remove")
           /\ UNCHANGED << key, file >>
  <2>1. pc'[t] = "remove" /\ copy[t] \notin Paths
    BY <1>2, Holds DEF GoTo, CopyOK, SourceCalls, Inv, TypeOK
  <2>2. KeyOK(t)' /\ CopyOK(t)'
    BY <1>2, <2>1, Holds DEF GoTo, KeyOK, CopyOK, CommandMissing
  <2>3. QED
    BY <1>2, <2>2, AfterStep, FileTyped DEF GoTo, PCs, Inv, TypeOK
<1>3. QED
  BY <1>1, <1>2 DEF CommandMissing

(* A command that ends well: a download has its copy, an upload goes on    *)
(* with the same key.                                                      *)
LEMMA CommandSucceedsStep ==
    ASSUME Inv, NEW t \in Tasks, CommandSucceeds(t) PROVE Inv'
<1>1. ok'[t] = TRUE /\ ok' \in [Tasks -> BOOLEAN]
      /\ \A u \in Tasks \ {t} : ok'[u] = ok[u]
  BY DEF CommandSucceeds, Inv, TypeOK
<1>2. pc[t] = "running" /\ UNCHANGED << kind, byKey, copy, key >>
  BY DEF CommandSucceeds
<1>3. CASE call[t] = "mkdir"
  <2>1. /\ pc' = [pc EXCEPT ![t] = "spawn"] /\ file' = file
        /\ call' = [call EXCEPT ![t] = "rsync"]
    BY <1>3 DEF CommandSucceeds, NextCall
  <2>2. pc'[t] = "spawn" /\ call'[t] = "rsync"
    BY <2>1 DEF Inv, TypeOK
  <2>3. Side(call[t]) = Side(call'[t])
    BY <1>3, <2>2 DEF Side, SourceCalls
  <2>4. KeyOK(t)' /\ CopyOK(t)'
    BY <1>2, <1>3, <2>1, <2>2, <2>3, Holds DEF KeyOK, CopyOK
  <2>5. QED
    BY <1>1, <1>2, <2>1, <2>4, AfterStep, FileTyped
       DEF PCs, Calls, TargetCalls, Inv, TypeOK
<1>4. CASE call[t] = "fetch"
  <2>1. copy[t] \in Own(t) /\ copy[t] # key[t]
    BY <1>4, Holds DEF CopyOK, Own
  <2>2. /\ pc' = [pc EXCEPT ![t] = "remove"] /\ call' = call
        /\ file' = SetMode(copy[t], "copy")
    BY <1>4 DEF CommandSucceeds
  <2>3. /\ file' \in [Paths -> FileRec]
        /\ \A p \in Paths \ {copy[t]} : file'[p] = file[p]
        /\ file'[copy[t]] = [file[copy[t]] EXCEPT !.mode = "copy"]
    BY <2>1, <2>2, FileTyped DEF SetMode, FileRec, Modes, Own
  <2>4. pc'[t] = "remove"
    BY <2>2 DEF Inv, TypeOK
  <2>5. KeyOK(t)'
    BY <1>2, <2>1, <2>2, <2>3, <2>4, Holds DEF KeyOK
  <2>6. CopyOK(t)'
    BY <1>1, <1>2, <2>1, <2>2, <2>3, <2>4, Holds, FileTyped DEF CopyOK, Own, FileRec
  <2>7. QED
    BY <1>1, <1>2, <2>1, <2>2, <2>3, <2>5, <2>6, AfterStep DEF PCs, Inv, TypeOK
<1>5. CASE call[t] \notin {"mkdir", "fetch"}
  <2>1. /\ pc' = [pc EXCEPT ![t] = "remove"] /\ call' = call /\ file' = file
    BY <1>5 DEF CommandSucceeds
  <2>2. pc'[t] = "remove"
    BY <2>1 DEF Inv, TypeOK
  <2>3. KeyOK(t)' /\ CopyOK(t)'
    BY <1>2, <1>5, <2>1, <2>2, Holds DEF KeyOK, CopyOK
  <2>4. QED
    BY <1>1, <1>2, <2>1, <2>3, AfterStep, FileTyped DEF PCs, Inv, TypeOK
<1>6. QED
  BY <1>3, <1>4, <1>5

LEMMA CommandExitsNonzeroStep ==
    ASSUME Inv, NEW t \in Tasks, CommandExitsNonzero(t) PROVE Inv'
<1>1. /\ ok'[t] = FALSE /\ ok' \in [Tasks -> BOOLEAN]
      /\ \A u \in Tasks \ {t} : ok'[u] = ok[u]
      /\ pc' = [pc EXCEPT ![t] = "remove"] /\ pc'[t] = "remove"
      /\ UNCHANGED << kind, byKey, call, copy, key >> /\ pc[t] = "running"
  BY DEF CommandExitsNonzero, GoTo, Inv, TypeOK
<1>2. CASE UNCHANGED file
  <2>1. KeyOK(t)' /\ CopyOK(t)'
    BY <1>1, <1>2, Holds DEF KeyOK, CopyOK
  <2>2. QED
    BY <1>1, <1>2, <2>1, AfterStep, FileTyped DEF PCs, Inv, TypeOK
<1>3. CASE /\ call[t] = "fetch"
           /\ file' = Blame(SetMode(copy[t], "copy"), {copy[t]}, "notFetched")
  <2>1. copy[t] \in Own(t) /\ copy[t] # key[t] /\ copy[t] \in Paths
    BY <1>3, Holds DEF CopyOK, Own
  <2> DEFINE fs == SetMode(copy[t], "copy")
  <2>2. /\ fs \in [Paths -> FileRec]
        /\ \A p \in Paths \ {copy[t]} : fs[p] = file[p]
        /\ fs[copy[t]] = [file[copy[t]] EXCEPT !.mode = "copy"]
    BY <2>1, FileTyped DEF SetMode, FileRec, Modes
  <2>3. file' = Blame(fs, {copy[t]}, "notFetched") /\ "notFetched" \in FaultKinds
    BY <1>3 DEF FaultKinds
  <2>4. fs[copy[t]].mode = "copy" /\ fs[copy[t]].side = "target"
        /\ fs[copy[t]].fault = "none"
    BY <1>1, <2>1, <2>2, Holds, FileTyped DEF CopyOK, FileRec
  <2> HIDE DEF fs
  <2>5. /\ file' \in [Paths -> FileRec]
        /\ \A p \in Paths \ {copy[t]} : file'[p] = file[p]
        /\ file'[copy[t]].mode = "copy" /\ file'[copy[t]].side = "target"
        /\ file'[copy[t]].fault = "notFetched"
    <3>1. /\ file' \in [Paths -> FileRec]
          /\ \A p \in Paths :
                /\ file'[p].mode = fs[p].mode /\ file'[p].side = fs[p].side
                /\ p \notin {copy[t]} => file'[p] = fs[p]
                /\ p \in {copy[t]} => file'[p].fault =
                      IF fs[p].fault = "none" THEN "notFetched" ELSE fs[p].fault
      BY <2>2, <2>3, BlameChanges
    <3>2. QED
      BY <3>1, <2>1, <2>2, <2>4
  <2>6. KeyOK(t)'
    BY <1>1, <2>1, <2>5, Holds DEF KeyOK
  <2>7. CopyOK(t)'
    BY <1>1, <2>1, <2>5, Holds DEF CopyOK
  <2>8. QED
    BY <1>1, <2>1, <2>5, <2>6, <2>7, AfterStep DEF PCs, Inv, TypeOK
<1>4. QED
  BY <1>2, <1>3 DEF CommandExitsNonzero

(* The cleanup: what it cannot remove is not its fault.                    *)
LEMMA RemoveStep == ASSUME Inv, NEW t \in Tasks, Remove(t) PROVE Inv'
<1>1. /\ pc[t] = "remove" /\ pc'[t] = "return" /\ key'[t] = NoPath
      /\ UNCHANGED << kind, byKey, call, copy, ok >>
  BY DEF Remove, GoTo, Inv, TypeOK
<1>2. /\ file' \in [Paths -> FileRec]
      /\ \A p \in Paths : p # key[t] => file'[p] = file[p]
      /\ key[t] \in Paths =>
            \/ file'[key[t]] = Gone
            \/ file'[key[t]].fault = "notRemoved"
  <2>1. CASE key[t] = NoPath /\ UNCHANGED file
    BY <2>1, FileTyped, Holds
  <2>2. CASE key[t] \in Paths /\ file' = Unlinked(key[t])
    BY <2>2, FileTyped DEF Unlinked, Gone, Unnamed, FileRec, Modes, FaultKinds
  <2>3. CASE key[t] \in Paths /\ file' = Blame(file, {key[t]}, "notRemoved")
    <3>1. "notRemoved" \in FaultKinds
      BY DEF FaultKinds
    <3>2. file[key[t]].fault = "none"
      BY <2>3, Holds DEF KeyOK
    <3>3. QED
      BY <2>3, <3>1, <3>2, FileTyped, BlameChanges
  <2>4. QED
    BY <2>1, <2>2, <2>3 DEF Remove
<1>3. Own(t)' = Own(t) \ {key[t]}
  BY <1>1, Holds DEF Own
<1>4. TypeOK'
  BY <1>1, <1>2 DEF Remove, GoTo, Inv, TypeOK, FileRec, PCs
<1>5. Touches(t)
  BY <1>1, <1>2, <1>3, Holds DEF Touches, Remove, GoTo, Inv, TypeOK, Own
<1>6. KeyOK(t)'
  BY <1>1, Holds DEF KeyOK
<1>7. CopyOK(t)'
  BY <1>1, <1>2, Holds DEF CopyOK, Own
<1>8. ASSUME NEW p \in Own(t), p \notin Own(t)' PROVE Excused(p)'
  <2>1. p = key[t] /\ p \in Paths
    BY <1>3, <1>8, Holds
  <2>2. QED
    BY <2>1, <1>2 DEF Excused, Excuses, OnDisk, Gone, Unnamed
<1>9. key'[t] = copy'[t] => key'[t] = NoPath
  BY <1>1
<1>10. QED
  BY <1>4, <1>5, <1>6, <1>7, <1>8, <1>9, StepOfOne

LEMMA ReturnStep == ASSUME Inv, NEW t \in Tasks, Return(t) PROVE Inv'
<1>1. pc[t] = "return" /\ key[t] = NoPath
  BY Holds DEF Return, KeyOK
<1>2. CASE ok[t] /\ call[t] = "fetch"
  <2>1. pc' = [pc EXCEPT ![t] = "read"] /\ UNCHANGED << kind, byKey, call, copy, ok, key, file >>
    BY <1>2 DEF Return, GoTo
  <2>2. pc'[t] = "read"
    BY <2>1 DEF Inv, TypeOK
  <2>3. KeyOK(t)' /\ CopyOK(t)'
    BY <1>1, <1>2, <2>1, <2>2, Holds DEF KeyOK, CopyOK
  <2>4. QED
    BY <2>1, <2>3, AfterStep, FileTyped DEF PCs, Inv, TypeOK
<1>3. CASE ok[t] /\ call[t] # "fetch" /\ NextCall(call[t]) # "end"
  <2>1. /\ pc' = [pc EXCEPT ![t] = "check"]
        /\ call' = [call EXCEPT ![t] = NextCall(call[t])]
        /\ UNCHANGED << kind, byKey, ok, key, copy, file >>
    BY <1>3 DEF Return
  <2>2. /\ pc'[t] = "check" /\ call'[t] = NextCall(call[t])
        /\ NextCall(call[t]) \in Calls /\ NextCall(call[t]) # "fetch"
    BY <1>3, <2>1 DEF Inv, TypeOK, NextCall, Calls, SourceCalls, TargetCalls
  <2>3. KeyOK(t)' /\ CopyOK(t)'
    BY <1>1, <1>3, <2>1, <2>2, Holds DEF KeyOK, CopyOK
  <2>4. QED
    BY <2>1, <2>2, <2>3, AfterStep, FileTyped DEF PCs, Inv, TypeOK
<1>4. CASE /\ ~(ok[t] /\ call[t] = "fetch")
           /\ ~(ok[t] /\ call[t] # "fetch" /\ NextCall(call[t]) # "end")
  <2>1. Ends(t) /\ UNCHANGED file
    BY <1>4 DEF Return
  <2>2. \A p \in Own(t) : Excused(p)'
    BY <1>1, <1>4, <2>1, Holds DEF Excused, Excuses, OnDisk, CopyOK
  <2>3. QED
    BY <2>1, <2>2, AfterEnd, FileTyped
<1>5. QED
  BY <1>2, <1>3, <1>4

LEMMA ReadCopyStep == ASSUME Inv, NEW t \in Tasks, ReadCopy(t) PROVE Inv'
<1>1. pc[t] = "read" /\ key[t] = NoPath
  BY Holds DEF ReadCopy, KeyOK
<1>2. CASE GoTo(t, "unlink") /\ UNCHANGED << ok, key, file >>
  <2>1. pc'[t] = "unlink"
    BY <1>2 DEF GoTo, Inv, TypeOK
  <2>2. KeyOK(t)' /\ CopyOK(t)'
    BY <1>1, <1>2, <2>1, Holds DEF GoTo, KeyOK, CopyOK
  <2>3. QED
    BY <1>2, <2>2, AfterStep, FileTyped DEF GoTo, PCs, Inv, TypeOK
<1>3. CASE file' = Blame(file, {copy[t]}, "notRead") /\ Ends(t)
  <2>1. "notRead" \in FaultKinds
    BY DEF FaultKinds
  <2>2. /\ file' \in [Paths -> FileRec]
        /\ \A p \in Paths :
              /\ file'[p].mode = file[p].mode
              /\ p \notin {copy[t]} => file'[p] = file[p]
              /\ p \in {copy[t]} => file'[p].fault =
                    IF file[p].fault = "none" THEN "notRead" ELSE file[p].fault
    BY <1>3, <2>1, FileTyped, BlameChanges
  <2>3. \A p \in Own(t) : Excused(p)'
    BY <1>1, <2>2, Holds DEF Excused, Excuses, OnDisk, CopyOK
  <2>4. QED
    BY <1>3, <2>2, <2>3, AfterEnd DEF Own
<1>4. QED
  BY <1>2, <1>3 DEF ReadCopy

LEMMA UnlinkStep == ASSUME Inv, NEW t \in Tasks, Unlink(t) PROVE Inv'
<1>1. /\ pc[t] = "unlink" /\ key[t] = NoPath /\ copy[t] \in Paths /\ Ends(t)
      /\ file[copy[t]].fault \in {"none", "notFetched"}
      /\ file[copy[t]].mode \in {"named", "copy"}
  BY Holds DEF Unlink, KeyOK, CopyOK
<1>2. CASE file' = Unlinked(copy[t])
  <2>1. /\ file' \in [Paths -> FileRec]
        /\ \A p \in Paths : p # copy[t] => file'[p] = file[p]
        /\ file'[copy[t]] = Gone
    BY <1>1, <1>2, FileTyped DEF Unlinked, Gone, Unnamed, FileRec, Modes, FaultKinds
  <2>2. \A p \in Own(t) : Excused(p)'
    BY <1>1, <2>1, Holds DEF Excused, OnDisk, Gone, Unnamed
  <2>3. QED
    BY <1>1, <2>1, <2>2, AfterEnd DEF Own
<1>3. CASE file' = Blame(file, {copy[t]}, "notRemoved")
  <2>1. "notRemoved" \in FaultKinds
    BY DEF FaultKinds
  <2>2. /\ file' \in [Paths -> FileRec]
        /\ \A p \in Paths :
              /\ file'[p].mode = file[p].mode
              /\ p \notin {copy[t]} => file'[p] = file[p]
              /\ p \in {copy[t]} => file'[p].fault =
                    IF file[p].fault = "none" THEN "notRemoved" ELSE file[p].fault
    BY <1>3, <2>1, FileTyped, BlameChanges
  <2>3. \A p \in Own(t) : Excused(p)'
    BY <1>1, <2>2, Holds DEF Excused, Excuses, OnDisk, CopyOK
  <2>4. QED
    BY <1>1, <2>2, <2>3, AfterEnd DEF Own
<1>4. QED
  BY <1>2, <1>3 DEF Unlink

(* What a dropped task's last file operation changes.                      *)
LEMMA SettledChanges ==
    ASSUME Inv, NEW t \in Tasks
    PROVE  /\ Settled(t) \in [Paths -> FileRec]
           /\ \A p \in Paths :
                 /\ p \notin Own(t) => Settled(t)[p] = file[p]
                 /\ Settled(t)[p] = Gone \/ Settled(t)[p].fault = file[p].fault
                 /\ \/ Settled(t)[p] = Gone \/ Settled(t)[p] = file[p]
                    \/ p = key[t] \/ pc[t] = "running"
<1> SUFFICES ASSUME NEW p \in Paths
             PROVE  /\ Settled(t)[p] \in FileRec
                    /\ p \notin Own(t) => Settled(t)[p] = file[p]
                    /\ Settled(t)[p] = Gone \/ Settled(t)[p].fault = file[p].fault
                    /\ \/ Settled(t)[p] = Gone \/ Settled(t)[p] = file[p]
                       \/ p = key[t] \/ pc[t] = "running"
  BY DEF Settled
<1>1. file[p] \in FileRec
  BY FileTyped
<1>2. Gone \in FileRec
  BY DEF Gone, Unnamed, FileRec, Modes, FaultKinds
<1>3. ASSUME NEW mode \in Modes
      PROVE  /\ [file[p] EXCEPT !.mode = mode] \in FileRec
             /\ [file[p] EXCEPT !.mode = mode].fault = file[p].fault
  BY <1>1 DEF FileRec
<1>4. Settled(t)[p] =
        CASE p = key[t] /\ pc[t] = "write"  -> [file[p] EXCEPT !.mode = "open"]
          [] p = key[t] /\ pc[t] = "chmod"  -> [file[p] EXCEPT !.mode = "private"]
          [] p = key[t] /\ pc[t] = "remove" -> Gone
          [] p = copy[t] /\ pc[t] = "unlink" -> Gone
          [] p = copy[t] /\ pc[t] = "running" -> [file[p] EXCEPT !.mode = "copy"]
          [] OTHER -> file[p]
  BY DEF Settled
<1>5. {"open", "private", "copy"} \subseteq Modes
  BY DEF Modes
<1>6. CASE p = key[t] /\ pc[t] = "write"
  BY <1>3, <1>4, <1>5, <1>6 DEF Own
<1>7. CASE p = key[t] /\ pc[t] = "chmod"
  BY <1>3, <1>4, <1>5, <1>7 DEF Own
<1>8. CASE p = key[t] /\ pc[t] = "remove"
  BY <1>2, <1>4, <1>8 DEF Own
<1>9. CASE p = copy[t] /\ pc[t] = "unlink"
  BY <1>2, <1>4, <1>9 DEF Own
<1>10. CASE p = copy[t] /\ pc[t] = "running"
  BY <1>3, <1>4, <1>5, <1>10 DEF Own
<1>11. CASE /\ ~(p = key[t] /\ pc[t] \in {"write", "chmod", "remove"})
            /\ ~(p = copy[t] /\ pc[t] \in {"unlink", "running"})
  BY <1>1, <1>4, <1>11
<1>12. QED
  BY <1>6, <1>7, <1>8, <1>9, <1>10, <1>11

LEMMA ClientLeavesStep ==
    ASSUME Inv, NEW t \in Tasks, ClientLeaves(t) PROVE Inv'
<1> DEFINE fs == Settled(t)
<1>1. /\ fs \in [Paths -> FileRec]
      /\ \A p \in Paths :
            /\ p \notin Own(t) => fs[p] = file[p]
            /\ fs[p] = Gone \/ fs[p].fault = file[p].fault
            /\ fs[p] = Gone \/ fs[p] = file[p] \/ p = key[t] \/ pc[t] = "running"
  BY SettledChanges
<1>2. /\ file' = Blame(fs, {key[t], copy[t]}, "cancelled")
      /\ "cancelled" \in FaultKinds /\ Ends(t)
  BY DEF ClientLeaves, FaultKinds
<1> HIDE DEF fs
<1>3. /\ file' \in [Paths -> FileRec]
      /\ \A p \in Paths :
            /\ file'[p].mode = fs[p].mode
            /\ p \notin {key[t], copy[t]} => file'[p] = fs[p]
            /\ p \in {key[t], copy[t]} => file'[p].fault =
                  IF fs[p].fault = "none" THEN "cancelled" ELSE fs[p].fault
  BY <1>1, <1>2, BlameChanges
<1>4. \A p \in Paths : p \notin Own(t) => file'[p] = file[p]
  BY <1>1, <1>3 DEF Own
<1>5. ASSUME NEW p \in Own(t) PROVE Excused(p)'
  <2>1. p \in Paths /\ p \in {key[t], copy[t]}
    BY Holds
  <2>2. CASE fs[p] = Gone
    BY <2>1, <2>2, <1>3 DEF Excused, OnDisk, Gone, Unnamed
  <2>3. CASE fs[p].fault = "none"
    BY <2>1, <2>3, <1>3 DEF Excused, Excuses
  <2>4. CASE fs[p] # Gone /\ fs[p].fault # "none"
    <3>1. fs[p].fault = file[p].fault
      BY <2>1, <2>4, <1>1
    <3>2. p = copy[t] /\ p # key[t]
      BY <2>1, <2>4, <3>1, Holds DEF KeyOK
    <3>3. pc[t] # "running" /\ file[p].fault = "notFetched"
          /\ file[p].mode \in {"named", "copy"}
      BY <2>1, <2>4, <3>1, <3>2, Holds DEF CopyOK
    <3>4. fs[p] = file[p]
      BY <2>1, <2>4, <3>2, <3>3, <1>1
    <3>5. file'[p].mode = file[p].mode /\ file'[p].fault = "notFetched"
      BY <2>1, <3>3, <3>4, <1>3
    <3>6. QED
      BY <3>3, <3>5 DEF Excused, Excuses, OnDisk
  <2>5. QED
    BY <2>2, <2>3, <2>4
<1>6. QED
  BY <1>2, <1>3, <1>4, <1>5, AfterEnd

(* A request arrives; a download names its copy.                           *)
LEMMA BeginStep ==
    ASSUME Inv, NEW t \in Tasks, NEW k \in Kinds, NEW sides \in SUBSET SidesOf(k),
           Begin(t, k, sides)
    PROVE  Inv'
<1>1. /\ pc[t] = "idle" /\ key[t] = NoPath /\ copy[t] = NoPath /\ Own(t) = {}
  BY Holds DEF Begin, KeyOK, CopyOK, Own
<1>2. /\ pc'[t] = "check" /\ key' = key /\ ok' = ok /\ call'[t] = FirstCall(k)
      /\ \A u \in Tasks \ {t} :
            pc'[u] = pc[u] /\ byKey'[u] = byKey[u] /\ call'[u] = call[u]
  BY DEF Begin, Inv, TypeOK
<1>3. /\ FirstCall(k) \in Calls /\ (FirstCall(k) = "fetch" <=> k = "download")
  BY DEF FirstCall, Kinds, Handlers, Calls, SourceCalls, TargetCalls
<1>4. sides \subseteq {"source", "target"}
  BY DEF SidesOf
<1>5. /\ pc' \in [Tasks -> PCs] /\ kind' \in [Tasks -> Kinds]
      /\ byKey' \in [Tasks -> SUBSET {"source", "target"}]
      /\ call' \in [Tasks -> Calls]
  BY <1>3, <1>4 DEF Begin, Inv, TypeOK, PCs
<1>6. CASE k # "download"
  <2>1. UNCHANGED << copy, file >>
    BY <1>6 DEF Begin
  <2>2. TypeOK'
    BY <1>2, <1>5, <2>1 DEF Inv, TypeOK
  <2>3. Own(t)' = {}
    BY <1>1, <1>2, <2>1 DEF Own
  <2>4. Touches(t)
    BY <1>2, <2>1, <2>3 DEF Touches
  <2>5. KeyOK(t)' /\ CopyOK(t)'
    BY <1>1, <1>2, <1>3, <1>6, <2>1, Holds DEF KeyOK, CopyOK
  <2>6. QED
    BY <1>1, <1>2, <2>2, <2>3, <2>4, <2>5, StepOfOne
<1>7. CASE k = "download"
  <2>1. PICK p \in Paths : /\ Fresh(p)
                           /\ copy' = [copy EXCEPT ![t] = p]
                           /\ file' = [file EXCEPT ![p] = Named("target")]
    BY <1>7 DEF Begin
  <2>2. /\ copy'[t] = p /\ file[p] = Unnamed
        /\ \A u \in Tasks \ {t} : copy'[u] = copy[u]
        /\ file'[p] = Named("target")
        /\ \A q \in Paths \ {p} : file'[q] = file[q]
    BY <2>1 DEF Fresh, Inv, TypeOK
  <2>3. TypeOK'
    BY <1>2, <1>5, <2>1 DEF Inv, TypeOK, Named, Modes, FaultKinds
  <2>4. Own(t)' = {p}
    BY <1>1, <1>2, <2>2, Holds DEF Own
  <2>5. Touches(t)
    BY <1>2, <2>2, <2>4 DEF Touches
  <2>6. KeyOK(t)'
    BY <1>1, <1>2, Holds DEF KeyOK
  <2>7. CopyOK(t)'
    BY <1>2, <1>3, <1>7, <2>2 DEF CopyOK, Named
  <2>8. QED
    BY <1>1, <1>2, <2>3, <2>5, <2>6, <2>7, StepOfOne
<1>8. QED
  BY <1>6, <1>7

(* A task that is over holds no name.                                      *)
LEMMA HeldIsOwned ==
    ASSUME Inv, NEW p \in Paths
    PROVE  Held(p) <=> \E t \in Tasks : p \in Own(t)
BY Holds DEF Held, Own, KeyOK, CopyOK

(* The process is killed: every name is given up, and knows why.           *)
LEMMA CrashStep == ASSUME Inv, Crash PROVE Inv'
<1> DEFINE held == {p \in Paths : Held(p)}
<1>1. file' = Blame(file, held, "crashed") /\ "crashed" \in FaultKinds
  BY DEF Crash, FaultKinds
<1>2. /\ \A t \in Tasks : pc'[t] = "idle" /\ key'[t] = NoPath
                           /\ copy'[t] = NoPath /\ call'[t] = "rm"
  BY DEF Crash
<1>3. \A p \in Paths : p \in held <=> Held(p)
  OBVIOUS
<1> HIDE DEF held
<1>4. /\ file' \in [Paths -> FileRec]
      /\ \A p \in Paths :
            /\ file'[p].mode = file[p].mode
            /\ p \notin held => file'[p] = file[p]
            /\ p \in held => file'[p].fault =
                  IF file[p].fault = "none" THEN "crashed" ELSE file[p].fault
  BY <1>1, FileTyped, BlameChanges
<1>5. TypeOK'
  BY <1>4, ConstantsAssumption
     DEF Crash, TypeOK, FileRec, PCs, Kinds, Handlers, Calls, TargetCalls
<1>6. \A t \in Tasks : KeyOK(t)' /\ CopyOK(t)' /\ Own(t)' = {}
  BY <1>2, ConstantsAssumption DEF KeyOK, CopyOK, Own
<1>7. ASSUME NEW p \in Paths PROVE Excused(p)'
  <2>1. CASE p \notin held
    <3>1. Excused(p)
      BY <2>1, <1>3, HeldIsOwned DEF Inv
    <3>2. QED
      BY <2>1, <3>1, <1>4 DEF Excused, OnDisk, Excuses
  <2>2. CASE p \in held
    <3>1. PICK t \in Tasks : p \in Own(t)
      BY <2>2, <1>3, HeldIsOwned
    <3>2. CASE p = key[t]
      BY <2>2, <3>1, <3>2, <1>4, Holds DEF Excused, Excuses, KeyOK
    <3>3. CASE p = copy[t]
      BY <2>2, <3>1, <3>3, <1>4, Holds DEF Excused, Excuses, OnDisk, CopyOK
    <3>4. QED
      BY <3>1, <3>2, <3>3, Holds
  <2>3. QED
    BY <2>1, <2>2
<1>8. QED
  BY <1>2, <1>5, <1>6, <1>7 DEF Inv

-----------------------------------------------------------------------------
LEMMA InvNext == ASSUME Inv, [Next]_vars PROVE Inv'
<1>1. ASSUME NEW t \in Tasks, NEW k \in Asked, NEW sides \in SUBSET SidesOf(k),
             Begin(t, k, sides)
      PROVE  Inv'
  BY <1>1, BeginStep, ConstantsAssumption
<1>2. ASSUME NEW t \in Tasks, TaskStep(t) PROVE Inv'
  BY <1>2, RefuseStep, SkipKeyStep, NameKeyStep, WriteKeyStep, WriteFailsStep,
     SetPermissionsStep, SetPermissionsFailsStep, BuildFailsStep,
     StartCommandStep, CommandMissingStep, CommandSucceedsStep,
     CommandExitsNonzeroStep, RemoveStep, ReturnStep, ReadCopyStep, UnlinkStep
     DEF TaskStep
<1>3. ASSUME NEW t \in Tasks, ClientLeaves(t) PROVE Inv'
  BY <1>3, ClientLeavesStep
<1>4. CASE Crash
  BY <1>4, CrashStep
<1>5. CASE UNCHANGED vars
  BY <1>5 DEF vars, Inv, TypeOK, KeyOK, CopyOK, Own, Excused, OnDisk, Excuses
<1>6. QED
  BY <1>1, <1>2, <1>3, <1>4, <1>5 DEF Next

LEMMA InvHolds == Spec => []Inv
<1>1. QED
  BY InvInit, InvNext, PTL DEF Spec

(* The variables of TempFiles keep their types.                            *)
THEOREM TypeCorrect == Spec => []TypeOK
<1>1. Inv => TypeOK
  BY DEF Inv
<1>2. QED
  BY <1>1, InvHolds, PTL

(* A command that signs in by key finds its identity file, readable by the *)
(* process alone, until it has ended; no other task holds that file.       *)
THEOREM KeysAreKept == Spec => []CommandsHaveTheirKey
<1>1. ASSUME Inv PROVE CommandsHaveTheirKey
  <2> SUFFICES ASSUME NEW t \in Tasks, pc[t] = "running",
                      Side(call[t]) \in byKey[t]
               PROVE  /\ key[t] \in Paths /\ file[key[t]].mode = "private"
                      /\ \A u \in Tasks \ {t} : key[t] \notin {key[u], copy[u]}
    BY DEF CommandsHaveTheirKey
  <2>1. key[t] \in Paths /\ file[key[t]].mode = "private"
    BY <1>1, Holds DEF KeyOK
  <2>2. \A u \in Tasks \ {t} : key[t] \notin {key[u], copy[u]}
    BY <1>1, <2>1 DEF Inv, Own
  <2>3. QED
    BY <2>1, <2>2
<1>2. QED
  BY <1>1, InvHolds, PTL

(* A file nobody holds any more is gone, or one of the excuses of its call *)
(* has happened to it: a call answered by its commands leaves nothing.     *)
THEOREM LeftFilesAreExcused == Spec => []FilesLeftAreExcused
<1>1. ASSUME Inv PROVE FilesLeftAreExcused
  BY <1>1, HeldIsOwned DEF Inv, Excused, FilesLeftAreExcused
<1>2. QED
  BY <1>1, InvHolds, PTL

=============================================================================
