----------------------------- MODULE TempFiles -----------------------------
(***************************************************************************)
(* The files that calls of external commands put in the temporary          *)
(* directory: the identity file of a call that signs in by key, and the    *)
(* copy a download is read from.  Every call writes its own file, hands it *)
(* to ssh or rsync and removes it; an early return in between leaves it.   *)
(* A request's future is dropped when its client goes away; a task of the  *)
(* executor is lost only with the process.                                 *)
(***************************************************************************)
EXTENDS Naturals

CONSTANTS
    Asked,    \* what the process is asked to do
    Tasks,    \* requests and executor tasks that run at the same time
    Paths,    \* file names; each is a new uuid (bound on files ever named)
    Faults,   \* whether system calls and commands may fail
    NoPath    \* Option::None of a path

(* What can be asked of the process, and the calls that serve it in order. *)
Handlers == {"testTarget", "testSource", "listDatabases", "download", "delete"}
Kinds == Handlers \cup {"backup", "manual"}

ASSUME ConstantsAssumption ==
    /\ NoPath \notin Paths
    /\ Faults \in BOOLEAN
    /\ Asked \subseteq Kinds

SourceCalls == {"sourceTest", "sourceList", "dump"}
TargetCalls == {"test", "mkdir", "rsync", "verify", "fetch", "rm"}
Calls == SourceCalls \cup TargetCalls
Side(c) == IF c \in SourceCalls THEN "source" ELSE "target"
SidesOf(k) ==
    CASE k = "backup" -> {"source", "target"}
      [] k \in {"testSource", "listDatabases"} -> {"source"}
      [] OTHER -> {"target"}

FirstCall(k) ==
    CASE k = "testTarget"    -> "test"
      [] k = "testSource"    -> "sourceTest"
      [] k = "listDatabases" -> "sourceList"
      [] k = "download"      -> "fetch"
      [] k = "delete"        -> "rm"
      [] k = "backup"        -> "dump"
      [] k = "manual"        -> "mkdir"

(* The call after a successful one: test_source lists the databases next,  *)
(* a run uploads (mkdir, then rsync with the same key) and verifies.       *)
NextCall(c) ==
    CASE c = "sourceTest" -> "sourceList"
      [] c = "dump"       -> "mkdir"
      [] c = "mkdir"      -> "rsync"
      [] c = "rsync"      -> "verify"
      [] OTHER            -> "end"

VARIABLES
    pc,      \* where a task is
    kind,    \* what it was asked to do
    byKey,   \* the sides ("source", "target") it signs in to by key
    call,    \* the call it is in
    ok,      \* whether the call's last command ended well
    key,     \* the identity file the call holds
    copy,    \* the file a download was written to
    file     \* per name: the file, the side it is for, what went wrong first

vars == << pc, kind, byKey, call, ok, key, copy, file >>

PCs == {"idle", "check", "write", "chmod", "spawn", "running", "remove",
        "return", "read", "unlink"}

Modes == {"unnamed", "named", "open", "private", "copy", "gone"}
FaultKinds == {"none", "notWritten", "notBuilt", "notStarted", "notFetched",
               "notRead", "notRemoved", "cancelled", "crashed"}

Unnamed == [mode |-> "unnamed", side |-> "target", fault |-> "none"]
Gone    == [Unnamed EXCEPT !.mode = "gone"]
Named(side) == [mode |-> "named", side |-> side, fault |-> "none"]

OnDisk(p) == file[p].mode \in {"open", "private", "copy"}
Held(p) == \E t \in Tasks : pc[t] # "idle" /\ p \in {key[t], copy[t]}

-----------------------------------------------------------------------------
Init ==
    /\ pc = [t \in Tasks |-> "idle"]
    /\ kind = [t \in Tasks |-> "delete"]
    /\ byKey = [t \in Tasks |-> {}]
    /\ call = [t \in Tasks |-> "rm"]
    /\ ok = [t \in Tasks |-> TRUE]
    /\ key = [t \in Tasks |-> NoPath]
    /\ copy = [t \in Tasks |-> NoPath]
    /\ file = [p \in Paths |-> Unnamed]

(* The task stays with its call and goes to the next statement.            *)
GoTo(t, to) ==
    /\ pc' = [pc EXCEPT ![t] = to]
    /\ UNCHANGED << kind, byKey, call, copy >>

(* The task is over, by `?` or with its answer; its locals are dropped.    *)
Ends(t) ==
    /\ pc' = [pc EXCEPT ![t] = "idle"]
    /\ kind' = [kind EXCEPT ![t] = "delete"]
    /\ byKey' = [byKey EXCEPT ![t] = {}]
    /\ call' = [call EXCEPT ![t] = "rm"]
    /\ ok' = [ok EXCEPT ![t] = TRUE]
    /\ key' = [key EXCEPT ![t] = NoPath]
    /\ copy' = [copy EXCEPT ![t] = NoPath]

(* What went wrong is recorded at the files the task leaves behind.        *)
Blame(fs, ps, fault) ==
    [p \in Paths |-> IF p \in ps /\ fs[p].fault = "none"
                     THEN [fs[p] EXCEPT !.fault = fault] ELSE fs[p]]

SetMode(p, mode) == [file EXCEPT ![p].mode = mode]
Unlinked(p) == [file EXCEPT ![p] = Gone]
Fresh(p) == file[p] = Unnamed

(* A request arrives, or the executor starts a run.  A download has named  *)
(* the file it will be written to before it calls the adapter.             *)
Begin(t, k, sides) ==
    /\ pc[t] = "idle"
    /\ pc' = [pc EXCEPT ![t] = "check"]
    /\ kind' = [kind EXCEPT ![t] = k]
    /\ byKey' = [byKey EXCEPT ![t] = sides]
    /\ call' = [call EXCEPT ![t] = FirstCall(k)]
    /\ IF k = "download"
       THEN \E p \in Paths :
                /\ Fresh(p)
                /\ copy' = [copy EXCEPT ![t] = p]
                /\ file' = [file EXCEPT ![p] = Named("target")]
       ELSE UNCHANGED << copy, file >>
    /\ UNCHANGED << ok, key >>

(* validate_config, a blank field, an unknown authentication method.       *)
Refuse(t) ==
    /\ pc[t] = "check"
    /\ Ends(t)
    /\ UNCHANGED file

-----------------------------------------------------------------------------
(* The identity file.                                                      *)
SkipKey(t) ==
    /\ pc[t] = "check"
    /\ Side(call[t]) \notin byKey[t]
    /\ GoTo(t, "spawn")
    /\ UNCHANGED << ok, key, file >>

(* Mutant: the file is named after the target, not by a new uuid.          *)
NameKeyOfTarget(t, p) ==
    /\ pc[t] = "check"
    /\ Side(call[t]) \in byKey[t]
    /\ file[p].mode # "copy"
    /\ key' = [key EXCEPT ![t] = p]
    /\ file' = [file EXCEPT ![p] = Named(Side(call[t]))]
    /\ GoTo(t, "write")
    /\ UNCHANGED ok

NameKey(t, p) ==
    /\ pc[t] = "check"
    /\ Side(call[t]) \in byKey[t]
    /\ Fresh(p)
    /\ key' = [key EXCEPT ![t] = p]
    /\ file' = [file EXCEPT ![p] = Named(Side(call[t]))]
    /\ GoTo(t, "write")
    /\ UNCHANGED ok

(* fs::write creates the file with the process's umask.                    *)
WriteKey(t) ==
    /\ pc[t] = "write"
    /\ file' = SetMode(key[t], "open")
    /\ GoTo(t, "chmod")
    /\ UNCHANGED << ok, key >>

(* The file cannot be created, or is created and not written to the end.   *)
WriteFails(t) ==
    /\ Faults
    /\ pc[t] = "write"
    /\ \E mode \in {"named", "open"} :
           file' = Blame(SetMode(key[t], mode), {key[t]}, "notWritten")
    /\ Ends(t)

SetPermissions(t) ==
    /\ pc[t] = "chmod"
    /\ file' = SetMode(key[t], "private")
    /\ GoTo(t, "spawn")
    /\ UNCHANGED << ok, key >>

SetPermissionsFails(t) ==
    /\ Faults
    /\ pc[t] = "chmod"
    /\ file' = Blame(file, {key[t]}, "notWritten")
    /\ Ends(t)

-----------------------------------------------------------------------------
(* The command: it is put together and started without an await between.   *)

(* A source's remote host and user are looked at after its key is written, *)
(* a dump's output file is created after it: `?` leaves the key.  Nothing  *)
(* between the key and the command of a target can fail.                   *)
BuildFails(t) ==
    /\ pc[t] = "spawn"
    /\ call[t] \in {"sourceTest", "sourceList"} \/ (Faults /\ call[t] = "dump")
    /\ file' = Blame(file, {key[t]}, "notBuilt")
    /\ Ends(t)

StartCommand(t) ==
    /\ pc[t] = "spawn"
    /\ GoTo(t, "running")
    /\ UNCHANGED << ok, key, file >>

(* ssh, sshpass or rsync cannot be started.  Calls of the target adapter   *)
(* return at once (`?` after map_err); calls of a source remove the key.   *)
CommandMissing(t) ==
    /\ Faults
    /\ pc[t] = "spawn"
    /\ \/ /\ call[t] \in TargetCalls
          /\ file' = Blame(file, {key[t], copy[t]}, "notStarted")
          /\ Ends(t)
       \/ /\ call[t] \in SourceCalls
          /\ ok' = [ok EXCEPT ![t] = FALSE]
          /\ GoTo(t, "remove")
          /\ UNCHANGED << key, file >>

(* rsync leaves the whole copy; one that fails may leave a part.           *)
CommandSucceeds(t) ==
    /\ pc[t] = "running"
    /\ ok' = [ok EXCEPT ![t] = TRUE]
    /\ file' = IF call[t] = "fetch" THEN SetMode(copy[t], "copy") ELSE file
    /\ UNCHANGED << kind, byKey, copy, key >>
    /\ IF call[t] = "mkdir"
       THEN /\ call' = [call EXCEPT ![t] = NextCall("mkdir")]
            /\ pc' = [pc EXCEPT ![t] = "spawn"]
       ELSE /\ pc' = [pc EXCEPT ![t] = "remove"]
            /\ UNCHANGED call

(* Mutant: a failed mkdir returns before the cleanup.                      *)
MkdirFailsFirst(t) ==
    /\ Faults
    /\ pc[t] = "running"
    /\ IF call[t] = "mkdir" THEN Ends(t) /\ UNCHANGED file
       ELSE /\ ok' = [ok EXCEPT ![t] = FALSE]
            /\ GoTo(t, "remove")
            /\ UNCHANGED << key, file >>

CommandExitsNonzero(t) ==
    /\ Faults
    /\ pc[t] = "running"
    /\ ok' = [ok EXCEPT ![t] = FALSE]
    /\ \/ UNCHANGED file
       \/ /\ call[t] = "fetch"
          /\ file' = Blame(SetMode(copy[t], "copy"), {copy[t]}, "notFetched")
    /\ GoTo(t, "remove")
    /\ UNCHANGED key

-----------------------------------------------------------------------------
(* let _ = fs::remove_file(path): an error is ignored.                     *)
Remove(t) ==
    /\ pc[t] = "remove"
    /\ \/ /\ key[t] = NoPath
          /\ UNCHANGED file
       \/ /\ key[t] \in Paths
          /\ file' = Unlinked(key[t])
       \/ /\ Faults /\ key[t] \in Paths
          /\ file' = Blame(file, {key[t]}, "notRemoved")
    /\ key' = [key EXCEPT ![t] = NoPath]
    /\ GoTo(t, "return")
    /\ UNCHANGED ok

(* The call returns: the task fails, goes on to its next call, reads what  *)
(* it downloaded, or is finished.                                          *)
Return(t) ==
    /\ pc[t] = "return"
    /\ LET next == NextCall(call[t])
       IN CASE ok[t] /\ call[t] = "fetch" ->
                   GoTo(t, "read") /\ UNCHANGED << ok, key, file >>
            [] ok[t] /\ call[t] # "fetch" /\ next # "end" ->
                   /\ pc' = [pc EXCEPT ![t] = "check"]
                   /\ call' = [call EXCEPT ![t] = next]
                   /\ UNCHANGED << kind, byKey, ok, key, copy, file >>
            [] OTHER -> Ends(t) /\ UNCHANGED file

(* The handler reads the copy and removes it.                              *)
ReadCopy(t) ==
    /\ pc[t] = "read"
    /\ \/ GoTo(t, "unlink") /\ UNCHANGED << ok, key, file >>
       \/ /\ Faults
          /\ file' = Blame(file, {copy[t]}, "notRead")
          /\ Ends(t)

(* Mutant: the copy is answered as it was read, and stays.                 *)
UnlinkForgotten(t) ==
    /\ pc[t] = "unlink"
    /\ Ends(t)
    /\ UNCHANGED file

Unlink(t) ==
    /\ pc[t] = "unlink"
    /\ \/ file' = Unlinked(copy[t])
       \/ Faults /\ file' = Blame(file, {copy[t]}, "notRemoved")
    /\ Ends(t)

-----------------------------------------------------------------------------
(* What else can end a task.                                               *)

(* A file operation that a dropped future had handed to the blocking pool  *)
(* is carried out all the same; a command it had started runs on.          *)
Settled(t) ==
    [p \in Paths |->
        CASE p = key[t] /\ pc[t] = "write"  -> [file[p] EXCEPT !.mode = "open"]
          [] p = key[t] /\ pc[t] = "chmod"  -> [file[p] EXCEPT !.mode = "private"]
          [] p = key[t] /\ pc[t] = "remove" -> Gone
          [] p = copy[t] /\ pc[t] = "unlink" -> Gone
          [] p = copy[t] /\ pc[t] = "running" -> [file[p] EXCEPT !.mode = "copy"]
          [] OTHER -> file[p]]

(* The client of a request goes away and its handler is dropped at the     *)
(* await it is in.                                                         *)
ClientLeaves(t) ==
    /\ pc[t] \in {"write", "chmod", "running", "remove", "read", "unlink"}
    /\ kind[t] \in Handlers
    /\ file' = Blame(Settled(t), {key[t], copy[t]}, "cancelled")
    /\ Ends(t)

(* The process is killed: every file that is held stays as it is.          *)
Crash ==
    /\ Faults
    /\ \E t \in Tasks : pc[t] # "idle"
    /\ file' = Blame(file, {p \in Paths : Held(p)}, "crashed")
    /\ pc' = [t \in Tasks |-> "idle"]
    /\ kind' = [t \in Tasks |-> "delete"]
    /\ byKey' = [t \in Tasks |-> {}]
    /\ call' = [t \in Tasks |-> "rm"]
    /\ ok' = [t \in Tasks |-> TRUE]
    /\ key' = [t \in Tasks |-> NoPath]
    /\ copy' = [t \in Tasks |-> NoPath]

TaskStep(t) ==
    \/ Refuse(t)
    \/ SkipKey(t)
    \/ \E p \in Paths : NameKey(t, p)
    \/ WriteKey(t)
    \/ WriteFails(t)
    \/ SetPermissions(t)
    \/ SetPermissionsFails(t)
    \/ BuildFails(t)
    \/ StartCommand(t)
    \/ CommandMissing(t)
    \/ CommandSucceeds(t)
    \/ CommandExitsNonzero(t)
    \/ Remove(t)
    \/ Return(t)
    \/ ReadCopy(t)
    \/ Unlink(t)

Next ==
    \/ \E t \in Tasks :
           \/ \E k \in Asked : \E sides \in SUBSET SidesOf(k) : Begin(t, k, sides)
           \/ TaskStep(t)
           \/ ClientLeaves(t)
    \/ Crash

Spec == Init /\ [][Next]_vars

-----------------------------------------------------------------------------
(* Properties.                                                             *)

TypeOK ==
    /\ pc \in [Tasks -> PCs]
    /\ kind \in [Tasks -> Kinds]
    /\ byKey \in [Tasks -> SUBSET {"source", "target"}]
    /\ call \in [Tasks -> Calls]
    /\ ok \in [Tasks -> BOOLEAN]
    /\ key \in [Tasks -> Paths \cup {NoPath}]
    /\ copy \in [Tasks -> Paths \cup {NoPath}]
    /\ file \in [Paths -> [mode : Modes, side : {"source", "target"}, fault : FaultKinds]]

(* A command that signs in by key finds its identity file, readable by the *)
(* process alone, until it has ended, whatever calls of the same target    *)
(* run and clean up at the same time; and no other task holds that file.   *)
CommandsHaveTheirKey ==
    \A t \in Tasks :
        pc[t] = "running" /\ Side(call[t]) \in byKey[t] =>
            /\ key[t] \in Paths
            /\ file[key[t]].mode = "private"
            /\ \A u \in Tasks \ {t} : key[t] \notin {key[u], copy[u]}

(* What can leave a file behind: for every call a dropped or killed task   *)
(* and a failed file operation; for a target's calls also a command that   *)
(* is not installed, for a source's one that could not be put together,    *)
(* for a downloaded copy a transfer that failed.                           *)
Excuses(p) ==
    {"cancelled", "crashed", "notWritten", "notRemoved"} \cup
    (IF file[p].side = "target" THEN {"notStarted"} ELSE {"notBuilt"}) \cup
    (IF file[p].mode = "copy" THEN {"notFetched", "notRead"} ELSE {})

(* No call that got an answer from its commands leaves its identity file   *)
(* or its download in the temporary directory: a file nobody holds any     *)
(* more is gone, or one of the excuses of its call has happened to it.     *)
FilesLeftAreExcused ==
    \A p \in Paths : OnDisk(p) /\ ~Held(p) =>
        file[p].fault \in Excuses(p)

=============================================================================
