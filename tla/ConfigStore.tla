---------------------------- MODULE ConfigStore ----------------------------
(***************************************************************************)
(* Sources, targets and jobs: the handlers of api.rs over the tables of    *)
(* repository.rs.  A handler is several statements with no transaction     *)
(* around them: an update reads the row, keeps the secrets the form left   *)
(* blank and writes all columns; a delete counts the jobs that refer to    *)
(* the row and then deletes it.  Foreign keys are SQLite's, on in sqlx.    *)
(* One action is one statement.                                            *)
(***************************************************************************)
EXTENDS Naturals

CONSTANTS
    Sources,     \* ids of database_connections rows
    Targets,     \* ids of backup_targets rows
    Jobs,        \* ids of backup_jobs rows
    Requests,    \* requests the server handles at the same time
    MaxVersion,  \* bound: writes of one row
    None         \* no row

Rows == Sources \cup Targets

ASSUME ConstantsAssumption ==
    /\ Sources \cap Targets = {}
    /\ None \notin Rows
    /\ MaxVersion \in Nat \ {0}

(* The columns that hold secrets; only remoteSecret can be NULL.           *)
AllFields == {"password", "remoteSecret", "secret"}
Fields(i) == IF i \in Sources THEN {"password", "remoteSecret"} ELSE {"secret"}

(* A secret is known by the column and the version it was typed in for.    *)
Typed == [row : Rows, field : AllFields, ver : 1 .. MaxVersion]
Blank == [row |-> None, field |-> "blank", ver |-> 0]  \* "", encrypted
Null  == [row |-> None, field |-> "null", ver |-> 0]

VARIABLES
    state,    \* of a source or target: "new", "stored" or "deleted"
    ver,      \* writes of the row so far
    secret,   \* what is stored in each secret column
    jobs,     \* backup_jobs: the source and the target, or None
    uploads,  \* targets that rows of manual_backup_uploads refer to
    pc,       \* where a request is
    row,      \* the row it is about
    typed,    \* the secret fields its form fills in
    seen,     \* the secrets it has read, and the version
    latest,   \* history: the secret a user last typed in for each column
    raced     \* history: rows written by a request that had read an older one

rowVars == << state, ver, secret, latest, raced >>
reqVars == << pc, row, typed, seen >>
vars    == << rowVars, jobs, uploads, reqVars >>

PCs == {"idle", "write", "reread", "delete"}

Secrets(i) == [Fields(i) -> Typed \cup {Blank, Null}]

Stored(i)   == state[i] = "stored"
Unreferred(i) == \A j \in Jobs : i \notin {jobs[j].source, jobs[j].target}
NothingSeen == [ver |-> 0, secret |-> << >>]
NoJob == [source |-> None, target |-> None]

-----------------------------------------------------------------------------
Init ==
    /\ state = [i \in Rows |-> "new"]
    /\ ver = [i \in Rows |-> 0]
    /\ secret = [i \in Rows |-> [f \in Fields(i) |-> Null]]
    /\ jobs = [j \in Jobs |-> NoJob]
    /\ uploads = {}
    /\ pc = [q \in Requests |-> "idle"]
    /\ row = [q \in Requests |-> None]
    /\ typed = [q \in Requests |-> {}]
    /\ seen = [q \in Requests |-> NothingSeen]
    /\ latest = secret
    /\ raced = {}

(* The next statement of a request, or its answer: the server forgets it.  *)
GoTo(q, to) ==
    /\ pc' = [pc EXCEPT ![q] = to]
    /\ UNCHANGED << row, typed, seen >>

Answered(q) ==
    /\ pc' = [pc EXCEPT ![q] = "idle"]
    /\ row' = [row EXCEPT ![q] = None]
    /\ typed' = [typed EXCEPT ![q] = {}]
    /\ seen' = [seen EXCEPT ![q] = NothingSeen]

(* The row gets a new version with these secrets.                          *)
Put(i, secrets, fields) ==
    /\ ver[i] < MaxVersion
    /\ state' = [state EXCEPT ![i] = "stored"]
    /\ ver' = [ver EXCEPT ![i] = @ + 1]
    /\ secret' = [secret EXCEPT ![i] = secrets]
    /\ latest' = [latest EXCEPT ![i] =
           [f \in Fields(i) |-> IF f \in fields \/ state[i] = "new"
                                THEN secrets[f] ELSE latest[i][f]]]

NewSecret(i, f) == [row |-> i, field |-> f, ver |-> ver[i] + 1]

(* POST /sources, /targets: what is not typed in is encrypted as it is,    *)
(* but a blank remote secret is NULL.                                      *)
CreateRow(q, i, fields) ==
    /\ pc[q] = "idle"
    /\ state[i] = "new"
    /\ Put(i, [f \in Fields(i) |-> IF f \in fields THEN NewSecret(i, f)
                                   ELSE IF f = "remoteSecret" THEN Null
                                   ELSE Blank], fields)
    /\ UNCHANGED << jobs, uploads, raced, reqVars >>

(* PUT /sources/{id}, /targets/{id}: three statements; 404 if the first    *)
(* finds no row.                                                           *)
ReadRow(q, i, fields) ==
    /\ pc[q] = "idle"
    /\ Stored(i)
    /\ pc' = [pc EXCEPT ![q] = "write"]
    /\ row' = [row EXCEPT ![q] = i]
    /\ typed' = [typed EXCEPT ![q] = fields]
    /\ seen' = [seen EXCEPT ![q] = [ver |-> ver[i], secret |-> secret[i]]]
    /\ UNCHANGED << rowVars, jobs, uploads >>

(* Mutant: a blank field of the form is written as NULL.                   *)
KeptNothing(q, f) == Null

(* Mutant: the second field of the form is copied from the first.          *)
KeptPassword(q, f) ==
    seen[q].secret[IF f = "secret" THEN "secret" ELSE "password"]

(* Mutant: what the form brings is encrypted, be it blank or not.          *)
KeptBlank(q, f) == IF f = "remoteSecret" THEN Null ELSE Blank

Kept(q, f) == seen[q].secret[f]

(* Mutant: INSERT OR REPLACE instead of UPDATE.                            *)
WriteRowUpsert(q) ==
    /\ pc[q] = "write"
    /\ LET i == row[q]
       IN /\ Put(i, [f \in Fields(i) |-> IF f \in typed[q] THEN NewSecret(i, f)
                                         ELSE Kept(q, f)], typed[q])
          /\ raced' = IF ver[i] = seen[q].ver THEN raced ELSE raced \cup {i}
    /\ GoTo(q, "reread")
    /\ UNCHANGED << jobs, uploads >>

(* UPDATE ... WHERE id = ?                                                 *)
WriteRow(q) ==
    /\ pc[q] = "write"
    /\ Stored(row[q])
    /\ LET i == row[q]
       IN /\ Put(i, [f \in Fields(i) |-> IF f \in typed[q] THEN NewSecret(i, f)
                                         ELSE Kept(q, f)], typed[q])
          /\ raced' = IF ver[i] = seen[q].ver THEN raced ELSE raced \cup {i}
    /\ GoTo(q, "reread")
    /\ UNCHANGED << jobs, uploads >>

(* The row is gone before it is written (404).                             *)
RowIsGone(q) ==
    /\ pc[q] = "write"
    /\ ~ Stored(row[q])
    /\ Answered(q)
    /\ UNCHANGED << rowVars, jobs, uploads >>

(* The row is read again for the answer, 500 if it is gone by now.         *)
RereadRow(q) ==
    /\ pc[q] = "reread"
    /\ Answered(q)
    /\ UNCHANGED << rowVars, jobs, uploads >>

(* DELETE /sources/{id}, /targets/{id}: two statements; 409 if the first   *)
(* finds jobs.                                                             *)
CountJobs(q, i) ==
    /\ pc[q] = "idle"
    /\ Unreferred(i)
    /\ pc' = [pc EXCEPT ![q] = "delete"]
    /\ row' = [row EXCEPT ![q] = i]
    /\ UNCHANGED << rowVars, jobs, uploads, typed, seen >>

(* Mutant: foreign keys are off; the count is all there is.                *)
DeleteRowUnchecked(q) ==
    /\ pc[q] = "delete"
    /\ IF Stored(row[q])
       THEN state' = [state EXCEPT ![row[q]] = "deleted"]
       ELSE UNCHANGED state
    /\ Answered(q)
    /\ UNCHANGED << ver, secret, latest, raced, jobs, uploads >>

(* A job, or an upload, that refers to the row makes the statement fail.   *)
DeleteRow(q) ==
    /\ pc[q] = "delete"
    /\ IF Stored(row[q]) /\ Unreferred(row[q]) /\ row[q] \notin uploads
       THEN state' = [state EXCEPT ![row[q]] = "deleted"]
       ELSE UNCHANGED state
    /\ Answered(q)
    /\ UNCHANGED << ver, secret, latest, raced, jobs, uploads >>

(* POST and PUT /jobs (the statement fails when a reference does not hold; *)
(* the reload that follows is in Scheduler), DELETE /jobs/{id}.            *)
PutJob(j, s, t) ==
    /\ Stored(s) /\ Stored(t)
    /\ jobs' = [jobs EXCEPT ![j] = [source |-> s, target |-> t]]
    /\ UNCHANGED << rowVars, uploads, reqVars >>

DeleteJob(j) ==
    /\ jobs[j] # NoJob
    /\ jobs' = [jobs EXCEPT ![j] = NoJob]
    /\ UNCHANGED << rowVars, uploads, reqVars >>

(* create_manual_run: rows of manual_backup_uploads are never deleted.     *)
AddUpload(t) ==
    /\ Stored(t)
    /\ uploads' = uploads \cup {t}
    /\ UNCHANGED << rowVars, jobs, reqVars >>

(* A statement fails (500), the client goes away or the process stops:     *)
(* what the request has not done yet is never done.                        *)
BreakOff(q) ==
    /\ pc[q] # "idle"
    /\ Answered(q)
    /\ UNCHANGED << rowVars, jobs, uploads >>

-----------------------------------------------------------------------------
RequestStep(q) ==
    \/ WriteRow(q) \/ RowIsGone(q) \/ RereadRow(q)
    \/ DeleteRow(q) \/ BreakOff(q)

Next ==
    \/ \E q \in Requests :
          \/ \E i \in Rows :
                \/ \E fields \in SUBSET Fields(i) :
                      CreateRow(q, i, fields) \/ ReadRow(q, i, fields)
                \/ CountJobs(q, i)
          \/ RequestStep(q)
    \/ \E j \in Jobs :
          \/ \E s \in Sources, t \in Targets : PutJob(j, s, t)
          \/ DeleteJob(j)
    \/ \E t \in Targets : AddUpload(t)

Spec == Init /\ [][Next]_vars

-----------------------------------------------------------------------------
(* Every variable has its type; a password or a target's secret is never   *)
(* NULL in a row that is stored (the columns are NOT NULL).                *)
TypeOK ==
    /\ state \in [Rows -> {"new", "stored", "deleted"}]
    /\ ver \in [Rows -> 0 .. MaxVersion]
    /\ \A i \in Rows :
          /\ secret[i] \in Secrets(i)
          /\ latest[i] \in Secrets(i)
          /\ Stored(i) => \A f \in Fields(i) \ {"remoteSecret"} : secret[i][f] # Null
    /\ jobs \in [Jobs -> {NoJob} \cup [source : Sources, target : Targets]]
    /\ uploads \subseteq Targets
    /\ pc \in [Requests -> PCs]
    /\ row \in [Requests -> Rows \cup {None}]
    /\ \A q \in Requests : typed[q] \subseteq AllFields
    /\ raced \subseteq Rows

(* A job's source and target, and the target of an upload, are in their    *)
(* tables: a run of a stored job finds them, and so does a request for an  *)
(* uploaded file, although the handlers look in one statement and delete   *)
(* in another.                                                             *)
NoDanglingReference ==
    /\ \A j \in Jobs : jobs[j] # NoJob =>
          Stored(jobs[j].source) /\ Stored(jobs[j].target)
    /\ \A t \in uploads : Stored(t)

(* A secret is what a user typed in for this column of this row: an update *)
(* that leaves fields blank, in whatever order with others, mixes nothing. *)
SecretsStayInPlace ==
    \A i \in Rows : \A f \in Fields(i) :
        secret[i][f] \notin {Blank, Null} =>
            secret[i][f].row = i /\ secret[i][f].field = f

(* "Blank keeps the value": the stored secret is the one typed in last, if *)
(* no request wrote the row between the read and the write of another.     *)
BlankKeepsSecret ==
    \A i \in Rows \ raced : secret[i] = latest[i]

(* A row that a user was told is deleted does not come back, although      *)
(* updates that have read it are still under way.                          *)
DeletedForGood ==
    [][ \A i \in Rows : state[i] = "deleted" => state'[i] = "deleted" ]_vars
=============================================================================
