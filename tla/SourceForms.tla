---------------------------- MODULE SourceForms ----------------------------
(***************************************************************************)
(* From a form to a dump: the page's dialogs for sources (SourcesPanel)    *)
(* and for jobs (JobsPanel), the requests they send, and what the server   *)
(* makes of a form when it tests it, stores it, lists its databases and    *)
(* dumps one.  Tests and lists are answered while the user goes on         *)
(* typing, closes the dialog or opens another one.  The page shows its own *)
(* copy of the sources, which a refresh replaces when it succeeds; it      *)
(* shows one tab at a time, and a panel that is left loses its state.      *)
(* Texts arrive trimmed: the page trims every field it sends.  Jobs are    *)
(* not kept: a name can always be typed, so that any database of any       *)
(* source may be a job's by the time one is edited.                        *)
(***************************************************************************)
EXTENDS Naturals, FiniteSets

CONSTANTS
    Sources,      \* ids of sources
    Forms,        \* what a user may fill in
    Databases,    \* names of databases
    DatabasesOf,  \* the databases on each host
    MaxLoads,     \* bound: lists asked for at the same time
    MaxRequests,  \* bound: sources saved and refreshes asked for
    Blank,        \* an empty field, or NULL
    None          \* nothing: no row, no request, no answer

New    == "new"      \* the dialog creates a source
Closed == "closed"

FormFields == {"mode", "exec", "dbType", "host", "user", "password",
               "auth", "ssh", "secret"}

(* What the fields may hold, and what may be filled in at all.             *)
Texts == {Blank, "automatic", "local", "mysql"} \cup
         UNION {{f[x] : x \in FormFields} : f \in Forms}
Hosts == {f.host : f \in Forms} \ {Blank}

AnyForm == {f \in [FormFields -> Texts] :
               /\ f.mode \in {"automatic", "manual"}
               /\ f.exec \in {"local", "remoteSsh"}
               /\ f.dbType \in {"mysql", "postgres", "mssql"}
               /\ f.host \in Hosts \cup {Blank}}

(* What is stored: such a form with a default database.                    *)
AnyRow == {c \in [FormFields \cup {"db"} -> Texts \cup Databases] :
              /\ [x \in FormFields |-> c[x]] \in AnyForm
              /\ c.db \in Databases \cup {Blank}}

(* Command lines: a program, the database it connects to and the account.  *)
Commands ==
    [program : {"mysqladmin", "mysql", "mysqldump", "psql", "pg_dump",
                "sqlcmd", "sqlpackage"},
     db : Databases \cup {Blank, "postgres", None},
     host : Texts, user : Texts, password : Texts,
     ssh : Texts, auth : Texts \cup {"key"}, secret : Texts]

ASSUME ConstantsAssumption ==
    /\ Sources \cap {New, Closed, None} = {}
    /\ MaxLoads \in Nat \ {0}
    /\ MaxRequests \in Nat
    /\ Forms \subseteq AnyForm
    /\ Blank \notin Databases
    /\ None \notin AnyForm \cup AnyRow \cup Commands
    /\ \A h \in Hosts : DatabasesOf[h] \subseteq Databases

VARIABLES
    row,        \* database_connections
    shown,      \* data.sources: the sources as the page shows them
    refreshing, \* refreshes under way: the sources each has read
    tab,        \* the panel shown: "sources" or "jobs"
    editing,    \* source dialog: the source edited, New or Closed
    edited,     \* editingSource: the source as it was shown, or None
    form,       \* what is filled in
    options,    \* the databases its list offers
    selected,   \* the default database chosen from them
    testing,    \* the test under way: its form and its database
    signature,  \* successfulTestSignature
    passed,     \* history: the form whose test the signature stands for
    tested,     \* history: per source, passed when it was saved
    had,        \* history: per source, its default databases so far
    requests,   \* sources saved and refreshes asked for
    chosen,     \* job dialog: the source, None while it is closed
    name,       \* the database
    names,      \* the databases its list offers
    loads,      \* lists asked for and not answered
    loading,    \* isLoadingDatabases
    filled,     \* history: the source the dialog was filled for last
    byHand      \* history: name was typed, or is offered as the job's

rowVars    == << row, tested, had >>
pageVars   == << shown, refreshing, requests >>
sourceVars == << editing, edited, form, options, selected, testing, signature, passed >>
jobVars    == << chosen, name, names, loads, loading, filled, byHand >>
vars       == << rowVars, pageVars, tab, sourceVars, jobVars >>

BlankForm == [f \in FormFields |->
    CASE f = "mode" -> "automatic" [] f = "exec" -> "local"
      [] f = "dbType" -> "mysql"   [] OTHER -> Blank]

Databases0 == Databases \cup {Blank}

-----------------------------------------------------------------------------
(* What the server makes of a form.                                        *)

Normalized(f) ==
    IF f.mode = "manual"
    THEN [f EXCEPT !.user = Blank, !.password = Blank, !.exec = "local",
                   !.ssh = Blank, !.auth = Blank, !.secret = Blank]
    ELSE f

(* create_source, update_source: a secret left blank is the old one.       *)
StoredRow(f, db, old) ==
    LET Kept(field) == IF f[field] = Blank /\ old # None THEN old[field] ELSE f[field]
        n == Normalized(f)
    IN  [field \in FormFields \cup {"db"} |->
            CASE field \in {"password", "secret"} -> Kept(field)
              [] field = "db" -> db
              [] OTHER -> n[field]]

(* What connects: a tool here, or the same tool behind ssh.                *)
Local(c, program, db) ==
    [program |-> program, db |-> db, host |-> c.host, user |-> c.user,
     password |-> c.password, ssh |-> Blank, auth |-> Blank, secret |-> Blank]
Auth(c) == IF c.auth = Blank THEN "key" ELSE c.auth
Remote(c, program, db) ==
    [Local(c, program, db) EXCEPT !.ssh = c.ssh, !.auth = Auth(c), !.secret = c.secret]

RequireConnection(c) == c.host # Blank /\ c.user # Blank

(* remote_ssh_command of the adapter: the authentication method is known,  *)
(* its secret, the host and the user are there.                            *)
RemoteIsComplete(c) ==
    Auth(c) \in {"key", "password"} /\ c.secret # Blank /\ c.ssh # Blank

Connect(c, program, db) ==
    IF ~RequireConnection(c) THEN None
    ELSE IF c.exec = "local" THEN Local(c, program, db)
    ELSE IF RemoteIsComplete(c) THEN Remote(c, program, db)
    ELSE None

MysqlTest(c)    == Connect(c, "mysqladmin", None)
MysqlList(c)    == Connect(c, "mysql", None)
PostgresTest(c) == Connect(c, "psql", IF c.db = Blank THEN "postgres" ELSE c.db)
PostgresList(c) == Connect(c, "psql", "postgres")
MssqlTest(c)    == Connect(c, "sqlcmd", None)
MssqlList(c)    == Connect(c, "sqlcmd", None)

Test(c) == CASE c.dbType = "mysql"    -> MysqlTest(c)
             [] c.dbType = "postgres" -> PostgresTest(c)
             [] c.dbType = "mssql"    -> MssqlTest(c)
List(c) == CASE c.dbType = "mysql"    -> MysqlList(c)
             [] c.dbType = "postgres" -> PostgresList(c)
             [] c.dbType = "mssql"    -> MssqlList(c)

(* The executor's own command line: build_backup_command here, or the tool *)
(* over SSH, for which the database's host and user are not looked at.     *)
DumpTool(c) == CASE c.dbType = "mysql"    -> "mysqldump"
                 [] c.dbType = "postgres" -> "pg_dump"
                 [] c.dbType = "mssql"    -> "sqlpackage"

LocalDump(c, db) ==
    IF RequireConnection(c) THEN Local(c, DumpTool(c), db) ELSE None

RemoteDump(c, db) ==
    IF RemoteIsComplete(c) THEN Remote(c, DumpTool(c), db) ELSE None

Dump(c, db) == IF c.exec = "remoteSsh" THEN RemoteDump(c, db) ELSE LocalDump(c, db)

(* Where a command connects, and as whom.                                  *)
Account(command) == [command EXCEPT !.program = None, !.db = None]

-----------------------------------------------------------------------------
Init ==
    /\ row = [s \in Sources |-> None]
    /\ shown = row
    /\ refreshing = {}
    /\ tab = "sources"
    /\ editing = Closed
    /\ edited = None
    /\ form = BlankForm
    /\ options = {}
    /\ selected = Blank
    /\ testing = None
    /\ signature = None
    /\ passed = None
    /\ chosen = None
    /\ name = Blank
    /\ names = {}
    /\ loads = {}
    /\ loading = FALSE
    /\ filled = None
    /\ byHand = FALSE
    /\ tested = row
    /\ had = [s \in Sources |-> {}]
    /\ requests = 0

(* resetDialog(false); a test under way goes on.                           *)
ResetSourceDialog ==
    /\ editing' = Closed
    /\ edited' = None
    /\ form' = BlankForm
    /\ options' = {}
    /\ selected' = Blank
    /\ signature' = None
    /\ passed' = None

ResetJobDialog ==
    /\ chosen' = None
    /\ name' = Blank
    /\ names' = {}
    /\ loading' = FALSE
    /\ filled' = None
    /\ byHand' = FALSE

(* The other panel is shown: answers for this one have no effect any more. *)
SwitchTab(to) ==
    /\ tab # to
    /\ tab' = to
    /\ ResetSourceDialog
    /\ testing' = None
    /\ ResetJobDialog
    /\ loads' = {}
    /\ UNCHANGED << rowVars, pageVars >>

-----------------------------------------------------------------------------
(* The page's copy.                                                        *)

(* refresh, with the button of the page: the sources have been read.       *)
Refresh ==
    /\ requests < MaxRequests
    /\ requests' = requests + 1
    /\ refreshing' = refreshing \cup {row}
    /\ UNCHANGED << rowVars, shown, tab, sourceVars, jobVars >>

(* Its answer takes the place of what may have been read later.            *)
RefreshArrives(r) ==
    /\ r \in refreshing
    /\ shown' = r
    /\ refreshing' = refreshing \ {r}
    /\ UNCHANGED << rowVars, requests, tab, sourceVars, jobVars >>

RefreshFails(r) ==
    /\ r \in refreshing
    /\ refreshing' = refreshing \ {r}
    /\ UNCHANGED << rowVars, shown, requests, tab, sourceVars, jobVars >>

(* submitForm after an answer: its own refresh may fail, and nothing is    *)
(* told of it.                                                             *)
RefreshAfterSave ==
    /\ shown' \in {shown, row'}
    /\ UNCHANGED refreshing

-----------------------------------------------------------------------------
(* The dialog of a source.                                                 *)

(* Opening an empty dialog does not forget a test that was answered after  *)
(* the last one was closed.                                                *)
OpenCreateSource ==
    /\ tab = "sources" /\ editing = Closed
    /\ editing' = New
    /\ edited' = None
    /\ form' = BlankForm
    /\ options' = {}
    /\ selected' = Blank
    /\ UNCHANGED << rowVars, pageVars, tab, testing, signature, passed, jobVars >>

(* The source as the page shows it; secrets are not part of it.            *)
OpenEditSource(s) ==
    /\ tab = "sources" /\ editing = Closed
    /\ shown[s] # None
    /\ editing' = s
    /\ edited' = shown[s]
    /\ form' = [f \in FormFields |->
                   IF f \in {"password", "secret"} THEN Blank ELSE edited'[f]]
    /\ options' = {edited'.db} \ {Blank}
    /\ selected' = edited'.db
    /\ signature' = None
    /\ passed' = None
    /\ UNCHANGED << rowVars, pageVars, tab, testing, jobVars >>

(* Any change but that of the default database clears the passed test.     *)
FillIn(f) ==
    /\ editing # Closed
    /\ f # form
    /\ form' = f
    /\ signature' = None
    /\ passed' = None
    /\ UNCHANGED << rowVars, pageVars, tab, editing, edited, options, selected, testing, jobVars >>

SelectDefault(db) ==
    /\ editing # Closed /\ form.mode = "automatic"
    /\ db \in options
    /\ selected' = db
    /\ UNCHANGED << rowVars, pageVars, tab, editing, edited, form, options, testing, signature, passed, jobVars >>

(* validateForm: what the dialog itself asks for.                          *)
ValidForm(f, requireSecrets) ==
    LET NewSsh == \/ editing = New
                  \/ edited.exec # "remoteSsh"
                  \/ edited.auth # f.auth
    IN  /\ f.host # Blank
        /\ f.mode = "automatic" =>
             /\ f.user # Blank
             /\ requireSecrets \/ editing = New => f.password # Blank
             /\ f.exec = "remoteSsh" =>
                  /\ f.ssh # Blank
                  /\ requireSecrets \/ NewSsh => f.secret # Blank

(* sourceFormSignature: all that is filled in, not the default database.   *)
Signature(f) == f

StartTest ==
    /\ editing # Closed /\ form.mode = "automatic"
    /\ testing = None
    /\ ValidForm(form, TRUE)
    /\ testing' = [form |-> form, db |-> selected]
    /\ UNCHANGED << rowVars, pageVars, tab, editing, edited, form, options, selected, signature, passed, jobVars >>

(* What test_source is given: the form as it was sent, and its database.   *)
Tested(t) == [field \in FormFields \cup {"db"} |->
                 IF field = "db" THEN t.db ELSE Normalized(t.form)[field]]

(* Mutant: the database that was selected stays selected, listed or not.   *)
TestPassesKeepsDatabase ==
    /\ testing # None
    /\ Test(Tested(testing)) # None /\ List(Tested(testing)) # None
    /\ options' = DatabasesOf[testing.form.host]
    /\ \E db \in IF testing.db # Blank THEN {testing.db} ELSE options' :
           selected' = db
    /\ signature' = Signature(testing.form)
    /\ passed' = testing.form
    /\ testing' = None
    /\ UNCHANGED << rowVars, pageVars, tab, editing, edited, form, jobVars >>

(* Mutant: the answer signs the form as it is by now.                      *)
TestPassesSignsForm ==
    /\ testing # None
    /\ Test(Tested(testing)) # None /\ List(Tested(testing)) # None
    /\ LET listed == DatabasesOf[testing.form.host]
       IN /\ options' = listed
          /\ \E db \in IF testing.db \in listed THEN {testing.db}
                       ELSE IF listed = {} THEN {Blank} ELSE listed :
                 selected' = db
    /\ signature' = Signature(form)
    /\ passed' = testing.form
    /\ testing' = None
    /\ UNCHANGED << rowVars, pageVars, tab, editing, edited, form, jobVars >>

(* The answer is applied to whatever dialog there is by now, or none; what *)
(* it signs is the form that was sent.                                     *)
TestPasses ==
    /\ testing # None
    /\ Test(Tested(testing)) # None /\ List(Tested(testing)) # None
    /\ LET listed == DatabasesOf[testing.form.host]
       IN /\ options' = listed
          /\ \E db \in IF testing.db \in listed THEN {testing.db}
                       ELSE IF listed = {} THEN {Blank} ELSE listed :
                 selected' = db
    /\ signature' = Signature(testing.form)
    /\ passed' = testing.form
    /\ testing' = None
    /\ UNCHANGED << rowVars, pageVars, tab, editing, edited, form, jobVars >>

(* A failed test does not take back one that passed.                       *)
TestFails ==
    /\ testing # None
    /\ testing' = None
    /\ UNCHANGED << rowVars, pageVars, tab, editing, edited, form, options, selected, signature, passed, jobVars >>

(* create_source, update_source.                                           *)
Store(s) ==
    /\ requests < MaxRequests
    /\ requests' = requests + 1
    /\ \E db \in IF form.mode = "manual" THEN Databases0 ELSE {selected} :
           /\ row' = [row EXCEPT ![s] = StoredRow(form, db, row[s])]
           /\ had' = [had EXCEPT ![s] = @ \cup {db}]
    /\ tested' = [tested EXCEPT ![s] = passed]

(* Save: an automatic source only as it was tested last.  The request and  *)
(* its answer are one step: no dialog opens until it is answered, and      *)
(* nothing done in between outlives resetDialog.  When the answer is lost, *)
(* the dialog stays as it is and nothing is refreshed.                     *)
SaveSource(s) ==
    /\ editing # Closed
    /\ IF editing = New THEN row[s] = None ELSE s = editing
    /\ ValidForm(form, FALSE)
    /\ form.mode = "automatic" => signature = Signature(form)
    /\ Store(s)
    /\ \/ ResetSourceDialog /\ RefreshAfterSave /\ UNCHANGED testing
       \/ UNCHANGED << sourceVars, shown, refreshing >>
    /\ UNCHANGED << tab, jobVars >>

CloseSource ==
    /\ editing # Closed
    /\ ResetSourceDialog
    /\ UNCHANGED << rowVars, pageVars, tab, testing, jobVars >>

-----------------------------------------------------------------------------
(* The dialog of a job.                                                    *)

(* loadDatabases: the list is asked for; until it comes, there is the      *)
(* preferred database, the default one of the source or that of the job.   *)
Load(s, preferred, kept) ==
    /\ Cardinality(loads) < MaxLoads
    /\ names' = {preferred} \ {Blank}
    /\ loads' = loads \cup {[source |-> s, preferred |-> preferred, kept |-> kept]}
    /\ loading' = TRUE

(* Mutant: another source is selected, the database stays.                 *)
SelectSourceKeepsName(s) ==
    /\ tab = "jobs"
    /\ shown[s] # None /\ s # chosen
    /\ chosen' = s
    /\ name' = IF name = Blank THEN shown[s].db ELSE name
    /\ filled' = s
    /\ byHand' = FALSE
    /\ IF shown[s].mode = "manual"
       THEN names' = {} /\ UNCHANGED << loads, loading >>
       ELSE Load(s, name', FALSE)
    /\ UNCHANGED << rowVars, pageVars, tab, sourceVars >>

(* handleSourceChange, in a dialog that may just have been opened: the     *)
(* default database and the mode are those of the source as it is shown.   *)
SelectSource(s) ==
    /\ tab = "jobs"
    /\ shown[s] # None /\ s # chosen
    /\ chosen' = s
    /\ name' = shown[s].db
    /\ filled' = s
    /\ byHand' = FALSE
    /\ IF shown[s].mode = "manual"
       THEN names' = {} /\ UNCHANGED << loads, loading >>
       ELSE Load(s, name', FALSE)
    /\ UNCHANGED << rowVars, pageVars, tab, sourceVars >>

OpenEditJob(s, db) ==
    /\ tab = "jobs" /\ chosen = None
    /\ row[s] # None
    /\ chosen' = s
    /\ name' = db
    /\ filled' = s
    /\ byHand' = TRUE
    /\ Load(s, db, TRUE)
    /\ UNCHANGED << rowVars, pageVars, tab, sourceVars >>

(* load_source_databases, and its answer: it is applied to the dialog as   *)
(* it is by then, open or not, whatever source is selected in it.          *)
ListArrives(l) ==
    /\ l \in loads
    /\ List(row[l.source]) # None
    /\ loads' = loads \ {l}
    /\ loading' = FALSE
    /\ names' = ({l.preferred} \ {Blank}) \cup DatabasesOf[row[l.source].host]
    /\ \E db \in IF l.preferred # Blank THEN {l.preferred}
                 ELSE IF names' = {} THEN {Blank} ELSE names' :
           name' = db
    /\ filled' = l.source
    /\ byHand' = l.kept
    /\ UNCHANGED << rowVars, pageVars, tab, sourceVars, chosen >>

ListFails(l) ==
    /\ l \in loads
    /\ loads' = loads \ {l}
    /\ loading' = FALSE
    /\ names' = {}
    /\ name' = l.preferred
    /\ filled' = l.source
    /\ byHand' = l.kept
    /\ UNCHANGED << rowVars, pageVars, tab, sourceVars, chosen >>

(* A list to choose from, or, without one, an input; neither while it is   *)
(* loading.  A source that is not shown is not taken for a manual one.     *)
OffersList ==
    /\ names # {}
    /\ shown[chosen] # None => shown[chosen].mode # "manual"

EnterName(db) ==
    /\ chosen # None /\ ~loading
    /\ OffersList => db \in names
    /\ name' = db
    /\ byHand' = (byHand \/ ~OffersList)
    /\ UNCHANGED << rowVars, pageVars, tab, sourceVars, chosen, names, loads, loading, filled >>

(* A disabled input is not part of the form, a disabled list is.  A lost   *)
(* answer leaves the dialog as it is.                                      *)
SaveJob ==
    /\ chosen # None
    /\ name # Blank
    /\ loading => OffersList
    /\ UNCHANGED << rowVars, requests >>
    /\ \/ ResetJobDialog /\ RefreshAfterSave /\ UNCHANGED loads
       \/ UNCHANGED << jobVars, shown, refreshing >>
    /\ UNCHANGED << tab, sourceVars >>

(* resetDialog(false), or openCreateDialog; lists under way still arrive.  *)
CloseJob ==
    /\ chosen # None
    /\ ResetJobDialog
    /\ UNCHANGED << rowVars, pageVars, tab, sourceVars, loads >>

Next ==
    \/ \E to \in {"sources", "jobs"} : SwitchTab(to)
    \/ Refresh
    \/ \E r \in refreshing : RefreshArrives(r)
    \/ \E r \in refreshing : RefreshFails(r)
    \/ OpenCreateSource
    \/ \E s \in Sources : OpenEditSource(s)
    \/ \E f \in Forms : FillIn(f)
    \/ \E db \in Databases : SelectDefault(db)
    \/ StartTest
    \/ TestPasses
    \/ TestFails
    \/ \E s \in Sources : SaveSource(s)
    \/ CloseSource
    \/ \E s \in Sources : SelectSource(s)
    \/ \E s \in Sources, db \in Databases : OpenEditJob(s, db)
    \/ \E l \in loads : ListArrives(l)
    \/ \E l \in loads : ListFails(l)
    \/ \E db \in Databases : EnterName(db)
    \/ SaveJob
    \/ CloseJob

Spec == Init /\ [][Next]_vars

-----------------------------------------------------------------------------
(* Properties.                                                             *)

Automatic(s) == row[s] # None /\ row[s].mode = "automatic"

(* What a test of the page shows holds for the dump: every automatic       *)
(* source is dumped, and its databases are listed, from the host and with  *)
(* the accounts and secrets of a test that passed, however tests, edits    *)
(* and closed dialogs followed each other, and whatever the row held       *)
(* before.  A manual source connects nowhere, even one that was automatic  *)
(* before and still holds its secrets.                                     *)
SourcesConnectAsTested ==
    \A s \in Sources : row[s] # None =>
        LET test == Test([x \in FormFields \cup {"db"} |->
                             IF x = "db" THEN row[s].db ELSE tested[s][x]])
        IN  IF row[s].mode = "automatic"
            THEN /\ tested[s] # None
                 /\ test # None
                 /\ \A db \in Databases : Account(Dump(row[s], db)) = Account(test)
                 /\ Account(List(row[s])) = Account(test)
            ELSE /\ List(row[s]) = None
                 /\ \A db \in Databases : Dump(row[s], db) = None

(* The default database of an automatic source is one the host it was      *)
(* tested on has, or it has none.                                          *)
DefaultDatabaseListed ==
    \A s \in Sources : Automatic(s) =>
        row[s].db \in DatabasesOf[row[s].host] \cup {Blank}

(* However sources are selected one after another, dialogs closed and      *)
(* opened again, and refreshes and answers late or lost: the database a    *)
(* job is saved with was typed or kept by the user, or belongs to the      *)
(* source its dialog was filled for last: its host has it, or it is or was *)
(* its default.  (That source is another one than the job's when a list    *)
(* asked for earlier has arrived last; its default is an old one when the  *)
(* page has not been refreshed since.)                                     *)
JobDatabaseExplained ==
    [][SaveJob =>
        \/ byHand
        \/ name \in DatabasesOf[row[filled].host] \cup had[filled]]_vars

=============================================================================
