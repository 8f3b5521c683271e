-------------------------- MODULE SourceFormsProofs --------------------------
(***************************************************************************)
(* Theorems about SourceForms, for any sources, forms and hosts, and any   *)
(* number of lists under way.                                              *)
(***************************************************************************)
EXTENDS SourceForms, TLAPS

-----------------------------------------------------------------------------
(* Types.                                                                  *)

(* A stored row is a form with a default database.                         *)
IsRow(c) ==
    /\ \A x \in FormFields : c[x] \in Texts
    /\ c.mode \in {"automatic", "manual"}
    /\ c.exec \in {"local", "remoteSsh"}
    /\ c.dbType \in {"mysql", "postgres", "mssql"}
    /\ c.host \in Hosts \cup {Blank}
    /\ c.db \in Databases0

Lists == [source : Sources, preferred : Databases0, kept : BOOLEAN]

Rows == [Sources -> AnyRow \cup {None}]

SourcesTyped ==
    /\ row \in Rows
    /\ tested \in [Sources -> AnyForm \cup {None}]
    /\ editing \in Sources \cup {New, Closed}
    /\ edited \in AnyRow \cup {None}
    /\ editing \in Sources => edited # None
    /\ form \in AnyForm
    /\ options \subseteq Databases
    /\ selected \in Databases0
    /\ testing # None => testing.form \in AnyForm /\ testing.db \in Databases0
    /\ signature \in AnyForm \cup {None}
    /\ passed \in AnyForm \cup {None}

(* What the page shows, or will once a refresh arrives, was stored: with   *)
(* a default database its source has or had.                               *)
PageTyped ==
    /\ had \in [Sources -> SUBSET Databases0]
    /\ shown \in Rows
    /\ refreshing \subseteq Rows
    /\ \A r \in refreshing \cup {shown, row} : \A s \in Sources :
          r[s] # None => row[s] # None /\ r[s].db \in had[s]

JobsTyped ==
    /\ tab \in {"sources", "jobs"}
    /\ chosen \in Sources \cup {None}
    /\ name \in Databases0
    /\ names \subseteq Databases
    /\ loads \subseteq Lists
    /\ loading \in BOOLEAN
    /\ filled \in Sources \cup {None}
    /\ byHand \in BOOLEAN
    (* Dialogs and lists under way are those of the tab that is shown; a    *)
    (* list and an opened dialog are of a source that is stored.            *)
    /\ editing # Closed => tab = "sources"
    /\ editing \in Sources => row[editing] # None
    /\ loads # {} \/ chosen # None \/ filled # None => tab = "jobs"
    /\ chosen # None => row[chosen] # None /\ filled # None
    /\ \A l \in loads : row[l.source] # None

TypeInv == SourcesTyped /\ PageTyped /\ JobsTyped

-----------------------------------------------------------------------------
(* The accounts of commands.                                               *)

(* The code can build a command from the form or row.                      *)
Reachable(c) ==
    /\ RequireConnection(c)
    /\ c.exec = "local" \/ RemoteIsComplete(c)

(* Nothing but a secret that is not used differs between the two.          *)
Agree(c, f) ==
    \A x \in FormFields :
        c[x] # f[x] => x = "secret" /\ c.exec = "local"

(* A form that was tested brought every secret with it.                    *)
Complete(f) ==
    /\ f.mode = "automatic"
    /\ f.password # Blank
    /\ f.exec = "remoteSsh" => f.secret # Blank

-----------------------------------------------------------------------------
(* The parts of the inductive invariant.                                   *)

(* A signature stands for a form that passed a test, and what the dialog   *)
(* offers was listed by that test.                                         *)
SignatureInv ==
    /\ testing # None => Complete(testing.form)
    /\ signature = passed
    /\ passed # None =>
          /\ Complete(passed) /\ Reachable(passed)
          /\ options \subseteq DatabasesOf[passed.host]
          /\ selected \in DatabasesOf[passed.host] \cup {Blank}

(* A row agrees with a form that passed, and its default database was      *)
(* listed then; a manual one cannot connect.                               *)
StoredAsTested(c, f) ==
    IF c.mode = "automatic"
    THEN /\ f \in AnyForm
         /\ f.mode = "automatic"
         /\ Reachable(f)
         /\ Agree(c, f)
         /\ c.db \in DatabasesOf[c.host] \cup {Blank}
    ELSE c.user = Blank /\ c.exec = "local"

RowsTested ==
    \A s \in Sources : row[s] # None => StoredAsTested(row[s], tested[s])

(* The databases a job dialog may show without an explanation, when it was *)
(* filled for a source last.                                               *)
Own(s) == DatabasesOf[row[s].host] \cup had[s]

DialogInv ==
    /\ \A l \in loads : ~l.kept => l.preferred \in had[l.source]
    /\ filled # None /\ ~byHand =>
          /\ name \in Own(filled) \cup {Blank}
          /\ names \subseteq Own(filled)

-----------------------------------------------------------------------------
(* Facts about the operators.                                              *)

(* A form is its fields.                                                   *)
LEMMA FormFieldsTyped ==
    ASSUME NEW f \in AnyForm
    PROVE  /\ \A x \in FormFields : f[x] \in Texts
           /\ f.mode \in {"automatic", "manual"}
           /\ f.exec \in {"local", "remoteSsh"}
           /\ f.dbType \in {"mysql", "postgres", "mssql"}
           /\ f.host \in Hosts \cup {Blank}
BY DEF AnyForm

LEMMA AnyRowFields == ASSUME NEW c \in AnyRow PROVE IsRow(c)
<1> DEFINE f == [x \in FormFields |-> c[x]]
<1>1. f \in AnyForm /\ c.db \in Databases0
  BY DEF AnyRow, Databases0
<1>2. \A x \in FormFields : f[x] = c[x]
  OBVIOUS
<1> HIDE DEF f
<1>3. f.mode = c.mode /\ f.exec = c.exec /\ f.dbType = c.dbType /\ f.host = c.host
  BY <1>2 DEF FormFields
<1>4. QED
  BY <1>1, <1>2, <1>3, FormFieldsTyped DEF IsRow

LEMMA RowOfFields ==
    ASSUME NEW c, IsRow(c), c = [x \in FormFields \cup {"db"} |-> c[x]]
    PROVE  c \in AnyRow
<1> DEFINE f == [x \in FormFields |-> c[x]]
<1>1. f \in [FormFields -> Texts]
  BY DEF IsRow
<1>2. f.mode = c.mode /\ f.exec = c.exec /\ f.dbType = c.dbType /\ f.host = c.host
  BY DEF FormFields
<1>3. f \in AnyForm
  BY <1>1, <1>2 DEF IsRow, AnyForm
<1>4. \A x \in FormFields \cup {"db"} : c[x] \in Texts \cup Databases
  BY DEF IsRow, Databases0, Texts
<1>5. c \in [FormFields \cup {"db"} -> Texts \cup Databases]
  BY <1>4
<1>6. QED
  BY <1>3, <1>5 DEF AnyRow, IsRow, Databases0

LEMMA BlankFormTyped == BlankForm \in AnyForm
<1>1. BlankForm \in [FormFields -> Texts]
  BY DEF BlankForm, Texts
<1>2. /\ BlankForm.mode = "automatic" /\ BlankForm.exec = "local"
      /\ BlankForm.dbType = "mysql" /\ BlankForm.host = Blank
  BY DEF BlankForm, FormFields
<1>3. QED
  BY <1>1, <1>2 DEF AnyForm

(* What the server stores of a form, field by field.                       *)
LEMMA StoredFields ==
    ASSUME NEW f \in AnyForm, NEW db, NEW old,
           NEW c, c = StoredRow(f, db, old)
    PROVE  /\ c.db = db
           /\ c.mode = f.mode /\ c.dbType = f.dbType /\ c.host = f.host
           /\ f.mode = "automatic" => c.exec = f.exec /\ c.user = f.user
                                      /\ c.auth = f.auth /\ c.ssh = f.ssh
           /\ f.mode = "manual" => c.exec = "local" /\ c.user = Blank
                                   /\ c.auth = Blank /\ c.ssh = Blank
           /\ \A x \in {"password", "secret"} :
                 c[x] = IF f[x] = Blank /\ old # None THEN old[x] ELSE f[x]
BY DEF StoredRow, Normalized, FormFields, AnyForm

LEMMA StoredTyped ==
    ASSUME NEW f \in AnyForm, NEW db \in Databases0, NEW old \in AnyRow \cup {None}
    PROVE  StoredRow(f, db, old) \in AnyRow
<1> DEFINE c == StoredRow(f, db, old)
<1>1. /\ c.db = db /\ c.mode = f.mode /\ c.dbType = f.dbType /\ c.host = f.host
      /\ f.mode = "automatic" => c.exec = f.exec /\ c.user = f.user
                                 /\ c.auth = f.auth /\ c.ssh = f.ssh
      /\ f.mode = "manual" => c.exec = "local" /\ c.user = Blank
                              /\ c.auth = Blank /\ c.ssh = Blank
      /\ \A x \in {"password", "secret"} :
            c[x] = IF f[x] = Blank /\ old # None THEN old[x] ELSE f[x]
  BY StoredFields
<1> HIDE DEF c
<1>2. "local" \in Texts /\ Blank \in Texts
  BY DEF Texts
<1>3. /\ \A x \in FormFields : f[x] \in Texts
      /\ old # None => \A x \in FormFields : old[x] \in Texts
  BY FormFieldsTyped, AnyRowFields DEF IsRow
<1>4. f.mode \in {"automatic", "manual"}
  BY FormFieldsTyped
<1>5. \A x \in FormFields : c[x] \in Texts
  BY <1>1, <1>2, <1>3, <1>4 DEF FormFields
<1>6. IsRow(c)
  BY <1>1, <1>4, <1>5, FormFieldsTyped DEF IsRow
<1>7. c = [x \in FormFields \cup {"db"} |-> c[x]]
  BY DEF c, StoredRow
<1>8. c \in AnyRow
  BY <1>6, <1>7, RowOfFields
<1>9. QED
  BY <1>8 DEF c

(* A test or a list that is refused for nothing can be built; and only     *)
(* then.                                                                   *)
LEMMA ConnectReachable ==
    ASSUME NEW c, NEW p, NEW x, Connect(c, p, x) # None,
           c.exec \in {"local", "remoteSsh"}
    PROVE  Reachable(c)
BY DEF Connect, Reachable

LEMMA TestReachable ==
    ASSUME NEW c, c.dbType \in {"mysql", "postgres", "mssql"},
           c.exec \in {"local", "remoteSsh"}, Test(c) # None
    PROVE  Reachable(c)
BY ConnectReachable DEF Test, MysqlTest, PostgresTest, MssqlTest

(* Commands as records, field by field.                                    *)
LEMMA AccountRecord ==
    ASSUME NEW p, NEW d, NEW h, NEW u, NEW w, NEW s, NEW a, NEW k
    PROVE  Account([program |-> p, db |-> d, host |-> h, user |-> u,
                    password |-> w, ssh |-> s, auth |-> a, secret |-> k])
           = [program |-> None, db |-> None, host |-> h, user |-> u,
              password |-> w, ssh |-> s, auth |-> a, secret |-> k]
<1> DEFINE C(x, y) == [program |-> x, db |-> y, host |-> h, user |-> u,
                       password |-> w, ssh |-> s, auth |-> a, secret |-> k]
<1>1. [C(p, d) EXCEPT !.program = None] = C(None, d)
  OBVIOUS
<1>2. [C(None, d) EXCEPT !.db = None] = C(None, None)
  OBVIOUS
<1>3. Account(C(p, d)) = [[C(p, d) EXCEPT !.program = None] EXCEPT !.db = None]
  BY DEF Account
<1> HIDE DEF C
<1>4. Account(C(p, d)) = C(None, None)
  BY <1>1, <1>2, <1>3
<1>5. QED
  BY <1>4 DEF C

LEMMA RemoteRecord ==
    ASSUME NEW c, NEW p, NEW d
    PROVE  Remote(c, p, d) =
             [program |-> p, db |-> d, host |-> c.host, user |-> c.user,
              password |-> c.password, ssh |-> c.ssh, auth |-> Auth(c),
              secret |-> c.secret]
<1> DEFINE C(s, a, k) == [program |-> p, db |-> d, host |-> c.host,
                          user |-> c.user, password |-> c.password,
                          ssh |-> s, auth |-> a, secret |-> k]
<1>1. [C(Blank, Blank, Blank) EXCEPT !.ssh = c.ssh] = C(c.ssh, Blank, Blank)
  OBVIOUS
<1>2. [C(c.ssh, Blank, Blank) EXCEPT !.auth = Auth(c)] = C(c.ssh, Auth(c), Blank)
  OBVIOUS
<1>3. [C(c.ssh, Auth(c), Blank) EXCEPT !.secret = c.secret] = C(c.ssh, Auth(c), c.secret)
  OBVIOUS
<1>4. Remote(c, p, d) = [[[C(Blank, Blank, Blank) EXCEPT !.ssh = c.ssh]
                             EXCEPT !.auth = Auth(c)] EXCEPT !.secret = c.secret]
  BY DEF Remote, Local
<1> HIDE DEF C
<1>5. Remote(c, p, d) = C(c.ssh, Auth(c), c.secret)
  BY <1>1, <1>2, <1>3, <1>4
<1>6. QED
  BY <1>5 DEF C

(* The account does not depend on the program and the database.            *)
LEMMA AccountCommand ==
    ASSUME NEW c, NEW p, NEW d
    PROVE  /\ Account(Local(c, p, d)) = Local(c, None, None)
           /\ Account(Remote(c, p, d)) = Remote(c, None, None)
BY AccountRecord, RemoteRecord DEF Local

(* The account of whoever can connect: the one of the form or row.         *)
AccountOf(c) == IF c.exec = "local" THEN Local(c, None, None) ELSE Remote(c, None, None)

LEMMA ConnectAccount ==
    ASSUME NEW c, IsRow(c), Reachable(c),
           NEW p \in {"mysqladmin", "mysql", "psql", "sqlcmd"},
           NEW x \in Databases \cup {Blank, "postgres", None}
    PROVE  /\ Connect(c, p, x) # None
           /\ Account(Connect(c, p, x)) = AccountOf(c)
<1>1. /\ c.host \in Texts /\ c.user \in Texts /\ c.password \in Texts
      /\ c.ssh \in Texts /\ c.auth \in Texts /\ c.secret \in Texts
      /\ Blank \in Texts /\ c.exec \in {"local", "remoteSsh"}
  BY DEF IsRow, FormFields, Texts
<1>2. Auth(c) \in Texts \cup {"key"}
  BY <1>1 DEF Auth
<1>3. CASE c.exec = "local"
  <2>1. Connect(c, p, x) = Local(c, p, x)
    BY <1>3 DEF Connect, Reachable
  <2>2. Local(c, p, x) \in Commands
    BY <1>1 DEF Local, Commands
  <2>3. Account(Local(c, p, x)) = Local(c, None, None)
    BY AccountCommand
  <2>4. QED
    BY <1>3, <2>1, <2>2, <2>3, ConstantsAssumption DEF AccountOf
<1>4. CASE c.exec # "local"
  <2>1. Connect(c, p, x) = Remote(c, p, x)
    BY <1>4 DEF Connect, Reachable
  <2>2. Remote(c, p, x) \in Commands
    BY <1>1, <1>2, RemoteRecord DEF Commands
  <2>3. Account(Remote(c, p, x)) = Remote(c, None, None)
    BY AccountCommand
  <2>4. QED
    BY <1>4, <2>1, <2>2, <2>3, ConstantsAssumption DEF AccountOf
<1>5. QED
  BY <1>3, <1>4

LEMMA TestAccount ==
    ASSUME NEW c, IsRow(c), Reachable(c)
    PROVE  /\ Test(c) # None /\ Account(Test(c)) = AccountOf(c)
           /\ List(c) # None /\ Account(List(c)) = AccountOf(c)
<1>1. c.dbType \in {"mysql", "postgres", "mssql"} /\ c.db \in Databases0
  BY DEF IsRow
<1>2. (IF c.db = Blank THEN "postgres" ELSE c.db) \in Databases \cup {Blank, "postgres", None}
  BY <1>1 DEF Databases0
<1>3. Test(c) # None /\ Account(Test(c)) = AccountOf(c)
  BY <1>1, <1>2, ConnectAccount DEF Test, MysqlTest, PostgresTest, MssqlTest
<1>4. List(c) # None /\ Account(List(c)) = AccountOf(c)
  BY <1>1, ConnectAccount DEF List, MysqlList, PostgresList, MssqlList
<1>5. QED
  BY <1>3, <1>4

(* The executor's own dump of what can connect goes to the same account.   *)
LEMMA DumpAccount ==
    ASSUME NEW c, IsRow(c), Reachable(c), NEW db
    PROVE  Account(Dump(c, db)) = AccountOf(c)
<1>1. c.exec \in {"local", "remoteSsh"}
  BY DEF IsRow
<1>2. Dump(c, db) = IF c.exec = "local" THEN Local(c, DumpTool(c), db)
                    ELSE Remote(c, DumpTool(c), db)
  BY <1>1 DEF Dump, LocalDump, RemoteDump, Reachable
<1>3. /\ Account(Local(c, DumpTool(c), db)) = Local(c, None, None)
      /\ Account(Remote(c, DumpTool(c), db)) = Remote(c, None, None)
  BY AccountCommand
<1>4. QED
  BY <1>2, <1>3 DEF AccountOf

(* A row without a user, on this machine, connects nowhere.                *)
LEMMA ManualConnectsNowhere ==
    ASSUME NEW c, IsRow(c), c.user = Blank, c.exec = "local"
    PROVE  List(c) = None /\ \A db \in Databases : Dump(c, db) = None
<1>1. ~RequireConnection(c)
  BY DEF RequireConnection
<1>2. \A db : LocalDump(c, db) = None
  BY <1>1 DEF LocalDump
<1>3. \A p, x : Connect(c, p, x) = None
  BY <1>1 DEF Connect
<1>4. c.dbType \in {"mysql", "postgres", "mssql"}
  BY DEF IsRow
<1>5. QED
  BY <1>2, <1>3, <1>4 DEF List, MysqlList, PostgresList, MssqlList, Dump

(* What agrees connects with the same account.                             *)
LEMMA AgreeAccount ==
    ASSUME NEW c, NEW f, Agree(c, f)
    PROVE  (Reachable(c) <=> Reachable(f)) /\ AccountOf(c) = AccountOf(f)
<1>1. /\ c.host = f.host /\ c.user = f.user /\ c.password = f.password
      /\ c.ssh = f.ssh /\ c.auth = f.auth /\ c.exec = f.exec
      /\ c.exec # "local" => c.secret = f.secret
  BY DEF Agree, FormFields
<1>2. Auth(c) = Auth(f)
  BY <1>1 DEF Auth
<1>3. Reachable(c) <=> Reachable(f)
  BY <1>1, <1>2 DEF Reachable, RequireConnection, RemoteIsComplete
<1>4. \A x, y : Local(c, x, y) = Local(f, x, y)
  BY <1>1 DEF Local
<1>5. c.exec # "local" => Remote(c, None, None) = Remote(f, None, None)
  BY <1>1, <1>2, <1>4 DEF Remote
<1>6. QED
  BY <1>1, <1>3, <1>4, <1>5 DEF AccountOf

(* The rows are as they were tested: the property of the runs.             *)
LEMMA TestedRowsConnect ==
    ASSUME TypeInv, RowsTested PROVE SourcesConnectAsTested
<1> SUFFICES ASSUME NEW s \in Sources, row[s] # None
             PROVE  LET test == Test([x \in FormFields \cup {"db"} |->
                               IF x = "db" THEN row[s].db ELSE tested[s][x]])
                    IN  IF row[s].mode = "automatic"
                        THEN /\ tested[s] # None
                             /\ test # None
                             /\ \A db \in Databases :
                                    Account(Dump(row[s], db)) = Account(test)
                             /\ Account(List(row[s])) = Account(test)
                        ELSE /\ List(row[s]) = None
                             /\ \A db \in Databases : Dump(row[s], db) = None
  BY DEF SourcesConnectAsTested
<1> DEFINE t == [x \in FormFields \cup {"db"} |->
                    IF x = "db" THEN row[s].db ELSE tested[s][x]]
<1>1. IsRow(row[s])
  BY AnyRowFields DEF TypeInv, SourcesTyped, Rows
<1>2. CASE row[s].mode = "automatic"
  <2>1. /\ tested[s] \in AnyForm /\ Reachable(tested[s])
        /\ Agree(row[s], tested[s])
    BY <1>2 DEF RowsTested, StoredAsTested
  <2>2. /\ \A x \in FormFields : t[x] = tested[s][x]
        /\ t.db = row[s].db
    BY DEF FormFields
  <2> HIDE DEF t
  <2>3. /\ t.mode = tested[s].mode /\ t.exec = tested[s].exec
        /\ t.dbType = tested[s].dbType /\ t.host = tested[s].host
    BY <2>2 DEF FormFields
  <2>4. IsRow(t)
    BY <1>1, <2>1, <2>2, <2>3, FormFieldsTyped DEF IsRow
  <2>5. Agree(row[s], t)
    BY <2>1, <2>2 DEF Agree
  <2>6. Reachable(row[s])
    BY <2>1, AgreeAccount
  <2>7. Reachable(t) /\ AccountOf(t) = AccountOf(row[s])
    BY <2>5, <2>6, AgreeAccount
  <2>8. Test(t) # None /\ Account(Test(t)) = AccountOf(row[s])
    BY <2>4, <2>7, TestAccount
  <2>9. /\ \A db \in Databases : Account(Dump(row[s], db)) = AccountOf(row[s])
        /\ Account(List(row[s])) = AccountOf(row[s])
    BY <1>1, <2>6, TestAccount, DumpAccount
  <2>10. tested[s] # None
    BY <2>1, ConstantsAssumption
  <2>11. QED
    BY <1>2, <2>8, <2>9, <2>10 DEF t
<1>3. CASE row[s].mode # "automatic"
  BY <1>1, <1>3, ManualConnectsNowhere
     DEF RowsTested, StoredAsTested
<1>4. QED
  BY <1>2, <1>3

-----------------------------------------------------------------------------
(* Types are kept.                                                         *)

LEMMA TypeInvInit == Init => TypeInv
<1> SUFFICES ASSUME Init PROVE TypeInv
  OBVIOUS
<1>1. row \in Rows /\ row = [s \in Sources |-> None]
  BY DEF Init, Rows
<1>2. SourcesTyped
  BY <1>1, BlankFormTyped, ConstantsAssumption
     DEF Init, SourcesTyped, Databases0, New, Closed, Rows
<1>3. PageTyped
  BY <1>1 DEF Init, PageTyped
<1>4. JobsTyped
  BY ConstantsAssumption DEF Init, JobsTyped, Databases0, New, Closed, Lists
<1>5. QED
  BY <1>2, <1>3, <1>4 DEF TypeInv

(* The form an edit starts from is the row without its secrets.            *)
LEMMA EditedFormTyped ==
    ASSUME NEW c \in AnyRow
    PROVE  [f \in FormFields |->
               IF f \in {"password", "secret"} THEN Blank ELSE c[f]] \in AnyForm
<1> DEFINE e == [f \in FormFields |->
                    IF f \in {"password", "secret"} THEN Blank ELSE c[f]]
<1>1. e \in [FormFields -> Texts]
  BY AnyRowFields DEF IsRow, Texts
<1>2. e.mode = c.mode /\ e.exec = c.exec /\ e.dbType = c.dbType /\ e.host = c.host
  BY DEF FormFields
<1>3. QED
  BY <1>1, <1>2, AnyRowFields DEF IsRow, AnyForm

(* Hosts that can be reached have databases that are known.                *)
LEMMA ListedDatabases ==
    ASSUME NEW h \in Hosts \cup {Blank}, h # Blank
    PROVE  DatabasesOf[h] \subseteq Databases
BY ConstantsAssumption

(* What was reachable names a host.                                        *)
LEMMA TestedHost ==
    ASSUME TypeInv, testing # None, Test(Tested(testing)) # None
    PROVE  /\ Reachable(Tested(testing))
           /\ testing.form.host \in Hosts /\ testing.form.host # Blank
<1> DEFINE t == Tested(testing)
           f == testing.form
<1>1. f \in AnyForm
  BY DEF TypeInv, SourcesTyped
<1>2. f.mode \in {"automatic", "manual"} /\ f.exec \in {"local", "remoteSsh"}
      /\ f.dbType \in {"mysql", "postgres", "mssql"} /\ f.host \in Hosts \cup {Blank}
  BY <1>1, FormFieldsTyped
<1>3. t.dbType = f.dbType /\ t.host = f.host /\ t.exec \in {f.exec, "local"}
  BY <1>1 DEF Tested, Normalized, FormFields, AnyForm
<1>4. Reachable(t)
  BY <1>2, <1>3, TestReachable
<1>5. t.host # Blank
  BY <1>4 DEF Reachable, RequireConnection
<1>6. QED
  BY <1>2, <1>3, <1>4, <1>5

LEMMA ListedHost ==
    ASSUME NEW c \in AnyRow, List(c) # None
    PROVE  DatabasesOf[c.host] \subseteq Databases
<1>1. /\ c.dbType \in {"mysql", "postgres", "mssql"}
      /\ c.exec \in {"local", "remoteSsh"} /\ c.host \in Hosts \cup {Blank}
  BY AnyRowFields DEF IsRow
<1>2. Reachable(c)
  BY <1>1, ConnectReachable DEF List, MysqlList, PostgresList, MssqlList
<1>3. c.host # Blank
  BY <1>2 DEF Reachable, RequireConnection
<1>4. QED
  BY <1>1, <1>3, ListedDatabases

(* Steps of the source dialog that store nothing leave the rows and the    *)
(* job dialog alone.                                                       *)
LEMMA JobsTypedFrame ==
    ASSUME JobsTyped, tab = "sources", tab' = tab, row' = row,
           UNCHANGED jobVars,
           editing' \in Sources => row[editing'] # None
    PROVE  JobsTyped'
BY DEF JobsTyped, jobVars

LEMMA SourcesTypedFrame ==
    ASSUME SourcesTyped, UNCHANGED << row, tested, sourceVars >>
    PROVE  SourcesTyped'
BY DEF SourcesTyped, sourceVars

LEMMA PageTypedFrame ==
    ASSUME PageTyped, UNCHANGED << row, had, shown, refreshing >>
    PROVE  PageTyped'
BY DEF PageTyped

(* A refresh after a save shows what is stored, or fails.                  *)
LEMMA PageTypedSave ==
    ASSUME PageTyped, row \in Rows, UNCHANGED << row, had >>, RefreshAfterSave
    PROVE  PageTyped'
BY DEF PageTyped, RefreshAfterSave

(* The dialogs are empty after a reset.                                    *)
LEMMA ResetTyped ==
    ASSUME ResetSourceDialog
    PROVE  /\ editing' = Closed /\ edited' = None
           /\ form' \in AnyForm /\ options' \subseteq Databases
           /\ selected' \in Databases0
           /\ signature' = None /\ passed' = None
BY BlankFormTyped DEF ResetSourceDialog, Databases0

(* The steps of the source dialog.                                         *)
SourceStep ==
    \/ OpenCreateSource
    \/ \E s \in Sources : OpenEditSource(s)
    \/ \E f \in Forms : FillIn(f)
    \/ \E db \in Databases : SelectDefault(db)
    \/ StartTest \/ TestPasses \/ TestFails
    \/ \E s \in Sources : SaveSource(s)
    \/ CloseSource

JobStep ==
    \/ \E s \in Sources : SelectSource(s)
    \/ \E s \in Sources, db \in Databases : OpenEditJob(s, db)
    \/ \E l \in loads : ListArrives(l) \/ ListFails(l)
    \/ \E db \in Databases : EnterName(db)
    \/ SaveJob \/ CloseJob

PageStep ==
    \/ Refresh
    \/ \E r \in refreshing : RefreshArrives(r) \/ RefreshFails(r)

LEMMA NextSteps ==
    Next => \/ SourceStep \/ JobStep \/ PageStep
            \/ \E to \in {"sources", "jobs"} : SwitchTab(to)
BY DEF Next, SourceStep, JobStep, PageStep

LEMMA PageStepTyped == ASSUME TypeInv, PageStep PROVE TypeInv'
<1> USE DEF TypeInv
<1>1. UNCHANGED << rowVars, tab, sourceVars, jobVars >>
  BY DEF PageStep, Refresh, RefreshArrives, RefreshFails
<1>2. SourcesTyped'
  BY <1>1, SourcesTypedFrame DEF rowVars
<1>3. JobsTyped'
  BY <1>1 DEF rowVars, sourceVars, jobVars, JobsTyped
<1>4. row' = row /\ had' = had /\ row \in Rows
  BY <1>1 DEF rowVars, SourcesTyped
<1>5. /\ refreshing' \cup {shown', row'} \subseteq refreshing \cup {shown, row}
      /\ refreshing' \subseteq Rows /\ shown' \in Rows
  BY <1>4 DEF PageStep, Refresh, RefreshArrives, RefreshFails, PageTyped
<1>6. PageTyped'
  BY <1>4, <1>5 DEF PageTyped
<1>7. QED
  BY <1>2, <1>3, <1>6

LEMMA SourceStepTyped == ASSUME TypeInv, SourceStep PROVE TypeInv'
<1> USE DEF TypeInv
<1>0. Closed \notin Sources /\ New \notin Sources /\ New # Closed
  BY ConstantsAssumption DEF New, Closed
<1>p. ASSUME UNCHANGED << rowVars, pageVars >> PROVE PageTyped'
  BY <1>p, PageTypedFrame DEF rowVars, pageVars
<1>1. CASE OpenCreateSource
  <2>1. SourcesTyped'
    BY <1>0, <1>1, BlankFormTyped DEF OpenCreateSource, SourcesTyped, rowVars, Databases0
  <2>2. JobsTyped'
    BY <1>1, ConstantsAssumption, JobsTypedFrame
       DEF OpenCreateSource, rowVars, New
  <2>3. PageTyped'
    BY <1>1, <1>p DEF OpenCreateSource
  <2>4. QED
    BY <2>1, <2>2, <2>3
<1>2. ASSUME NEW s \in Sources, OpenEditSource(s) PROVE TypeInv'
  <2>1. shown[s] \in AnyRow /\ row[s] # None /\ edited' = shown[s]
    BY <1>2 DEF OpenEditSource, PageTyped, Rows
  <2>2. form' \in AnyForm
    BY <1>2, <2>1, EditedFormTyped DEF OpenEditSource
  <2>3. shown[s].db \in Databases0
    BY <2>1, AnyRowFields DEF IsRow
  <2>4. SourcesTyped'
    BY <1>2, <2>1, <2>2, <2>3, ConstantsAssumption
       DEF OpenEditSource, SourcesTyped, rowVars, Databases0
  <2>5. JobsTyped'
    BY <1>2, <2>1, JobsTypedFrame DEF OpenEditSource, rowVars
  <2>6. PageTyped'
    BY <1>2, <1>p DEF OpenEditSource
  <2>7. QED
    BY <2>4, <2>5, <2>6
<1>3. ASSUME NEW f \in Forms, FillIn(f) PROVE TypeInv'
  <2>1. SourcesTyped'
    BY <1>3, ConstantsAssumption DEF FillIn, SourcesTyped, rowVars
  <2>2. tab = "sources"
    BY <1>3 DEF FillIn, JobsTyped
  <2>3. JobsTyped'
    BY <1>3, <2>2, JobsTypedFrame DEF FillIn, rowVars, JobsTyped
  <2>4. PageTyped'
    BY <1>3, <1>p DEF FillIn
  <2>5. QED
    BY <2>1, <2>3, <2>4
<1>4. ASSUME NEW db \in Databases, SelectDefault(db) PROVE TypeInv'
  <2>1. SourcesTyped'
    BY <1>4 DEF SelectDefault, SourcesTyped, rowVars, Databases0
  <2>2. tab = "sources"
    BY <1>4 DEF SelectDefault, JobsTyped
  <2>3. JobsTyped'
    BY <1>4, <2>2, JobsTypedFrame DEF SelectDefault, rowVars, JobsTyped
  <2>4. PageTyped'
    BY <1>4, <1>p DEF SelectDefault
  <2>5. QED
    BY <2>1, <2>3, <2>4
<1>5. CASE StartTest
  <2>1. SourcesTyped'
    BY <1>5 DEF StartTest, SourcesTyped, rowVars
  <2>2. tab = "sources"
    BY <1>5 DEF StartTest, JobsTyped
  <2>3. JobsTyped'
    BY <1>5, <2>2, JobsTypedFrame DEF StartTest, rowVars, JobsTyped
  <2>4. PageTyped'
    BY <1>5, <1>p DEF StartTest
  <2>5. QED
    BY <2>1, <2>3, <2>4
<1>6. CASE TestPasses
  <2>1. testing # None /\ testing.form \in AnyForm /\ testing.db \in Databases0
    BY <1>6 DEF TestPasses, SourcesTyped
  <2>2. DatabasesOf[testing.form.host] \subseteq Databases
    BY <1>6, TestedHost, ListedDatabases DEF TestPasses
  <2>3. options' \subseteq Databases /\ selected' \in Databases0
    BY <1>6, <2>1, <2>2 DEF TestPasses, Databases0
  <2>4. SourcesTyped'
    BY <1>6, <2>1, <2>3 DEF TestPasses, SourcesTyped, rowVars, Signature
  <2>5. JobsTyped'
    BY <1>6 DEF TestPasses, rowVars, jobVars, JobsTyped
  <2>6. PageTyped'
    BY <1>6, <1>p DEF TestPasses
  <2>7. QED
    BY <2>4, <2>5, <2>6
<1>7. CASE TestFails
  <2>1. SourcesTyped'
    BY <1>7 DEF TestFails, SourcesTyped, rowVars
  <2>2. JobsTyped'
    BY <1>7 DEF TestFails, rowVars, jobVars, JobsTyped
  <2>3. PageTyped'
    BY <1>7, <1>p DEF TestFails
  <2>4. QED
    BY <2>1, <2>2, <2>3
<1>8. ASSUME NEW s \in Sources, SaveSource(s) PROVE TypeInv'
  <2>1. PICK db \in Databases0 :
           /\ row' = [row EXCEPT ![s] = StoredRow(form, db, row[s])]
           /\ had' = [had EXCEPT ![s] = @ \cup {db}]
    BY <1>8 DEF SaveSource, Store, SourcesTyped
  <2>2. StoredRow(form, db, row[s]) \in AnyRow /\ StoredRow(form, db, row[s]).db = db
    BY StoredTyped, StoredFields DEF SourcesTyped, Rows
  <2>3. row' \in Rows
    BY <2>1, <2>2 DEF SourcesTyped, Rows
  <2>4. SourcesTyped'
    <3>1. tested' \in [Sources -> AnyForm \cup {None}]
      BY <1>8 DEF SaveSource, Store, SourcesTyped
    <3>2. CASE ResetSourceDialog /\ UNCHANGED testing
      BY <1>0, <2>3, <3>1, <3>2, ResetTyped DEF SourcesTyped
    <3>3. CASE UNCHANGED sourceVars
      BY <2>3, <3>1, <3>3 DEF sourceVars, SourcesTyped
    <3>4. QED
      BY <1>8, <3>2, <3>3 DEF SaveSource
  <2>5. loads = {} /\ chosen = None /\ filled = None /\ tab = "sources"
    BY <1>8 DEF SaveSource, JobsTyped
  <2>6. StoredRow(form, db, row[s]) # None
    BY <2>2, ConstantsAssumption
  <2>7. /\ \A x \in Sources : row[x] # None => row'[x] # None
        /\ \A x \in Sources : had[x] \subseteq had'[x]
        /\ \A x \in Sources : row'[x] # None => row'[x].db \in had'[x]
    BY <2>1, <2>2, <2>6 DEF SourcesTyped, PageTyped, Rows
  <2>8. JobsTyped'
    BY <1>0, <1>8, <2>5, <2>7
       DEF SaveSource, ResetSourceDialog, sourceVars, jobVars, JobsTyped
  <2>9. refreshing' = refreshing /\ shown' \in {shown, row'}
    BY <1>8 DEF SaveSource, RefreshAfterSave
  <2>10. had' \in [Sources -> SUBSET Databases0] /\ shown' \in Rows
    BY <2>1, <2>3, <2>9 DEF PageTyped
  <2>11. ASSUME NEW r \in refreshing' \cup {shown', row'}, NEW x \in Sources, r[x] # None
         PROVE  row'[x] # None /\ r[x].db \in had'[x]
    <3>1. CASE r = row'
      BY <2>7, <2>11, <3>1
    <3>2. CASE r \in refreshing \cup {shown, row}
      BY <2>7, <2>11, <3>2 DEF PageTyped
    <3>3. QED
      BY <2>9, <2>11, <3>1, <3>2
  <2>12. PageTyped'
    BY <2>9, <2>10, <2>11 DEF PageTyped
  <2>13. QED
    BY <2>4, <2>8, <2>12
<1>9. CASE CloseSource
  <2>1. SourcesTyped'
    BY <1>0, <1>9, ResetTyped DEF CloseSource, SourcesTyped, rowVars
  <2>2. JobsTyped'
    BY <1>0, <1>9 DEF CloseSource, ResetSourceDialog, rowVars, jobVars, JobsTyped
  <2>3. PageTyped'
    BY <1>9, <1>p DEF CloseSource
  <2>4. QED
    BY <2>1, <2>2, <2>3
<1>10. QED
  BY <1>1, <1>2, <1>3, <1>4, <1>5, <1>6, <1>7, <1>8, <1>9 DEF SourceStep

(* Asking for a list keeps the types.                                      *)
LEMMA LoadTyped ==
    ASSUME JobsTyped, NEW s \in Sources, NEW p \in Databases0, NEW k \in BOOLEAN,
           Load(s, p, k), row[s] # None, row' = row
    PROVE  /\ names' \subseteq Databases
           /\ loads' \subseteq Lists
           /\ loading' \in BOOLEAN
           /\ \A l \in loads' : row'[l.source] # None
BY DEF Load, JobsTyped, Lists, Databases0

(* What the job dialog's own steps leave to show.                          *)
LEMMA JobsTypedStep ==
    ASSUME JobsTyped, row' = row, UNCHANGED << tab, editing >>, tab = "jobs",
           chosen' \in Sources \cup {None},
           chosen' # None => row[chosen'] # None /\ filled' # None,
           name' \in Databases0, names' \subseteq Databases,
           loads' \subseteq Lists, \A l \in loads' : row[l.source] # None,
           loading' \in BOOLEAN, filled' \in Sources \cup {None}, byHand' \in BOOLEAN
    PROVE  JobsTyped'
<1>1. /\ chosen' # None => row'[chosen'] # None
      /\ \A l \in loads' : row'[l.source] # None
  OBVIOUS
<1>2. /\ tab' \in {"sources", "jobs"} /\ tab' = "jobs"
      /\ editing' # Closed => tab' = "sources"
      /\ editing' \in Sources => row'[editing'] # None
  BY DEF JobsTyped
<1>3. QED
  BY <1>1, <1>2 DEF JobsTyped

LEMMA JobStepTyped == ASSUME TypeInv, JobStep PROVE TypeInv'
<1> USE DEF TypeInv
<1>0. None \notin Sources /\ Blank \in Databases0 /\ Databases \subseteq Databases0
  BY ConstantsAssumption DEF Databases0
<1>1. UNCHANGED << rowVars, tab, sourceVars >>
  BY DEF JobStep, SelectSource, OpenEditJob, ListArrives, ListFails, EnterName,
         SaveJob, CloseJob, rowVars
<1>2. SourcesTyped'
  BY <1>1, SourcesTypedFrame DEF rowVars
<1>3. row' = row /\ had' = had /\ UNCHANGED << tab, editing >> /\ row \in Rows
  BY <1>1 DEF rowVars, sourceVars, SourcesTyped
<1>4. PageTyped'
  <2>1. CASE SaveJob
    BY <1>3, <2>1, PageTypedSave, PageTypedFrame DEF SaveJob
  <2>2. CASE UNCHANGED pageVars
    BY <1>3, <2>2, PageTypedFrame DEF pageVars
  <2>3. QED
    BY <2>1, <2>2 DEF JobStep, SelectSource, OpenEditJob, ListArrives, ListFails,
                      EnterName, CloseJob
<1>r. ASSUME ResetJobDialog
      PROVE  /\ chosen' = None /\ filled' = None /\ name' \in Databases0
             /\ names' \subseteq Databases /\ loading' \in BOOLEAN /\ byHand' \in BOOLEAN
  BY <1>0, <1>r DEF ResetJobDialog
<1>5. ASSUME NEW s \in Sources, SelectSource(s) PROVE JobsTyped'
  <2>1. /\ shown[s] # None /\ shown[s] \in AnyRow /\ row[s] # None
        /\ tab = "jobs" /\ chosen' = s /\ filled' = s /\ byHand' = FALSE
        /\ name' = shown[s].db
    BY <1>5 DEF SelectSource, PageTyped, Rows
  <2>2. name' \in Databases0
    BY <2>1, AnyRowFields DEF IsRow
  <2>3. /\ names' \subseteq Databases /\ loads' \subseteq Lists /\ loading' \in BOOLEAN
        /\ \A l \in loads' : row'[l.source] # None
    <3>1. CASE shown[s].mode = "manual"
      BY <1>3, <1>5, <3>1 DEF SelectSource, JobsTyped
    <3>2. CASE shown[s].mode # "manual"
      BY <1>3, <1>5, <2>1, <2>2, <3>2, LoadTyped DEF SelectSource
    <3>3. QED
      BY <3>1, <3>2
  <2>4. QED
    BY <1>0, <1>3, <2>1, <2>2, <2>3, JobsTypedStep
<1>6. ASSUME NEW s \in Sources, NEW db \in Databases, OpenEditJob(s, db) PROVE JobsTyped'
  <2>1. /\ row[s] # None /\ tab = "jobs" /\ chosen' = s /\ filled' = s
        /\ byHand' = TRUE /\ name' = db /\ Load(s, db, TRUE)
    BY <1>6 DEF OpenEditJob
  <2>2. /\ names' \subseteq Databases /\ loads' \subseteq Lists /\ loading' \in BOOLEAN
        /\ \A l \in loads' : row'[l.source] # None
    BY <1>0, <1>3, <2>1, LoadTyped
  <2>3. QED
    BY <1>0, <1>3, <2>1, <2>2, JobsTypedStep
<1>7. ASSUME NEW l \in loads, ListArrives(l) \/ ListFails(l) PROVE JobsTyped'
  <2>1. /\ l.source \in Sources /\ l.preferred \in Databases0 /\ l.kept \in BOOLEAN
        /\ row[l.source] # None /\ tab = "jobs"
    BY <1>7 DEF JobsTyped, Lists
  <2>2. names' \subseteq Databases /\ name' \in Databases0
    <3>1. CASE ListArrives(l)
      <4>1. row[l.source] \in AnyRow
        BY <1>3, <2>1 DEF Rows
      <4>2. DatabasesOf[row[l.source].host] \subseteq Databases
        BY <3>1, <4>1, ListedHost DEF ListArrives
      <4>3. QED
        BY <2>1, <3>1, <4>2 DEF ListArrives, Databases0
    <3>2. CASE ListFails(l)
      BY <2>1, <3>2 DEF ListFails, Databases0
    <3>3. QED
      BY <1>7, <3>1, <3>2
  <2>3. /\ loads' \subseteq loads /\ loading' \in BOOLEAN
        /\ filled' = l.source /\ byHand' = l.kept /\ chosen' = chosen
    BY <1>7 DEF ListArrives, ListFails
  <2>4. loads' \subseteq Lists /\ \A k \in loads' : row[k.source] # None
    BY <2>3 DEF JobsTyped
  <2>5. chosen' \in Sources \cup {None} /\ (chosen' # None => row[chosen'] # None)
    BY <2>3 DEF JobsTyped
  <2>6. QED
    BY <1>0, <1>3, <2>1, <2>2, <2>3, <2>4, <2>5, JobsTypedStep
<1>8. ASSUME NEW db \in Databases, EnterName(db) PROVE JobsTyped'
  <2>1. byHand' \in BOOLEAN
    BY <1>8 DEF EnterName, JobsTyped, OffersList
  <2>2. QED
    BY <1>0, <1>3, <1>8, <2>1 DEF EnterName, JobsTyped
<1>9. ASSUME SaveJob \/ CloseJob PROVE JobsTyped'
  <2>1. /\ chosen # None /\ loads' = loads
        /\ ResetJobDialog \/ UNCHANGED jobVars
    BY <1>9 DEF SaveJob, CloseJob, jobVars
  <2>2. CASE UNCHANGED jobVars
    BY <1>3, <2>2 DEF jobVars, JobsTyped
  <2>3. CASE ResetJobDialog
    <3>1. tab = "jobs" /\ loads' \subseteq Lists /\ \A l \in loads' : row[l.source] # None
      BY <2>1 DEF JobsTyped
    <3>2. QED
      BY <1>0, <1>3, <1>r, <2>3, <3>1, JobsTypedStep
  <2>4. QED
    BY <2>1, <2>2, <2>3
<1>10. QED
  BY <1>2, <1>4, <1>5, <1>6, <1>7, <1>8, <1>9 DEF JobStep

LEMMA SwitchTyped ==
    ASSUME TypeInv, NEW to \in {"sources", "jobs"}, SwitchTab(to)
    PROVE  TypeInv'
<1>1. Closed \notin Sources /\ Blank \in Databases0
  BY ConstantsAssumption DEF Databases0
<1>2. SourcesTyped'
  BY <1>1, ResetTyped DEF SwitchTab, rowVars, TypeInv, SourcesTyped
<1>3. JobsTyped'
  BY <1>1 DEF SwitchTab, ResetSourceDialog, ResetJobDialog, rowVars, TypeInv, JobsTyped
<1>4. PageTyped'
  BY PageTypedFrame DEF SwitchTab, rowVars, pageVars, TypeInv
<1>5. QED
  BY <1>2, <1>3, <1>4 DEF TypeInv

LEMMA TypeInvStep == ASSUME TypeInv, [Next]_vars PROVE TypeInv'
<1>1. CASE UNCHANGED vars
  <2>1. UNCHANGED << rowVars, pageVars, tab, sourceVars, jobVars >>
    BY <1>1 DEF vars
  <2>2. SourcesTyped' /\ PageTyped'
    BY <2>1, SourcesTypedFrame, PageTypedFrame DEF rowVars, pageVars, TypeInv
  <2>3. JobsTyped'
    BY <2>1 DEF rowVars, sourceVars, jobVars, TypeInv, JobsTyped
  <2>4. QED
    BY <2>2, <2>3 DEF TypeInv
<1>2. QED
  BY <1>1, NextSteps, SourceStepTyped, JobStepTyped, PageStepTyped, SwitchTyped

(* The variables always have their types; lists under way and an open      *)
(* dialog belong to the panel that is shown, and to sources that are       *)
(* stored; what the page shows of a source, or will when a refresh         *)
(* arrives, was stored once.                                               *)
THEOREM TypeCorrect == Spec => []TypeInv
BY TypeInvInit, TypeInvStep, PTL DEF Spec

-----------------------------------------------------------------------------
(* A signature stands for a form that passed.                              *)

LEMMA SignatureFrame ==
    ASSUME SignatureInv, UNCHANGED << options, selected, testing, signature, passed >>
    PROVE  SignatureInv'
BY DEF SignatureInv, Reachable

LEMMA SignatureReset ==
    ASSUME SignatureInv, testing' \in {testing, None}, signature' = None, passed' = None
    PROVE  SignatureInv'
BY DEF SignatureInv

(* A form that was sent to be tested is connected with as it is.           *)
LEMMA SentFormReachable ==
    ASSUME NEW t, t.form \in AnyForm, t.form.mode = "automatic", Reachable(Tested(t))
    PROVE  Reachable(t.form)
<1>1. \A x \in FormFields : Tested(t)[x] = t.form[x]
  BY DEF Tested, Normalized, FormFields
<1>2. Agree(Tested(t), t.form)
  BY <1>1 DEF Agree
<1>3. QED
  BY <1>2, AgreeAccount

LEMMA SignatureStep == ASSUME TypeInv, SignatureInv, [Next]_vars PROVE SignatureInv'
<1>1. CASE OpenCreateSource
  BY <1>1 DEF OpenCreateSource, SignatureInv, Reachable
<1>2. ASSUME NEW s \in Sources, OpenEditSource(s) \/ SaveSource(s)
      PROVE  SignatureInv'
  BY <1>2, SignatureReset, SignatureFrame
     DEF OpenEditSource, SaveSource, ResetSourceDialog, sourceVars
<1>3. ASSUME NEW f \in Forms, FillIn(f) PROVE SignatureInv'
  BY <1>3, SignatureReset DEF FillIn
<1>4. ASSUME NEW db \in Databases, SelectDefault(db) PROVE SignatureInv'
  BY <1>4 DEF SelectDefault, SignatureInv, Reachable
<1>5. CASE StartTest
  <2>1. Complete(form)
    BY <1>5 DEF StartTest, ValidForm, Complete
  <2>2. QED
    BY <1>5, <2>1 DEF StartTest, SignatureInv, Reachable
<1>6. CASE TestPasses
  <2>1. /\ testing # None /\ testing.form \in AnyForm /\ Complete(testing.form)
        /\ Test(Tested(testing)) # None
    BY <1>6 DEF TestPasses, SignatureInv, TypeInv, SourcesTyped
  <2>2. Reachable(testing.form)
    BY <2>1, TestedHost, SentFormReachable DEF Complete
  <2>3. /\ options' = DatabasesOf[testing.form.host]
        /\ selected' \in options' \cup {Blank}
        /\ signature' = testing.form /\ passed' = testing.form /\ testing' = None
    BY <1>6 DEF TestPasses, Signature
  <2>4. QED
    BY <2>1, <2>2, <2>3 DEF SignatureInv
<1>7. CASE TestFails
  BY <1>7 DEF TestFails, SignatureInv, Reachable
<1>8. CASE CloseSource
  BY <1>8, SignatureReset DEF CloseSource, ResetSourceDialog
<1>9. CASE JobStep \/ PageStep
  BY <1>9, SignatureFrame
     DEF PageStep, Refresh, RefreshArrives, RefreshFails, JobStep, SelectSource, OpenEditJob, ListArrives, ListFails, EnterName,
         SaveJob, CloseJob, sourceVars
<1>10. ASSUME NEW to \in {"sources", "jobs"}, SwitchTab(to) PROVE SignatureInv'
  BY <1>10, SignatureReset DEF SwitchTab, ResetSourceDialog
<1>11. CASE UNCHANGED vars
  BY <1>11, SignatureFrame DEF vars, sourceVars
<1>12. QED
  BY <1>1, <1>2, <1>3, <1>4, <1>5, <1>6, <1>7, <1>8, <1>9, <1>10, <1>11, NextSteps
     DEF SourceStep

-----------------------------------------------------------------------------
(* What is stored was tested.                                              *)

LEMMA SavedAsTested ==
    ASSUME TypeInv, SignatureInv, NEW s \in Sources, SaveSource(s)
    PROVE  /\ row' = [row EXCEPT ![s] = row'[s]]
           /\ tested' = [tested EXCEPT ![s] = passed]
           /\ StoredAsTested(row'[s], passed)
<1>1. PICK db : /\ row' = [row EXCEPT ![s] = StoredRow(form, db, row[s])]
                /\ form.mode # "manual" => db = selected
  BY DEF SaveSource, Store
<1>2. form \in AnyForm /\ row \in [Sources -> AnyRow \cup {None}]
  BY DEF TypeInv, SourcesTyped, Rows
<1>3. row'[s] = StoredRow(form, db, row[s])
  BY <1>1, <1>2
<1> DEFINE c == row'[s]
<1>4. /\ c.db = db
      /\ c.mode = form.mode /\ c.dbType = form.dbType /\ c.host = form.host
      /\ form.mode = "automatic" => c.exec = form.exec /\ c.user = form.user
                                    /\ c.auth = form.auth /\ c.ssh = form.ssh
      /\ form.mode = "manual" => c.exec = "local" /\ c.user = Blank
      /\ \A x \in {"password", "secret"} :
            c[x] = IF form[x] = Blank /\ row[s] # None THEN row[s][x] ELSE form[x]
  BY <1>2, <1>3, StoredFields
<1>5. form.mode \in {"automatic", "manual"} /\ form.exec \in {"local", "remoteSsh"}
  BY <1>2, FormFieldsTyped
<1> HIDE DEF c
<1>6. StoredAsTested(c, passed)
  <2>1. CASE form.mode = "manual"
    BY <1>4, <2>1 DEF StoredAsTested
  <2>2. CASE form.mode = "automatic"
    <3>1. passed = form
      BY <2>2 DEF SaveSource, SignatureInv, Signature
    <3>2. Complete(form) /\ Reachable(form)
          /\ selected \in DatabasesOf[form.host] \cup {Blank}
      BY <1>2, <3>1, ConstantsAssumption DEF SignatureInv
    <3>3. c.password = form.password /\ (form.exec = "remoteSsh" => c.secret = form.secret)
      BY <1>4, <3>2 DEF Complete
    <3>4. Agree(c, form)
      BY <1>4, <1>5, <2>2, <3>3 DEF Agree, FormFields
    <3>5. QED
      BY <1>1, <1>2, <1>4, <2>2, <3>1, <3>2, <3>4 DEF StoredAsTested
  <2>3. QED
    BY <1>5, <2>1, <2>2
<1>7. QED
  BY <1>1, <1>3, <1>6 DEF c, SaveSource, Store

LEMMA RowsStep ==
    ASSUME TypeInv, SignatureInv, RowsTested, [Next]_vars PROVE RowsTested'
<1>1. ASSUME NEW s \in Sources, SaveSource(s) PROVE RowsTested'
  <2>1. /\ row \in [Sources -> AnyRow \cup {None}]
        /\ tested \in [Sources -> AnyForm \cup {None}]
    BY DEF TypeInv, SourcesTyped, Rows
  <2>2. /\ row' = [row EXCEPT ![s] = row'[s]]
        /\ tested' = [tested EXCEPT ![s] = passed]
        /\ StoredAsTested(row'[s], passed)
    BY <1>1, SavedAsTested
  <2>3. \A x \in Sources \ {s} : row'[x] = row[x] /\ tested'[x] = tested[x]
    BY <2>1, <2>2
  <2>4. tested'[s] = passed
    BY <2>1, <2>2
  <2>5. QED
    BY <2>2, <2>3, <2>4 DEF RowsTested
<1>2. CASE UNCHANGED << row, tested >>
  BY <1>2 DEF RowsTested
<1>3. QED
  BY <1>1, <1>2
     DEF Next, vars, SwitchTab, Refresh, RefreshArrives, RefreshFails, OpenCreateSource,
         OpenEditSource, FillIn, SelectDefault, StartTest, TestPasses, TestFails,
         CloseSource, SelectSource, OpenEditJob,
         ListArrives, ListFails, EnterName, SaveJob, CloseJob, rowVars

RowsInv == TypeInv /\ SignatureInv /\ RowsTested

LEMMA RowsInvariant == Spec => []RowsInv
<1>1. Init => RowsInv
  <2>1. Init => SignatureInv /\ RowsTested
    BY DEF Init, SignatureInv, RowsTested
  <2>2. QED
    BY <2>1, TypeInvInit DEF RowsInv
<1>2. RowsInv /\ [Next]_vars => RowsInv'
  BY TypeInvStep, SignatureStep, RowsStep DEF RowsInv
<1>3. QED
  BY <1>1, <1>2, PTL DEF Spec

(* However tests, edits and closed dialogs followed each other, automatic  *)
(* sources are dumped and listed with the host, accounts and secrets of a  *)
(* test that passed, and manual ones connect nowhere.                      *)
THEOREM ConnectAsTested == Spec => []SourcesConnectAsTested
<1>1. RowsInv => SourcesConnectAsTested
  BY TestedRowsConnect DEF RowsInv
<1>2. QED
  BY <1>1, RowsInvariant, PTL

(* The default database of an automatic source was on the list of the host *)
(* it was tested on, whatever was selected before the test was answered.   *)
THEOREM DefaultsAreListed == Spec => []DefaultDatabaseListed
<1>1. RowsInv => DefaultDatabaseListed
  BY DEF RowsInv, RowsTested, StoredAsTested, DefaultDatabaseListed, Automatic
<1>2. QED
  BY <1>1, RowsInvariant, PTL

-----------------------------------------------------------------------------
(* What a job's dialog shows.                                              *)

LEMMA DialogFrame ==
    ASSUME DialogInv, UNCHANGED << row, had, jobVars >> PROVE DialogInv'
BY DEF jobVars, DialogInv, Own

(* The default database a source is shown with is one of its own.          *)
LEMMA DialogJobStep ==
    ASSUME TypeInv, DialogInv, JobStep PROVE DialogInv'
<1>0. None \notin Sources
  BY ConstantsAssumption
<1>1. row' = row /\ had' = had
  BY DEF JobStep, SelectSource, OpenEditJob, ListArrives, ListFails, EnterName,
         SaveJob, CloseJob, rowVars
<1>2. \A s : Own(s)' = Own(s)
  BY <1>1 DEF Own
<1>3. ASSUME NEW s \in Sources, SelectSource(s) PROVE DialogInv'
  <2>1. name' \in had[s] /\ filled' = s
    BY <1>3 DEF SelectSource, TypeInv, PageTyped
  <2>2. /\ \A l \in loads' : ~l.kept => l.preferred \in had[l.source]
        /\ names' \subseteq {name'}
    BY <1>3, <2>1 DEF SelectSource, Load, DialogInv
  <2>3. QED
    BY <1>1, <1>2, <2>1, <2>2 DEF DialogInv, Own
<1>4. ASSUME NEW s \in Sources, NEW db \in Databases, OpenEditJob(s, db) PROVE DialogInv'
  <2>1. \A l \in loads' : ~l.kept => l.preferred \in had[l.source]
    BY <1>4 DEF OpenEditJob, Load, DialogInv
  <2>2. byHand' = TRUE
    BY <1>4 DEF OpenEditJob
  <2>3. QED
    BY <1>1, <2>1, <2>2 DEF DialogInv
<1>5. ASSUME NEW l \in loads, ListArrives(l) \/ ListFails(l) PROVE DialogInv'
  <2>1. loads' \subseteq loads /\ filled' = l.source /\ byHand' = l.kept
    BY <1>5 DEF ListArrives, ListFails
  <2>2. \A k \in loads' : ~k.kept => k.preferred \in had[k.source]
    BY <2>1 DEF DialogInv
  <2>3. ASSUME ~l.kept
        PROVE  name' \in Own(l.source) \cup {Blank} /\ names' \subseteq Own(l.source)
    <3>1. l.preferred \in had[l.source]
      BY <2>3 DEF DialogInv
    <3>2. CASE ListArrives(l)
      BY <3>1, <3>2 DEF ListArrives, Own
    <3>3. CASE ListFails(l)
      BY <3>1, <3>3 DEF ListFails, Own
    <3>4. QED
      BY <1>5, <3>2, <3>3
  <2>4. QED
    BY <1>1, <1>2, <2>1, <2>2, <2>3 DEF DialogInv
<1>6. ASSUME NEW db \in Databases, EnterName(db) PROVE DialogInv'
  <2>1. /\ UNCHANGED << chosen, filled, names, loads >>
        /\ name' = db /\ (OffersList => db \in names)
        /\ byHand' = (byHand \/ ~OffersList)
    BY <1>6 DEF EnterName
  <2>2. ~byHand' => ~byHand /\ db \in names
    BY <2>1
  <2>3. QED
    BY <1>1, <1>2, <2>1, <2>2 DEF DialogInv
<1>7. CASE SaveJob \/ CloseJob
  <2>1. loads' = loads /\ (filled' = None \/ UNCHANGED jobVars)
    BY <1>7 DEF SaveJob, CloseJob, ResetJobDialog, jobVars
  <2>2. CASE UNCHANGED jobVars
    BY <1>1, <2>2, DialogFrame
  <2>3. CASE filled' = None
    BY <1>1, <2>1, <2>3 DEF DialogInv
  <2>4. QED
    BY <2>1, <2>2, <2>3
<1>8. QED
  BY <1>3, <1>4, <1>5, <1>6, <1>7 DEF JobStep

LEMMA DialogStep == ASSUME TypeInv, DialogInv, [Next]_vars PROVE DialogInv'
<1>1. ASSUME NEW s \in Sources, SaveSource(s) PROVE DialogInv'
  <2>1. loads' = {} /\ filled' = None
    BY <1>1 DEF SaveSource, jobVars, TypeInv, JobsTyped
  <2>2. QED
    BY <2>1 DEF DialogInv
<1>2. ASSUME NEW to \in {"sources", "jobs"}, SwitchTab(to) PROVE DialogInv'
  BY <1>2 DEF SwitchTab, ResetJobDialog, DialogInv
<1>3. CASE UNCHANGED << rowVars, jobVars >>
  BY <1>3, DialogFrame DEF rowVars
<1>4. CASE JobStep
  BY <1>4, DialogJobStep
<1>5. QED
  BY <1>1, <1>2, <1>3, <1>4, NextSteps
     DEF SourceStep, PageStep, Refresh, RefreshArrives, RefreshFails, vars,
         OpenCreateSource, OpenEditSource, FillIn, SelectDefault, StartTest,
         TestPasses, TestFails, CloseSource

(* A job is saved with a database that was typed or kept by the user, or   *)
(* that its dialog's last source has, or has or had as its default,        *)
(* however answers and refreshes come late, fail or are lost.              *)
THEOREM JobDatabasesExplained == Spec => JobDatabaseExplained
<1>1. Init => TypeInv /\ DialogInv
  <2>1. Init => DialogInv
    BY DEF Init, DialogInv
  <2>2. QED
    BY <2>1, TypeInvInit
<1>2. TypeInv /\ DialogInv /\ [Next]_vars => (TypeInv /\ DialogInv)'
  BY TypeInvStep, DialogStep
<1>3. ASSUME TypeInv, DialogInv, SaveJob
      PROVE  byHand \/ name \in DatabasesOf[row[filled].host] \cup had[filled]
  <2>1. chosen # None /\ name # Blank
    BY <1>3 DEF SaveJob
  <2>2. filled # None
    BY <1>3, <2>1 DEF TypeInv, JobsTyped
  <2>3. QED
    BY <1>3, <2>1, <2>2 DEF DialogInv, Own
<1>4. QED
  BY <1>1, <1>2, <1>3, PTL DEF Spec, JobDatabaseExplained

=============================================================================
