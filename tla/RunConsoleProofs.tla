-------------------------- MODULE RunConsoleProofs --------------------------
(***************************************************************************)
(* Theorems about RunConsole, for any number of runs and any length of the *)
(* server's list.                                                          *)
(***************************************************************************)
EXTENDS RunConsole, TLAPS

(* What the page knows of the run it polls: an answer that says it is      *)
(* closed stays true, and no run is polled but the active one.             *)
PollInv ==
    /\ run \in [Runs -> {"none", "open", "closed"}]
    /\ active \in Runs \cup {None}
    /\ posting \in Runs \cup {None}
    /\ poll \in {"off", "timer", "asked", "answered"}
    /\ poll # "off" => active \in Runs
    /\ poll = "answered" /\ polled = "closed" => run[active] = "closed"
    /\ PollsUntilClosed

(* The logs shown are explained even while nobody is logged in.            *)
ShownInv == shown \in {None, selected} \/ unloaded \/ overtaken

-----------------------------------------------------------------------------
(* A closed run stays closed in every step of the server.                  *)
LEMMA ClosedStays ==
    ASSUME PollInv, NEW r \in Runs, Create(r) \/ CloseRun(r)
    PROVE  /\ run' \in [Runs -> {"none", "open", "closed"}]
           /\ \A s \in Runs : run[s] = "closed" => run'[s] = "closed"
BY DEF PollInv, Create, CloseRun

(* A step that leaves the poll alone.                                      *)
LEMMA PollFrame ==
    ASSUME PollInv, UNCHANGED << loggedIn, active, poll, polled >>,
           posting' \in Runs \cup {None},
           run' \in [Runs -> {"none", "open", "closed"}],
           \A s \in Runs : run[s] = "closed" => run'[s] = "closed"
    PROVE  PollInv'
BY DEF PollInv, PollsUntilClosed

LEMMA PollInvStep == ASSUME PollInv, [Next]_vars PROVE PollInv'
<1> USE ConstantsAssumption DEF server, viewer, poller
<1>1. ASSUME NEW r \in Runs,
             ScheduleRun(r) \/ CloseRun(r) \/ Post(r)
      PROVE  PollInv'
  BY <1>1, ClosedStays, PollFrame DEF ScheduleRun, CloseRun, Post, PollInv
<1>2. ASSUME NEW r \in Runs,
             OpenLogs(r) \/ ViewRun(r) \/ LogsArrive(r) \/ LogsFail(r)
      PROVE  PollInv'
  BY <1>2, PollFrame DEF OpenLogs, ViewRun, LogsArrive, LogsFail, PollInv
<1>3. CASE Leave
  BY <1>3, PollFrame DEF Leave, PollInv
<1>4. ASSUME NEW manual \in BOOLEAN, PostAnswered(manual) PROVE PollInv'
  BY <1>4 DEF PostAnswered, PollInv, PollsUntilClosed
<1>5. ASSUME NEW q \in refreshes, RefreshRead(q) \/ RefreshArrives(q) \/ RefreshFails(q)
      PROVE  PollInv'
  BY <1>5, PollFrame DEF RefreshRead, RefreshArrives, RefreshFails, PollInv
<1>6. CASE PollAsks
  BY <1>6 DEF PollAsks, PollInv, PollsUntilClosed
<1>7. CASE PollRead
  BY <1>7 DEF PollRead, StatusInList, PollInv, PollsUntilClosed
<1>8. CASE PollArrives
  BY <1>8 DEF PollArrives, PollInv, PollsUntilClosed
<1>9. CASE PollFails
  BY <1>9 DEF PollFails, PollInv, PollsUntilClosed
<1>10. CASE LogOut
  BY <1>10 DEF LogOut, PollInv, PollsUntilClosed
<1>11. CASE LogIn
  BY <1>11 DEF LogIn, PollInv, PollsUntilClosed
<1>12. CASE UNCHANGED vars
  BY <1>12 DEF vars, PollInv, PollsUntilClosed
<1>13. QED
  BY <1>1, <1>2, <1>3, <1>4, <1>5, <1>6, <1>7, <1>8, <1>9, <1>10, <1>11, <1>12
     DEF Next

(* Polling ends only when the active run is closed in the database.        *)
THEOREM PollingEndsRightly == Spec => []PollsUntilClosed
<1>1. Init => PollInv
  BY ConstantsAssumption DEF Init, PollInv, PollsUntilClosed
<1>2. PollInv => PollsUntilClosed
  BY DEF PollInv
<1>3. QED
  BY <1>1, <1>2, PollInvStep, PTL DEF Spec

-----------------------------------------------------------------------------
(* Selecting a run and showing logs keep the explanation.                  *)
LEMMA LoadExplains == ASSUME NEW r, NEW s, Load(r, s) PROVE ShownInv'
BY DEF Load, ShownInv

LEMMA ShowExplains ==
    ASSUME NEW r, Show(r), selected' = selected PROVE ShownInv'
BY DEF Show, ShownInv

LEMMA ViewerFrame ==
    ASSUME ShownInv, UNCHANGED << selected, shown, unloaded, overtaken >>
    PROVE  ShownInv'
BY DEF ShownInv

LEMMA ShownInvStep == ASSUME ShownInv, [Next]_vars PROVE ShownInv'
<1> USE DEF viewer
<1>1. ASSUME NEW r \in Runs,
             ScheduleRun(r) \/ CloseRun(r) \/ Post(r) \/ LogsFail(r)
      PROVE  ShownInv'
  BY <1>1, ViewerFrame DEF ScheduleRun, CloseRun, Post, LogsFail
<1>2. ASSUME NEW r \in Runs, OpenLogs(r) \/ ViewRun(r) PROVE ShownInv'
  BY <1>2, LoadExplains DEF OpenLogs, ViewRun
<1>3. ASSUME NEW r \in Runs, LogsArrive(r) PROVE ShownInv'
  BY <1>3, ShowExplains DEF LogsArrive
<1>4. ASSUME NEW manual \in BOOLEAN, PostAnswered(manual) PROVE ShownInv'
  BY <1>4 DEF PostAnswered, ShownInv
<1>5. ASSUME NEW q, GoToRun(q) PROVE ShownInv'
  BY <1>5, LoadExplains, ViewerFrame DEF GoToRun
<1>6. ASSUME NEW q \in refreshes, RefreshRead(q) \/ RefreshArrives(q) \/ RefreshFails(q)
      PROVE  ShownInv'
  BY <1>5, <1>6, ViewerFrame DEF RefreshRead, RefreshArrives, RefreshFails
<1>7. CASE PollArrives
  BY <1>7, ShowExplains DEF PollArrives
<1>8. CASE PollAsks \/ PollRead \/ PollFails \/ Leave \/ UNCHANGED vars
  BY <1>8, ViewerFrame DEF PollAsks, PollRead, PollFails, Leave, vars
<1>9. CASE LogOut
  BY <1>9 DEF LogOut, ShownInv
<1>10. CASE LogIn
  BY <1>10, LoadExplains, ViewerFrame DEF LogIn
<1>11. QED
  BY <1>1, <1>2, <1>3, <1>4, <1>6, <1>7, <1>8, <1>9, <1>10 DEF Next

(* Logs of a run that is not selected are shown only for the two reasons.  *)
THEOREM ShownLogsExplained == Spec => []LogsShownExplained
<1>1. Init => ShownInv
  BY DEF Init, ShownInv
<1>2. ShownInv => LogsShownExplained
  BY DEF ShownInv, LogsShownExplained
<1>3. QED
  BY <1>1, <1>2, ShownInvStep, PTL DEF Spec


-----------------------------------------------------------------------------
(* What the page assumes of the runs is a RunHistory: what both executors  *)
(* provide.                                                                *)
THEOREM ServerIsHistory == Spec => History!Spec
<1>1. Init => History!Init
  BY DEF Init, History!Init
<1>2. [Next]_vars => [History!Next]_run
  <2> USE DEF server
  <2>1. ASSUME NEW r \in Runs, ScheduleRun(r) \/ CloseRun(r) \/ Post(r)
        PROVE  History!Next
    BY <2>1 DEF ScheduleRun, Post, Create, CloseRun, History!Next, History!Enter
  <2>2. ASSUME ~\E r \in Runs : ScheduleRun(r) \/ CloseRun(r) \/ Post(r), [Next]_vars
        PROVE  run' = run
    BY <2>2 DEF Next, OpenLogs, ViewRun, LogsArrive, LogsFail, Leave, PostAnswered,
                RefreshRead, RefreshArrives, RefreshFails, PollAsks, PollRead,
                PollArrives, PollFails, LogOut, LogIn, vars
  <2>3. QED
    BY <2>1, <2>2
<1>3. QED
  BY <1>1, <1>2, PTL DEF Spec, History!Spec

-----------------------------------------------------------------------------
(* Types, and the runs the page refers to.                                 *)
Status == {"none", "open", "closed"}
Refreshes == [for : Runs, manual : BOOLEAN, status : Status \cup {None}]

TypeInv ==
    /\ run \in [Runs -> Status]
    /\ created \in Seq(Runs)
    /\ loggedIn \in BOOLEAN /\ unloaded \in BOOLEAN /\ overtaken \in BOOLEAN
    /\ {active, selected, shown, url, posting} \subseteq Runs \cup {None}
    /\ poll \in {"off", "timer", "asked", "answered"}
    /\ poll # "off" => active # None
    /\ polled \in Status \cup {None}
    /\ refreshes \subseteq Refreshes
    /\ loads \subseteq Runs

Stored == {r \in Runs : run[r] # "none"}

(* The server lists every run once.                                        *)
CreatedOnce ==
    /\ \A i \in DOMAIN created : created[i] \in Stored
    /\ \A i, k \in DOMAIN created : created[i] = created[k] => i = k
    /\ \A r \in Stored : \E i \in DOMAIN created : created[i] = r

(* What the page polls, shows, asks for or has in its address is a run of  *)
(* the server, after a logout and for answers that are late, too.          *)
RefersToStored ==
    /\ {active, selected, shown, url, posting} \subseteq Stored \cup {None}
    /\ loads \subseteq Stored
    /\ \A q \in refreshes : q.for \in Stored

LEMMA TypeInvInit == Init => TypeInv /\ RefersToStored /\ CreatedOnce
<1> SUFFICES ASSUME Init PROVE TypeInv /\ RefersToStored /\ CreatedOnce
  OBVIOUS
<1>1. created \in Seq(Runs) /\ DOMAIN created = {} /\ Stored = {}
  BY DEF Init, Stored
<1>2. QED
  BY <1>1 DEF Init, TypeInv, Status, RefersToStored, CreatedOnce

LEMMA StatusTyped ==
    ASSUME TypeInv, NEW r \in Runs
    PROVE  StatusInList(r) \in Status
BY DEF TypeInv, StatusInList, Status

(* A new selection and a late answer are runs the page referred to already. *)
LEMMA LoadTyped ==
    ASSUME TypeInv, RefersToStored, NEW r \in Stored, NEW s \in Stored, Load(r, s)
    PROVE  /\ selected' \in Stored /\ shown' = shown
           /\ loads' \subseteq Stored
           /\ unloaded' \in BOOLEAN /\ overtaken' \in BOOLEAN
BY DEF TypeInv, RefersToStored, Load

LEMMA AddressedTyped ==
    ASSUME RefersToStored, NEW r \in Stored
    PROVE  Addressed(r) \in Stored
BY DEF RefersToStored, Addressed

(* Creating and closing keep the list right and lose no run.               *)
LEMMA ServerSteps ==
    ASSUME TypeInv, CreatedOnce, NEW r \in Runs, Create(r) \/ CloseRun(r)
    PROVE  /\ run' \in [Runs -> Status] /\ created' \in Seq(Runs)
           /\ CreatedOnce'
           /\ Stored \subseteq Stored' /\ r \in Stored'
<1>1. CASE CloseRun(r)
  BY <1>1 DEF TypeInv, CreatedOnce, CloseRun, Stored, Status
<1>2. CASE Create(r)
  <2>1. /\ run' \in [Runs -> Status]
        /\ Stored' = Stored \cup {r} /\ r \notin Stored
    BY <1>2 DEF TypeInv, Create, Stored, Status
  <2>2. /\ created' \in Seq(Runs)
        /\ Len(created) \in Nat
        /\ DOMAIN created = 1 .. Len(created)
        /\ DOMAIN created' = 1 .. Len(created) + 1
        /\ \A i \in DOMAIN created : created'[i] = created[i]
        /\ created'[Len(created) + 1] = r
    BY <1>2 DEF TypeInv, Create
  <2>3. \A i \in DOMAIN created' : i \in DOMAIN created \/ i = Len(created) + 1
    BY <2>2
  <2>4. \A i \in DOMAIN created' : created'[i] \in Stored'
    BY <2>1, <2>2, <2>3 DEF CreatedOnce
  <2>5. \A i, k \in DOMAIN created' : created'[i] = created'[k] => i = k
    BY <2>1, <2>2, <2>3 DEF CreatedOnce
  <2>6. \A q \in Stored' : \E i \in DOMAIN created' : created'[i] = q
    <3> SUFFICES ASSUME NEW q \in Stored' PROVE \E i \in DOMAIN created' : created'[i] = q
      OBVIOUS
    <3>1. CASE q = r
      BY <3>1, <2>2
    <3>2. CASE q # r
      <4>1. PICK i \in DOMAIN created : created[i] = q
        BY <3>2, <2>1 DEF CreatedOnce
      <4>2. i \in DOMAIN created' /\ created'[i] = q
        BY <4>1, <2>2
      <4>3. QED
        BY <4>2
    <3>3. QED
      BY <3>1, <3>2
  <2>7. QED
    BY <2>1, <2>2, <2>4, <2>5, <2>6 DEF CreatedOnce
<1>3. QED
  BY <1>1, <1>2

(* A step of the page has to be looked at only for what the page holds.     *)
PageTyped ==
    /\ loggedIn \in BOOLEAN /\ unloaded \in BOOLEAN /\ overtaken \in BOOLEAN
    /\ {active, selected, shown, url, posting} \subseteq Stored \cup {None}
    /\ poll \in {"off", "timer", "asked", "answered"}
    /\ poll # "off" => active # None
    /\ polled \in Status \cup {None}
    /\ refreshes \subseteq Refreshes
    /\ \A q \in refreshes : q.for \in Stored
    /\ loads \subseteq Stored

LEMMA PageStep ==
    ASSUME TypeInv, RefersToStored, [Next]_vars,
           ~\E r \in Runs : ScheduleRun(r) \/ CloseRun(r) \/ Post(r)
    PROVE  UNCHANGED server /\ PageTyped'
<1> USE ConstantsAssumption DEF server, viewer, poller
<1>0. /\ PageTyped /\ None \notin Stored
      /\ UNCHANGED server => Stored' = Stored
  BY DEF TypeInv, RefersToStored, PageTyped, Stored
<1>1. ASSUME NEW r \in Runs, OpenLogs(r)
      PROVE  UNCHANGED server /\ PageTyped'
  <2>1. r \in Stored /\ Addressed(r) \in Stored
    BY <1>1, AddressedTyped DEF OpenLogs, Stored
  <2>2. QED
    BY <1>0, <1>1, <2>1, LoadTyped DEF OpenLogs, PageTyped
<1>2. ASSUME NEW r \in Runs, ViewRun(r)
      PROVE  UNCHANGED server /\ PageTyped'
  <2>1. r \in Stored
    BY <1>2 DEF ViewRun, Stored
  <2>2. QED
    BY <1>0, <1>2, <2>1, LoadTyped DEF ViewRun, PageTyped
<1>3. ASSUME NEW r \in Runs, LogsArrive(r) \/ LogsFail(r)
      PROVE  UNCHANGED server /\ PageTyped'
  BY <1>0, <1>3 DEF LogsArrive, LogsFail, Show, PageTyped
<1>4. CASE Leave
  BY <1>0, <1>4 DEF Leave, PageTyped
<1>5. ASSUME NEW manual \in BOOLEAN, PostAnswered(manual)
      PROVE  UNCHANGED server /\ PageTyped'
  <2>1. posting \in Stored /\ posting \in Runs
    BY <1>0, <1>5 DEF PostAnswered, PageTyped, Stored
  <2>2. Addressed(posting) \in Stored
    BY <2>1, AddressedTyped
  <2>3. [for |-> posting, manual |-> manual, status |-> None] \in Refreshes
    BY <2>1 DEF Refreshes
  <2>4. /\ refreshes' \subseteq Refreshes
        /\ \A q \in refreshes' : q.for \in Stored
    BY <1>0, <1>5, <2>1, <2>3 DEF PostAnswered, PageTyped
  <2>5. QED
    BY <1>0, <1>5, <2>1, <2>2, <2>4 DEF PostAnswered, PageTyped
<1>6. ASSUME NEW q \in refreshes, RefreshRead(q)
      PROVE  UNCHANGED server /\ PageTyped'
  <2> DEFINE p == [q EXCEPT !.status = StatusInList(q.for)]
  <2>1. q \in Refreshes /\ q.for \in Stored /\ q.for \in Runs
    BY <1>0 DEF PageTyped, Stored
  <2>2. p \in Refreshes /\ p.for = q.for
    BY <2>1, StatusTyped DEF Refreshes
  <2>3. QED
    BY <1>0, <1>6, <2>1, <2>2 DEF RefreshRead, PageTyped
<1>7. ASSUME NEW q \in refreshes, RefreshArrives(q) \/ RefreshFails(q)
      PROVE  UNCHANGED server /\ PageTyped'
  <2>1. q.for \in Stored
    BY <1>0 DEF PageTyped
  <2>2. /\ UNCHANGED << server, loggedIn, active, posting, poller >>
        /\ refreshes' = refreshes \ {q}
    BY <1>7 DEF RefreshArrives, RefreshFails
  <2>3. CASE GoToRun(q)
    BY <1>0, <2>1, <2>2, <2>3, LoadTyped DEF GoToRun, PageTyped
  <2>4. CASE ~GoToRun(q)
    BY <1>0, <1>7, <2>1, <2>2, <2>4 DEF RefreshArrives, RefreshFails, PageTyped
  <2>5. QED
    BY <2>3, <2>4
<1>8. CASE PollAsks \/ PollFails
  BY <1>0, <1>8 DEF PollAsks, PollFails, PageTyped
<1>9. CASE PollRead
  <2>1. active \in Runs
    BY <1>0, <1>9 DEF PollRead, PageTyped, Stored
  <2>2. QED
    BY <1>0, <1>9, <2>1, StatusTyped DEF PollRead, PageTyped
<1>10. CASE PollArrives
  BY <1>0, <1>10 DEF PollArrives, Show, PageTyped
<1>11. CASE LogOut
  BY <1>0, <1>11 DEF LogOut, PageTyped
<1>12. CASE LogIn
  <2>1. url \notin {None, selected} => url \in Stored
    BY <1>0 DEF PageTyped
  <2>2. QED
    BY <1>0, <1>12, <2>1, LoadTyped DEF LogIn, PageTyped
<1>13. CASE UNCHANGED vars
  BY <1>0, <1>13 DEF vars, PageTyped
<1>14. QED
  BY <1>1, <1>2, <1>3, <1>4, <1>5, <1>6, <1>7, <1>8, <1>9, <1>10, <1>11, <1>12, <1>13
     DEF Next

LEMMA TypeInvStep ==
    ASSUME TypeInv, RefersToStored, CreatedOnce, [Next]_vars
    PROVE  (TypeInv /\ RefersToStored /\ CreatedOnce)'
<1> USE DEF server, viewer, poller
<1>1. ASSUME NEW r \in Runs, ScheduleRun(r) \/ CloseRun(r) \/ Post(r)
      PROVE  (TypeInv /\ RefersToStored /\ CreatedOnce)'
  <2>1. /\ run' \in [Runs -> Status] /\ created' \in Seq(Runs)
        /\ CreatedOnce'
        /\ Stored \subseteq Stored' /\ r \in Stored'
    BY <1>1, ServerSteps DEF ScheduleRun, Post
  <2>2. /\ UNCHANGED << viewer, loggedIn, active, url, poller, refreshes >>
        /\ posting' \in {posting, r}
    BY <1>1 DEF ScheduleRun, CloseRun, Post
  <2>3. QED
    BY <2>1, <2>2 DEF TypeInv, RefersToStored
<1>2. CASE ~\E r \in Runs : ScheduleRun(r) \/ CloseRun(r) \/ Post(r)
  <2>1. UNCHANGED server /\ PageTyped'
    BY <1>2, PageStep
  <2>2. CreatedOnce' /\ Stored' = Stored
    BY <2>1 DEF CreatedOnce, Stored
  <2>3. QED
    BY <2>1, <2>2 DEF PageTyped, TypeInv, RefersToStored, Stored
<1>3. QED
  BY <1>1, <1>2

LEMMA TypeInvariant == Spec => [](TypeInv /\ RefersToStored /\ CreatedOnce)
BY TypeInvInit, TypeInvStep, PTL DEF Spec

(* The variables always have their types.                                  *)
THEOREM TypeCorrect == Spec => []TypeInv
BY TypeInvariant, PTL

(* The server lists every run once, and what the page polls, shows, asks   *)
(* for or has in its address is one of them, however late answers come and *)
(* whoever logs out in between.                                            *)
THEOREM RunsAreKnown == Spec => [](RefersToStored /\ CreatedOnce)
BY TypeInvariant, PTL
=============================================================================
