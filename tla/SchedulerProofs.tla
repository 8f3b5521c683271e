-------------------------- MODULE SchedulerProofs --------------------------
(***************************************************************************)
(* Theorems about Scheduler, for any number of jobs and of requests, with  *)
(* refused schedules, failing calls, dropped handlers and restarts.        *)
(***************************************************************************)
EXTENDS Scheduler, TLAPS, FiniteSetTheorems, SequenceTheorems

-----------------------------------------------------------------------------
(* The parts of the inductive invariant.                                   *)

(* The mutex is held by the one caller that is in reload().                *)
Reloading(c) == pc[c] \in {"removing", "list", "add", "adding"}
Mutex == \A c \in Callers : Reloading(c) <=> lock = c

(* The rows that were created are in `created', each once.                 *)
CreatedOnce ==
    /\ \A j \in Jobs :
          rows[j].state # "new" <=> \E i \in DOMAIN created : created[i] = j
    /\ \A i, k \in DOMAIN created : created[i] = created[k] => i = k

(* The entries the library has or will have, and those of them the program *)
(* can still remove: their ids are in its list, or a caller waits for the  *)
(* library's answer about them.                                            *)
AllEntries == entries \cup additions
Live       == {e \in AllEntries : e.lost = 0}

Listed(i) == \E k \in DOMAIN scheduledJobs : scheduledJobs[k] = i
Awaited(i) == \E c \in Callers : pc[c] \in {"removing", "adding"} /\ id[c] = i

Numbered ==
    /\ IsFiniteSet(UsedIds)
    /\ entries \cap additions = {}
    /\ \A d, e \in AllEntries : d.id = e.id => d = e
    /\ \A e \in AllEntries : e.lost <= breaks

Remembers ==
    /\ \A e \in AllEntries : e.lost = 0 <=> Listed(e.id) \/ Awaited(e.id)
    /\ \A i \in DOMAIN scheduledJobs :
          /\ scheduledJobs[i] \notin removals
          /\ \E e \in entries : e.id = scheduledJobs[i]
    /\ \A i, k \in DOMAIN scheduledJobs :
          scheduledJobs[i] = scheduledJobs[k] => i = k
    /\ \A c \in Callers :
          /\ pc[c] = "removing" => \A e \in additions : e.id # id[c]
          /\ pc[c] = "adding" =>
                /\ id[c] \notin removals /\ ~Listed(id[c])
                /\ \E e \in AllEntries : e.id = id[c]

(* What a reload has still to add has no entry yet.                        *)
Progress ==
    /\ \A c \in Callers :
          /\ pc[c] \notin {"add", "adding"} => todo[c] = {}
          /\ pc[c] = "list" => Live = {}
          /\ \A r \in todo[c] :
                /\ \A e \in Live : e.job # r.job
                /\ \A s \in todo[c] : s.job = r.job => s = r
    /\ \A d, e \in AllEntries : d.job = e.job /\ d.lost = e.lost => d = e

(* The jobs that have an entry or are to get one, and the version of each. *)
Planned ==
    {<< e.job, e.ver >> : e \in Live} \cup
    {<< r.job, r.ver >> : r \in UNION {todo[c] : c \in Callers}}

(* What a request wrote is not newer than what is planned, once it has     *)
(* listed the table.                                                       *)
Current(q) ==
    \A p \in Planned : p[1] = written[q].job => p[2] >= written[q].ver

Effective ==
    \A q \in Requests :
        /\ written[q].job \in Jobs => written[q].ver <= rows[written[q].job].ver
        /\ pc[q] \in {"add", "adding", "ok"} => Current(q)

(* A row whose state is not the planned one has a caller on its way to     *)
(* list the table.                                                         *)
Reflected(j) ==
    \A v \in Nat : << j, v >> \in Planned <=> Scheduled(j) /\ v = rows[j].ver

Synced ==
    /\ up => started
    /\ ~stale /\ (\A c \in Callers : pc[c] \notin {"lock", "removing", "list"}) =>
          \A j \in Jobs :
              \/ Reflected(j)
              \/ \E q \in Requests : /\ pc[q] = "reread" /\ written[q].job = j
                                     /\ rows[j].state # "deleted"

Inv ==
    /\ TypeOK /\ Mutex /\ CreatedOnce
    /\ Numbered /\ Remembers /\ Progress /\ Effective /\ Synced

-----------------------------------------------------------------------------
LEMMA InvInit == Init => Inv
<1> SUFFICES ASSUME Init PROVE Inv
  OBVIOUS
<1> USE ConstantsAssumption DEF Init
<1>1. AllEntries = {} /\ Live = {} /\ UsedIds = {} /\ IsFiniteSet(UsedIds)
  BY FS_EmptySet DEF AllEntries, Live, UsedIds
<1>2. TypeOK
  <2>1. rows \in [Jobs -> Rows] /\ created \in Seq(Jobs) /\ scheduledJobs \in Seq(Nat)
    BY EmptySeq DEF Rows, States
  <2>2. /\ lock \in Callers \cup {Nobody} /\ pc \in [Callers -> PCs]
        /\ written \in [Callers -> [job : Jobs \cup {Nobody}, ver : Nat]]
    BY DEF Callers, PCs, Resting, Nothing
  <2>3. todo \in [Callers -> SUBSET [at : Nat, job : Jobs, ver : Nat, valid : BOOLEAN]]
    OBVIOUS
  <2>4. /\ started \in BOOLEAN /\ up \in BOOLEAN /\ stale \in BOOLEAN
        /\ id \in [Callers -> Nat] /\ breaks \in Nat
    BY DEF NoId
  <2>5. QED
    BY <2>1, <2>2, <2>3, <2>4 DEF TypeOK
<1>3. Mutex /\ CreatedOnce
  BY DEF Mutex, Reloading, CreatedOnce, Callers
<1>4. Numbered
  BY <1>1 DEF Numbered, AllEntries
<1>5. Remembers
  BY <1>1 DEF Remembers
<1>6. Progress
  BY <1>1 DEF Progress
<1>7. Effective
  BY DEF Effective, Callers, Nothing
<1>8. Synced
  BY DEF Synced, Callers
<1>9. QED
  BY <1>2, <1>3, <1>4, <1>5, <1>6, <1>7, <1>8 DEF Inv

-----------------------------------------------------------------------------
(* Facts about the operators.                                              *)

(* The cron library gives a new entry an id that is not in use.            *)
LEMMA FreshIdIsFresh ==
    ASSUME IsFiniteSet(UsedIds)
    PROVE  FreshId \in Nat /\ FreshId \notin UsedIds
<1> DEFINE n == Cardinality(UsedIds)
           ids == 1 .. n + 1
<1>1. n \in Nat
  BY FS_CardinalityType
<1>2. IsFiniteSet(ids) /\ Cardinality(ids) = n + 1
  BY <1>1, FS_Interval
<1>3. \E i \in ids : i \notin UsedIds
  <2> SUFFICES ASSUME ids \subseteq UsedIds PROVE FALSE
    OBVIOUS
  <2> HIDE DEF ids, n
  <2>1. Cardinality(ids) <= Cardinality(UsedIds)
    BY FS_Subset
  <2>2. QED
    BY <1>1, <1>2, <2>1 DEF n
<1>4. FreshId \in ids /\ FreshId \notin UsedIds
  BY <1>3 DEF FreshId
<1>5. QED
  BY <1>1, <1>4

(* The ids that are left when the first is taken away.                     *)
LEMMA TailIndices ==
    ASSUME NEW S, NEW s \in Seq(S), s # << >>
    PROVE  /\ Head(s) = s[1] /\ 1 \in DOMAIN s /\ Tail(s) \in Seq(S)
           /\ \A i \in DOMAIN Tail(s) : i + 1 \in DOMAIN s /\ Tail(s)[i] = s[i + 1]
           /\ \A i \in DOMAIN s : i # 1 =>
                 i - 1 \in DOMAIN Tail(s) /\ Tail(s)[i - 1] = s[i]
           /\ DOMAIN s \subseteq Nat /\ DOMAIN Tail(s) \subseteq Nat
BY HeadTailProperties, LenProperties

LEMMA AppendIndices ==
    ASSUME NEW S, NEW s \in Seq(S), NEW x \in S
    PROVE  /\ Append(s, x) \in Seq(S)
           /\ DOMAIN s \subseteq Nat
           /\ Len(s) + 1 \notin DOMAIN s
           /\ DOMAIN Append(s, x) = DOMAIN s \cup {Len(s) + 1}
           /\ \A i \in DOMAIN s : Append(s, x)[i] = s[i]
           /\ Append(s, x)[Len(s) + 1] = x
BY AppendProperties, LenProperties

(* One caller at a time has rows to add and waits for the library.         *)
LEMMA OneReloads ==
    ASSUME Inv, NEW c \in Callers, Reloading(c)
    PROVE  /\ lock = c
           /\ \A d \in Callers \ {c} : ~Reloading(d) /\ todo[d] = {}
BY DEF Inv, Mutex, Reloading, Progress

(* What is awaited is what that caller awaits.                             *)
LEMMA OneAwaits ==
    ASSUME Inv, NEW c \in Callers, Reloading(c), NEW i
    PROVE  Awaited(i) <=> pc[c] \in {"removing", "adding"} /\ id[c] = i
BY OneReloads DEF Awaited, Reloading

LEMMA EntriesTyped ==
    ASSUME TypeOK
    PROVE  /\ AllEntries \subseteq Entries
           /\ \A e \in AllEntries :
                 e.id \in Nat /\ e.job \in Jobs /\ e.ver \in Nat /\ e.lost \in Nat
BY DEF TypeOK, AllEntries, Entries

-----------------------------------------------------------------------------
(* Each action keeps the invariant.                                        *)

(* A caller that leaves: what it forgets is no longer live.                *)
LEMMA Leaves ==
    ASSUME Inv, NEW c \in Callers, NEW to \in {"idle", "exited"}, Leave(c, to)
    PROVE  Inv'
<1> DEFINE gone == Forgotten(c)
           mark(e) == IF e.id \in gone THEN [e EXCEPT !.lost = breaks + 1] ELSE e
<1>1. /\ pc'[c] = to /\ todo'[c] = {} /\ written'[c] = Nothing
      /\ \A d \in Callers \ {c} :
            pc'[d] = pc[d] /\ todo'[d] = todo[d] /\ written'[d] = written[d] /\ id'[d] = id[d]
  BY DEF Leave, GoTo, Inv, TypeOK
<1>2. /\ lock' = IF lock = c THEN Nobody ELSE lock
      /\ UNCHANGED << tableVars, removals, started, up >> /\ stale' = TRUE
  BY DEF Leave, Unlock
<1>3. /\ entries' = {mark(e) : e \in entries}
      /\ additions' = {mark(e) : e \in additions}
      /\ breaks' = IF gone = {} THEN breaks ELSE breaks + 1
      /\ breaks \in Nat /\ breaks' \in Nat
  BY DEF Leave, Lose, Inv, TypeOK
<1>4. /\ \A e \in AllEntries : e.id \in Nat /\ e.job \in Jobs /\ e.ver \in Nat /\ e.lost \in Nat
      /\ AllEntries \subseteq Entries
  BY EntriesTyped DEF Inv
<1>5. ASSUME NEW e \in AllEntries
      PROVE  /\ mark(e) \in Entries
             /\ mark(e).id = e.id /\ mark(e).job = e.job /\ mark(e).ver = e.ver
             /\ mark(e).lost = IF e.id \in gone THEN breaks + 1 ELSE e.lost
  BY <1>3, <1>4 DEF Entries
<1>6. ASSUME NEW e \in AllEntries, e.id \in gone PROVE e.lost = 0
  <2>1. Listed(e.id) \/ Awaited(e.id)
    BY <1>6 DEF Forgotten, Range, Listed, Awaited
  <2>2. QED
    BY <2>1 DEF Inv, Remembers
<1>7. AllEntries' = {mark(e) : e \in AllEntries}
  BY <1>3 DEF AllEntries
<1> HIDE DEF mark, gone
<1>8. Live' \subseteq {e \in Live : e.id \notin gone}
  <2> SUFFICES ASSUME NEW f \in AllEntries', f.lost = 0
               PROVE  f \in AllEntries /\ f.id \notin gone
    BY DEF Live
  <2>1. PICK e \in AllEntries : f = mark(e)
    BY <1>7
  <2>2. e.id \notin gone
    BY <1>3, <1>5, <2>1
  <2>3. f = e
    BY <2>1, <2>2 DEF mark
  <2>4. QED
    BY <2>2, <2>3
<1>9. TypeOK'
  <2>1. entries' \subseteq Entries /\ additions' \subseteq Entries
    BY <1>3, <1>5 DEF AllEntries
  <2>2. scheduledJobs' \in Seq(Nat)
    BY EmptySeq DEF Leave, Inv, TypeOK
  <2>3. /\ written' \in [Callers -> [job : Jobs \cup {Nobody}, ver : Nat]]
        /\ pc' \in [Callers -> PCs] /\ id' \in [Callers -> Nat]
    BY DEF Leave, GoTo, Nothing, NoId, Inv, TypeOK, PCs, Resting
  <2>4. /\ todo' \in [Callers -> SUBSET [at : Nat, job : Jobs, ver : Nat, valid : BOOLEAN]]
        /\ lock' \in Callers \cup {Nobody}
    BY <1>2 DEF Leave, Inv, TypeOK
  <2>5. QED
    BY <1>2, <1>3, <2>1, <2>2, <2>3, <2>4 DEF Inv, TypeOK, tableVars
<1>10. Mutex' /\ CreatedOnce'
  BY <1>1, <1>2, ConstantsAssumption
     DEF Inv, Mutex, Reloading, CreatedOnce, tableVars
<1>11. Numbered'
  <2>1. UsedIds' = UsedIds
    <3>1. {f.id : f \in AllEntries'} = {e.id : e \in AllEntries}
      BY <1>5, <1>7
    <3>2. QED
      BY <1>2, <3>1 DEF UsedIds, AllEntries
  <2>2. ASSUME NEW d \in AllEntries', NEW e \in AllEntries', d.id = e.id PROVE d = e
    BY <1>5, <1>7, <2>2 DEF Inv, Numbered
  <2>3. ASSUME NEW f \in AllEntries' PROVE f.lost <= breaks'
    <3>1. PICK e \in AllEntries : f = mark(e)
      BY <1>7
    <3>2. e.lost <= breaks /\ e.lost \in Nat
      BY <1>4 DEF Inv, Numbered
    <3>3. CASE e.id \in gone
      BY <1>3, <1>5, <3>1, <3>3
    <3>4. CASE e.id \notin gone
      <4>1. f.lost = e.lost
        BY <1>5, <3>1, <3>4
      <4>2. QED
        BY <1>3, <3>2, <4>1
    <3>5. QED
      BY <3>3, <3>4
  <2>4. entries' \cap additions' = {}
    BY <1>3, <1>5 DEF Inv, Numbered, AllEntries
  <2>5. QED
    BY <2>1, <2>2, <2>3, <2>4 DEF Inv, Numbered
<1>12. Remembers'
  <2>1. ASSUME NEW i
        PROVE  Listed(i)' \/ Awaited(i)' <=> (Listed(i) \/ Awaited(i)) /\ i \notin gone
    <3>1. CASE pc[c] = "removing"
      <4>1. ~Listed(i)'
        BY <3>1, EmptySeq DEF Leave, Listed
      <4>2. ~Awaited(i)'
        BY <1>1, <3>1, OneReloads DEF Awaited, Reloading
      <4>3. Listed(i) \/ Awaited(i) => i \in gone
        BY <3>1, OneAwaits DEF gone, Forgotten, Range, Listed, Reloading
      <4>4. QED
        BY <4>1, <4>2, <4>3
    <3>2. CASE pc[c] = "adding"
      <4>1. Listed(i)' <=> Listed(i)
        BY <3>2 DEF Leave, Listed
      <4>2. ~Awaited(i)'
        BY <1>1, <3>2, OneReloads DEF Awaited, Reloading
      <4>3. gone = {id[c]} /\ (Awaited(i) => i = id[c]) /\ ~Listed(id[c])
        BY <3>2, OneAwaits DEF gone, Forgotten, Reloading, Inv, Remembers
      <4>4. QED
        BY <4>1, <4>2, <4>3
    <3>3. CASE pc[c] \notin {"removing", "adding"}
      BY <1>1, <3>3 DEF Leave, Listed, Awaited, gone, Forgotten
    <3>4. QED
      BY <3>1, <3>2, <3>3
  <2>2. ASSUME NEW f \in AllEntries' PROVE f.lost = 0 <=> Listed(f.id)' \/ Awaited(f.id)'
    <3>1. PICK e \in AllEntries : f = mark(e)
      BY <1>7
    <3>2. f.id = e.id /\ (f.lost = 0 <=> e.lost = 0 /\ e.id \notin gone)
      BY <1>3, <1>5, <1>6, <3>1
    <3>3. QED
      BY <2>1, <3>2 DEF Inv, Remembers
  <2>3. ASSUME NEW i \in DOMAIN scheduledJobs'
        PROVE  /\ scheduledJobs'[i] \notin removals'
               /\ \E f \in entries' : f.id = scheduledJobs'[i]
    <3>1. scheduledJobs' = scheduledJobs
      BY <2>3, EmptySeq DEF Leave
    <3>2. PICK e \in entries : e.id = scheduledJobs[i]
      BY <2>3, <3>1 DEF Inv, Remembers
    <3>3. mark(e) \in entries' /\ mark(e).id = e.id
      BY <1>3, <1>5 DEF AllEntries
    <3>4. QED
      BY <1>2, <2>3, <3>1, <3>2, <3>3 DEF Inv, Remembers
  <2>4. ASSUME NEW i \in DOMAIN scheduledJobs', NEW k \in DOMAIN scheduledJobs',
               scheduledJobs'[i] = scheduledJobs'[k]
        PROVE  i = k
    <3>1. scheduledJobs' = scheduledJobs
      BY <2>4, EmptySeq DEF Leave
    <3>2. QED
      BY <2>4, <3>1 DEF Inv, Remembers
  <2>5. ASSUME NEW d \in Callers, pc'[d] = "adding"
        PROVE  /\ id'[d] \notin removals' /\ ~Listed(id[d])'
               /\ \E f \in AllEntries' : f.id = id'[d]
    <3>1. d # c /\ pc[d] = "adding" /\ id'[d] = id[d]
      BY <1>1, <2>5
    <3>2. pc[c] # "removing"
      BY <3>1, OneReloads DEF Reloading
    <3>3. Listed(id[d])' <=> Listed(id[d])
      BY <3>1, <3>2 DEF Leave, Listed
    <3>4. PICK e \in AllEntries : e.id = id[d]
      BY <3>1 DEF Inv, Remembers
    <3>5. mark(e) \in AllEntries' /\ mark(e).id = e.id
      BY <1>5, <1>7
    <3>6. QED
      BY <1>2, <3>1, <3>3, <3>4, <3>5 DEF Inv, Remembers
  <2>6. ASSUME NEW d \in Callers, pc'[d] = "removing", NEW f \in additions'
        PROVE  f.id # id'[d]
    <3>1. pc[d] = "removing" /\ id'[d] = id[d]
      BY <1>1, <2>6
    <3>2. PICK e \in additions : f = mark(e)
      BY <1>3
    <3>3. f.id = e.id
      BY <1>5, <3>2 DEF AllEntries
    <3>4. QED
      BY <3>1, <3>2, <3>3 DEF Inv, Remembers
  <2>7. QED
    BY <2>2, <2>3, <2>4, <2>5, <2>6 DEF Remembers
<1>13. Progress'
  <2>1. ASSUME NEW f \in AllEntries', NEW g \in AllEntries', f.job = g.job, f.lost = g.lost
        PROVE  f = g
    <3>1. PICK d \in AllEntries : f = mark(d)
      BY <1>7
    <3>2. PICK e \in AllEntries : g = mark(e)
      BY <1>7
    <3>3. d.job = e.job
      BY <1>5, <2>1, <3>1, <3>2
    <3>4. d.lost <= breaks /\ e.lost <= breaks /\ d.lost \in Nat /\ e.lost \in Nat
      BY <1>4 DEF Inv, Numbered
    <3>5. d.lost = e.lost
      BY <1>3, <1>5, <1>6, <2>1, <3>1, <3>2, <3>4
    <3>6. QED
      BY <3>1, <3>2, <3>3, <3>5 DEF Inv, Progress
  <2>2. \A d \in Callers : todo'[d] \subseteq todo[d]
    BY <1>1
  <2>3. ASSUME NEW d \in Callers
        PROVE  /\ pc'[d] \notin {"add", "adding"} => todo'[d] = {}
               /\ pc'[d] = "list" => Live' = {}
               /\ \A r \in todo'[d] :
                     /\ \A e \in Live' : e.job # r.job
                     /\ \A s \in todo'[d] : s.job = r.job => s = r
    BY <1>1, <1>8, <2>2 DEF Inv, Progress
  <2>4. QED
    BY <2>1, <2>3 DEF Progress
<1>14. Planned' \subseteq Planned
  BY <1>1, <1>8 DEF Planned
<1>15. Effective'
  <2> SUFFICES ASSUME NEW q \in Requests
               PROVE  /\ written'[q].job \in Jobs =>
                            written'[q].ver <= rows'[written'[q].job].ver
                      /\ pc'[q] \in {"add", "adding", "ok"} => Current(q)'
    BY DEF Effective
  <2>1. q \in Callers
    BY DEF Callers
  <2>2. CASE q = c
    BY <1>1, <1>2, <2>2 DEF Nothing, Inv, TypeOK, Rows, tableVars
  <2>3. CASE q # c
    BY <1>1, <1>2, <1>14, <2>1, <2>3 DEF Inv, Effective, Current, tableVars
  <2>4. QED
    BY <2>2, <2>3
<1>16. Synced'
  BY <1>2 DEF Inv, Synced
<1>17. QED
  BY <1>9, <1>10, <1>11, <1>12, <1>13, <1>15, <1>16 DEF Inv

LEMMA FailStep == ASSUME Inv, NEW c \in Callers, Fail(c) PROVE Inv'
BY Leaves DEF Fail

LEMMA CancelStep == ASSUME Inv, NEW q \in Requests, Cancel(q) PROVE Inv'
BY Leaves DEF Cancel, Callers

(* A write of a row: its request is on its way to a reload.                *)
LEMMA WriteStep ==
    ASSUME Inv, NEW q \in Requests, NEW j \in Jobs,
           NEW state \in {"enabled", "disabled", "deleted"}, NEW valid \in BOOLEAN,
           NEW next \in {"lock", "reread"}, next = "reread" => state # "deleted",
           Write(q, j, state, valid, next),
           \/ rows[j].state # "new" /\ UNCHANGED created
           \/ rows[j].state = "new" /\ created' = Append(created, j)
    PROVE  Inv'
<1>1. q \in Callers /\ pc[q] \in Resting
  BY DEF Callers, Write
<1>2. /\ pc'[q] = next /\ \A d \in Callers \ {q} : pc'[d] = pc[d]
      /\ rows'[j] = [ver |-> rows[j].ver + 1, state |-> state, valid |-> valid]
      /\ \A i \in Jobs \ {j} : rows'[i] = rows[i]
      /\ written'[q] = [job |-> j, ver |-> rows[j].ver + 1]
      /\ \A d \in Callers \ {q} : written'[d] = written[d]
  BY <1>1 DEF Write, GoTo, Inv, TypeOK
<1>3. /\ UNCHANGED << cronVars, lock, up, callVars, history >>
      /\ rows[j].ver \in Nat /\ rows[j].ver + 1 \in Nat
      /\ rows[j].ver < rows[j].ver + 1
  BY DEF Write, Inv, TypeOK, Rows
<1>4. TypeOK'
  <2>1. rows' \in [Jobs -> Rows]
    BY <1>3 DEF Write, Inv, TypeOK, Rows, States
  <2>2. created' \in Seq(Jobs)
    <3>1. created \in Seq(Jobs)
      BY DEF Inv, TypeOK
    <3>2. Append(created, j) \in Seq(Jobs)
      BY <3>1, AppendProperties
    <3>3. QED
      BY <3>1, <3>2
  <2>3. pc' \in [Callers -> PCs]
        /\ written' \in [Callers -> [job : Jobs \cup {Nobody}, ver : Nat]]
    BY <1>3 DEF Write, GoTo, Inv, TypeOK, PCs
  <2>4. QED
    BY <1>3, <2>1, <2>2, <2>3 DEF Inv, TypeOK, cronVars, callVars, history
<1>5. Mutex'
  BY <1>1, <1>2, <1>3 DEF Inv, Mutex, Reloading, Resting
<1>6. CreatedOnce'
  <2>1. CASE rows[j].state # "new" /\ UNCHANGED created
    BY <1>2, <2>1 DEF Inv, CreatedOnce
  <2>2. CASE rows[j].state = "new" /\ created' = Append(created, j)
    <3>1. created \in Seq(Jobs) /\ \A i \in DOMAIN created : created[i] # j
      BY <2>2 DEF Inv, TypeOK, CreatedOnce
    <3>2. /\ DOMAIN created' = DOMAIN created \cup {Len(created) + 1}
          /\ Len(created) + 1 \notin DOMAIN created
          /\ \A i \in DOMAIN created : created'[i] = created[i]
          /\ created'[Len(created) + 1] = j
      BY <2>2, <3>1, AppendIndices
    <3>3. QED
      BY <1>2, <3>1, <3>2 DEF Inv, CreatedOnce
  <2>3. QED
    BY <2>1, <2>2
<1>7. AllEntries' = AllEntries /\ Live' = Live /\ UsedIds' = UsedIds
  BY <1>3 DEF AllEntries, Live, UsedIds, cronVars
<1>8. Numbered'
  BY <1>3, <1>7 DEF Inv, Numbered, cronVars, history
<1>9. Remembers'
  <2>1. \A i : (Listed(i)' <=> Listed(i)) /\ (Awaited(i)' <=> Awaited(i))
    BY <1>1, <1>2, <1>3 DEF Listed, Awaited, cronVars, callVars, Resting
  <2>2. QED
    BY <1>1, <1>2, <1>3, <1>7, <2>1 DEF Inv, Remembers, cronVars, callVars, Resting
<1>10. Progress'
  BY <1>1, <1>2, <1>3, <1>7 DEF Inv, Progress, Resting, callVars
<1>11. Planned' = Planned
  BY <1>3, <1>7 DEF Planned, callVars
<1>12. Effective'
  <2> SUFFICES ASSUME NEW p \in Requests
               PROVE  /\ written'[p].job \in Jobs =>
                            written'[p].ver <= rows'[written'[p].job].ver
                      /\ pc'[p] \in {"add", "adding", "ok"} => Current(p)'
    BY DEF Effective
  <2>1. CASE p = q
    BY <1>2, <1>3, <2>1
  <2>2. CASE p # q
    <3>1. /\ pc'[p] = pc[p] /\ written'[p] = written[p] /\ written[p].ver \in Nat
          /\ p \in Callers
      BY <1>2, <2>2 DEF Callers, Inv, TypeOK
    <3>2. written[p].job \in Jobs => written[p].ver <= rows'[written[p].job].ver
      BY <1>2, <1>3, <3>1 DEF Inv, Effective
    <3>3. pc[p] \in {"add", "adding", "ok"} => Current(p)'
      BY <1>11, <3>1 DEF Inv, Effective, Current
    <3>4. QED
      BY <3>1, <3>2, <3>3
  <2>3. QED
    BY <2>1, <2>2
<1>13. Synced'
  <2>1. up' => started'
    BY <1>3 DEF Inv, Synced, cronVars
  <2>2. ASSUME ~stale', \A c \in Callers : pc'[c] \notin {"lock", "removing", "list"},
               NEW k \in Jobs
        PROVE  \/ Reflected(k)'
               \/ \E p \in Requests : /\ pc'[p] = "reread" /\ written'[p].job = k
                                      /\ rows'[k].state # "deleted"
    <3>1. next = "reread" /\ state # "deleted"
      BY <1>1, <1>2, <2>2
    <3>2. CASE k = j
      BY <1>2, <3>1, <3>2
    <3>3. CASE k # j
      <4>1. \A c \in Callers : pc[c] \notin {"lock", "removing", "list"}
        BY <1>1, <1>2, <2>2 DEF Resting
      <4>2. \/ Reflected(k)
            \/ \E p \in Requests : /\ pc[p] = "reread" /\ written[p].job = k
                                   /\ rows[k].state # "deleted"
        BY <1>3, <2>2, <4>1 DEF Inv, Synced, history
      <4>3. CASE Reflected(k)
        BY <1>2, <1>11, <3>3, <4>3 DEF Reflected, Scheduled
      <4>4. ASSUME NEW p \in Requests, pc[p] = "reread", written[p].job = k,
                   rows[k].state # "deleted"
            PROVE  pc'[p] = "reread" /\ written'[p].job = k /\ rows'[k].state # "deleted"
        BY <1>1, <1>2, <3>3, <4>4 DEF Callers, Resting
      <4>5. QED
        BY <4>2, <4>3, <4>4
    <3>4. QED
      BY <3>2, <3>3
  <2>3. QED
    BY <2>1, <2>2 DEF Synced
<1>14. QED
  BY <1>4, <1>5, <1>6, <1>8, <1>9, <1>10, <1>12, <1>13 DEF Inv

LEMMA RequestsStep ==
    ASSUME Inv, NEW q \in Requests, Request(q) PROVE Inv'
<1>1. PICK j \in Jobs :
          \/ \E state \in {"enabled", "disabled"}, valid \in BOOLEAN :
                CreateJob(q, j, state, valid) \/ UpdateJob(q, j, state, valid)
          \/ DeleteJob(q, j)
  BY DEF Request
<1>2. ASSUME NEW state \in {"enabled", "disabled"}, NEW valid \in BOOLEAN,
             CreateJob(q, j, state, valid)
      PROVE  Inv'
  BY <1>2, WriteStep DEF CreateJob
<1>3. ASSUME NEW state \in {"enabled", "disabled"}, NEW valid \in BOOLEAN,
             UpdateJob(q, j, state, valid)
      PROVE  Inv'
  BY <1>3, WriteStep DEF UpdateJob
<1>4. CASE DeleteJob(q, j)
  BY <1>4, WriteStep DEF DeleteJob
<1>5. QED
  BY <1>1, <1>2, <1>3, <1>4

(* The row is read again: the request goes on to the reload, or the row is *)
(* gone and there is nothing left to do for it.                            *)
LEMMA RereadJobStep == ASSUME Inv, NEW q \in Requests, RereadJob(q) PROVE Inv'
<1>1. q \in Callers /\ pc[q] = "reread"
  BY DEF RereadJob, Callers
<1>2. CASE Leave(q, "idle")
  BY <1>1, <1>2, Leaves
<1>3. ASSUME NEW to \in {"lock", "idle"}, pc' = [pc EXCEPT ![q] = to],
             \/ to = "lock" /\ written' = written
             \/ /\ to = "idle" /\ rows[written[q].job].state = "deleted"
                /\ written' = [written EXCEPT ![q] = Nothing],
             UNCHANGED << tableVars, cronVars, lock, up, callVars, history >>
      PROVE  Inv'
  <2> USE <1>3 DEF tableVars, cronVars, callVars, history
  <2>1. /\ pc'[q] = to /\ \A d \in Callers \ {q} : pc'[d] = pc[d]
        /\ \A d \in Callers \ {q} : written'[d] = written[d]
        /\ written'[q] \in {written[q], Nothing}
    BY <1>1 DEF Inv, TypeOK
  <2>2. AllEntries' = AllEntries /\ Live' = Live /\ Planned' = Planned /\ UsedIds' = UsedIds
    BY DEF AllEntries, Live, Planned, UsedIds
  <2>3. TypeOK'
    <3> DEFINE Written == [job : Jobs \cup {Nobody}, ver : Nat]
    <3>0. Nothing \in Written /\ written \in [Callers -> Written]
      BY DEF Inv, TypeOK, Nothing
    <3>1. written' \in [Callers -> Written]
      <4> HIDE DEF Written
      <4>1. QED
        BY <3>0
    <3>2. pc' \in [Callers -> PCs]
      BY DEF Inv, TypeOK, PCs, Resting
    <3>3. QED
      BY <3>1, <3>2 DEF Inv, TypeOK
  <2>4. Mutex' /\ CreatedOnce'
    BY <1>1, <2>1 DEF Inv, Mutex, Reloading, CreatedOnce
  <2>5. Numbered'
    BY <2>2 DEF Inv, Numbered
  <2>6. Remembers'
    <3>1. \A i : (Listed(i)' <=> Listed(i)) /\ (Awaited(i)' <=> Awaited(i))
      BY <1>1, <2>1 DEF Listed, Awaited
    <3>2. QED
      BY <1>1, <2>1, <2>2, <3>1 DEF Inv, Remembers
  <2>7. Progress'
    BY <1>1, <2>1, <2>2 DEF Inv, Progress
  <2>8. Effective'
    <3> SUFFICES ASSUME NEW p \in Requests
                 PROVE  /\ written'[p].job \in Jobs =>
                              written'[p].ver <= rows[written'[p].job].ver
                        /\ pc'[p] \in {"add", "adding", "ok"} => Current(p)'
      BY DEF Effective
    <3>1. CASE p = q
      BY <1>1, <2>1, <3>1 DEF Nothing, Inv, Effective, TypeOK, Rows
    <3>2. CASE p # q
      BY <2>1, <2>2, <3>2 DEF Inv, Effective, Current, Callers
    <3>3. QED
      BY <3>1, <3>2
  <2>9. Synced'
    <3>1. ASSUME ~stale, \A c \in Callers : pc'[c] \notin {"lock", "removing", "list"},
                 NEW j \in Jobs
          PROVE  \/ Reflected(j)'
                 \/ \E p \in Requests : /\ pc'[p] = "reread" /\ written'[p].job = j
                                        /\ rows'[j].state # "deleted"
      <4>1. rows[written[q].job].state = "deleted"
        BY <1>1, <2>1, <3>1
      <4>2. \/ Reflected(j)
            \/ \E p \in Requests : /\ pc[p] = "reread" /\ written[p].job = j
                                   /\ rows[j].state # "deleted"
        BY <1>1, <2>1, <3>1 DEF Inv, Synced
      <4>3. Reflected(j) => Reflected(j)'
        BY <2>2 DEF Reflected, Scheduled
      <4>4. QED
        BY <2>1, <4>1, <4>2, <4>3 DEF Callers
    <3>2. QED
      BY <3>1 DEF Inv, Synced
  <2>10. QED
    BY <2>3, <2>4, <2>5, <2>6, <2>7, <2>8, <2>9 DEF Inv
<1>4. QED
  BY <1>2, <1>3 DEF RereadJob, GoTo

(* A turn of the drain, by the caller that has just got the mutex or whose *)
(* call of remove() was answered: what it knows of is the rest of the list *)
(* and the entry it now waits for.                                         *)
LEMMA DrainStep ==
    ASSUME Inv, NEW c \in Callers, Drain(c),
           \/ pc[c] = "lock" /\ lock = Nobody /\ lock' = c
           \/ /\ pc[c] = "removing" /\ UNCHANGED lock
              /\ \A e \in entries : e.id # id[c],
           UNCHANGED << tableVars, entries, additions, started, up, written, todo,
                        history >>
    PROVE  Inv'
<1> USE DEF tableVars, history
<1>1. /\ lock' = c /\ todo[c] = {}
      /\ \A d \in Callers \ {c} : ~Reloading(d)
  BY OneReloads, ConstantsAssumption DEF Inv, Mutex, Reloading, Progress
<1>2. AllEntries' = AllEntries /\ Live' = Live /\ Planned' = Planned
  BY DEF AllEntries, Live, Planned
<1>3. \A d \in Callers \ {c} : pc'[d] = pc[d]
  BY DEF Drain, GoTo, Inv, TypeOK
<1>4. \A e \in AllEntries : e.lost = 0 <=> Listed(e.id)
  <2>1. ASSUME NEW e \in AllEntries, Awaited(e.id) PROVE FALSE
    <3>1. pc[c] = "removing" /\ id[c] = e.id
      BY <1>1, <2>1 DEF Awaited, Reloading
    <3>2. QED
      BY <3>1 DEF AllEntries, Inv, Remembers
  <2>2. QED
    BY <2>1 DEF Inv, Remembers
<1>5. CreatedOnce'
  BY DEF Inv, CreatedOnce
<1>6. ASSUME pc'[c] \in {"list", "removing"}, pc'[c] = "list" => Live = {}
      PROVE  Mutex' /\ Progress' /\ Effective' /\ Synced'
  <2>1. Mutex'
    BY <1>1, <1>3, <1>6, ConstantsAssumption DEF Mutex, Reloading
  <2>2. Progress'
    BY <1>1, <1>2, <1>3, <1>6 DEF Inv, Progress
  <2>3. Effective'
    BY <1>2, <1>3, <1>6 DEF Inv, Effective, Callers, Current
  <2>4. Synced'
    BY <1>6 DEF Inv, Synced
  <2>5. QED
    BY <2>1, <2>2, <2>3, <2>4
<1>7. CASE /\ scheduledJobs = << >>
           /\ id' = [id EXCEPT ![c] = NoId]
           /\ GoTo(c, "list")
           /\ UNCHANGED << scheduledJobs, removals >>
  <2>1. pc'[c] = "list"
    BY <1>7 DEF GoTo, Inv, TypeOK
  <2>2. \A i : ~Listed(i) /\ ~Listed(i)'
    BY <1>7, EmptySeq DEF Listed
  <2>3. \A i : ~Awaited(i)'
    BY <1>1, <1>3, <2>1 DEF Awaited, Reloading
  <2>4. Live = {}
    BY <1>4, <2>2 DEF Live
  <2>5. TypeOK'
    BY <1>1, <1>7 DEF GoTo, NoId, Inv, TypeOK, PCs
  <2>6. Numbered'
    BY <1>2, <1>7 DEF Inv, Numbered, UsedIds
  <2>7. Remembers'
    <3>1. \A d \in Callers : pc'[d] \notin {"removing", "adding"}
      BY <1>1, <1>3, <2>1 DEF Reloading
    <3>2. QED
      BY <1>2, <1>4, <1>7, <2>2, <2>3, <3>1 DEF Inv, Remembers
  <2>8. QED
    BY <1>5, <1>6, <2>1, <2>4, <2>5, <2>6, <2>7 DEF Inv
<1>8. CASE /\ scheduledJobs # << >>
           /\ scheduledJobs' = Tail(scheduledJobs)
           /\ removals' = removals \cup {Head(scheduledJobs)}
           /\ id' = [id EXCEPT ![c] = Head(scheduledJobs)]
           /\ GoTo(c, "removing")
  <2> DEFINE head == Head(scheduledJobs)
  <2>1. /\ head = scheduledJobs[1] /\ 1 \in DOMAIN scheduledJobs
        /\ scheduledJobs' \in Seq(Nat) /\ head \in Nat
        /\ \A i \in DOMAIN scheduledJobs' :
              /\ i \in Nat /\ i + 1 \in DOMAIN scheduledJobs
              /\ scheduledJobs'[i] = scheduledJobs[i + 1]
        /\ \A i \in DOMAIN scheduledJobs : i # 1 =>
              /\ i \in Nat /\ i - 1 \in DOMAIN scheduledJobs'
              /\ scheduledJobs'[i - 1] = scheduledJobs[i]
    BY <1>8, TailIndices, ElementOfSeq DEF Inv, TypeOK
  <2>2. pc'[c] = "removing" /\ id'[c] = head /\ removals' = removals \cup {head}
    BY <1>8 DEF GoTo, Inv, TypeOK
  <2>3. TypeOK'
    BY <1>1, <1>8, <2>1 DEF GoTo, Inv, TypeOK, PCs
  <2> HIDE DEF head
  <2>4. \A i : Awaited(i)' <=> i = head
    BY <1>1, <1>3, <2>2 DEF Awaited, Reloading
  <2>5. \A i \in DOMAIN scheduledJobs' : scheduledJobs'[i] # head
    <3> SUFFICES ASSUME NEW i \in DOMAIN scheduledJobs', scheduledJobs'[i] = head
                 PROVE  FALSE
      OBVIOUS
    <3>1. i \in Nat /\ i + 1 \in DOMAIN scheduledJobs
          /\ scheduledJobs[i + 1] = scheduledJobs[1]
      BY <2>1
    <3>2. i + 1 = 1
      BY <2>1, <3>1 DEF Inv, Remembers
    <3>3. QED
      BY <3>1, <3>2, LenProperties, <2>1
  <2>6. ASSUME NEW i PROVE Listed(i) <=> Listed(i)' \/ i = head
    <3>1. ASSUME NEW k \in DOMAIN scheduledJobs, scheduledJobs[k] = i, i # head
          PROVE  Listed(i)'
      <4>1. k - 1 \in DOMAIN scheduledJobs' /\ scheduledJobs'[k - 1] = i
        BY <2>1, <3>1
      <4>2. QED
        BY <4>1 DEF Listed
    <3>2. ASSUME NEW k \in DOMAIN scheduledJobs', scheduledJobs'[k] = i
          PROVE  Listed(i)
      BY <2>1, <3>2 DEF Listed
    <3>3. Listed(head)
      BY <2>1 DEF Listed
    <3>4. QED
      BY <3>1, <3>2, <3>3 DEF Listed
  <2>7. PICK first \in entries : first.id = head
    BY <2>1 DEF Inv, Remembers
  <2>8. Numbered'
    <3>1. UsedIds' = UsedIds
      BY <2>2, <2>7 DEF UsedIds
    <3>2. QED
      BY <1>2, <3>1 DEF Inv, Numbered
  <2>9. Remembers'
    <3>1. \A e \in AllEntries' : e.lost = 0 <=> Listed(e.id)' \/ Awaited(e.id)'
      BY <1>2, <1>4, <2>4, <2>6
    <3>2. ASSUME NEW i \in DOMAIN scheduledJobs'
          PROVE  /\ scheduledJobs'[i] \notin removals'
                 /\ \E e \in entries : e.id = scheduledJobs'[i]
      BY <2>1, <2>2, <2>5 DEF Inv, Remembers
    <3>3. ASSUME NEW i \in DOMAIN scheduledJobs', NEW k \in DOMAIN scheduledJobs',
                 scheduledJobs'[i] = scheduledJobs'[k]
          PROVE  i = k
      <4>1. /\ i \in Nat /\ i + 1 \in DOMAIN scheduledJobs
            /\ k \in Nat /\ k + 1 \in DOMAIN scheduledJobs
            /\ scheduledJobs[i + 1] = scheduledJobs[k + 1]
        BY <2>1, <3>3
      <4>2. i + 1 = k + 1
        BY <4>1 DEF Inv, Remembers
      <4>3. QED
        BY <4>1, <4>2
    <3>4. \A e \in additions : e.id # head
      BY <2>7 DEF Inv, Numbered, AllEntries
    <3>5. \A d \in Callers : pc'[d] # "adding" /\ (pc'[d] = "removing" => d = c)
      BY <1>1, <1>3, <2>2 DEF Reloading
    <3>6. QED
      BY <2>2, <3>1, <3>2, <3>3, <3>4, <3>5 DEF Remembers
  <2>10. QED
    BY <1>5, <1>6, <2>2, <2>3, <2>8, <2>9 DEF Inv
<1>9. QED
  BY <1>7, <1>8 DEF Drain

LEMMA LockStep == ASSUME Inv, NEW c \in Callers, Lock(c) PROVE Inv'
BY DrainStep DEF Lock

LEMMA RemovedStep == ASSUME Inv, NEW c \in Callers, Removed(c) PROVE Inv'
BY DrainStep, FailStep DEF Removed

(* The list: what is to be added is what the table holds.                  *)
LEMMA ListStep == ASSUME Inv, NEW c \in Callers, List(c) PROVE Inv'
<1>1. pc[c] = "list" /\ Reloading(c) /\ Live = {}
  BY DEF List, Reloading, Inv, Progress
<1>2. CASE /\ todo' = [todo EXCEPT ![c] = EnabledJobs]
           /\ GoTo(c, "add")
           /\ stale' = FALSE
           /\ UNCHANGED << tableVars, cronVars, lock, up, written, id, breaks >>
  <2> DEFINE row(i) == [at |-> i, job |-> created[i], ver |-> rows[created[i]].ver,
                        valid |-> rows[created[i]].valid]
             listed == {i \in DOMAIN created : Scheduled(created[i])}
  <2>1. /\ pc' = [pc EXCEPT ![c] = "add"]
        /\ UNCHANGED << tableVars, cronVars, lock, up, written, id, breaks >>
    BY <1>2 DEF GoTo
  <2>2. /\ pc'[c] = "add" /\ \A d \in Callers \ {c} : pc'[d] = pc[d]
        /\ todo'[c] = {row(i) : i \in listed}
        /\ \A d \in Callers \ {c} : todo'[d] = {}
    BY <1>1, <1>2, <2>1, OneReloads DEF EnabledJobs, RowsAt, Inv, TypeOK
  <2>3. \A i \in DOMAIN created : i \in Nat /\ created[i] \in Jobs
    BY LenProperties, ElementOfSeq DEF Inv, TypeOK
  <2>4. AllEntries' = AllEntries /\ Live' = {} /\ UsedIds' = UsedIds
    BY <1>1, <2>1 DEF AllEntries, Live, UsedIds, cronVars
  <2>5. TypeOK'
    <3>1. EnabledJobs \subseteq [at : Nat, job : Jobs, ver : Nat, valid : BOOLEAN]
      BY <2>3 DEF EnabledJobs, RowsAt, Inv, TypeOK, Rows
    <3>2. QED
      BY <1>2, <2>1, <3>1 DEF Inv, TypeOK, PCs, tableVars, cronVars
  <2>6. Mutex' /\ CreatedOnce'
    BY <1>1, <2>1, <2>2 DEF Inv, Mutex, Reloading, CreatedOnce, tableVars
  <2>7. Numbered'
    BY <2>1, <2>4 DEF Inv, Numbered, cronVars
  <2>8. Remembers'
    <3>1. \A i : (Listed(i)' <=> Listed(i)) /\ (Awaited(i)' <=> Awaited(i))
      BY <1>1, <2>1, <2>2 DEF Listed, Awaited, cronVars
    <3>2. QED
      BY <1>1, <2>1, <2>2, <2>4, <3>1 DEF Inv, Remembers, cronVars
  <2>9. Progress'
    <3>1. ASSUME NEW r \in todo'[c], NEW s \in todo'[c], s.job = r.job PROVE s = r
      <4>1. PICK i \in listed : r = row(i)
        BY <2>2, <3>1
      <4>2. PICK k \in listed : s = row(k)
        BY <2>2, <3>1
      <4>3. i = k
        BY <3>1, <4>1, <4>2 DEF Inv, CreatedOnce
      <4>4. QED
        BY <4>1, <4>2, <4>3
    <3>2. QED
      BY <2>2, <2>4, <3>1 DEF Inv, Progress
  <2>10. \A j \in Jobs : \A v \in Nat :
           << j, v >> \in Planned' <=> Scheduled(j) /\ v = rows[j].ver
    <3> SUFFICES ASSUME NEW j \in Jobs, NEW v \in Nat
                 PROVE  << j, v >> \in Planned' <=> Scheduled(j) /\ v = rows[j].ver
      OBVIOUS
    <3>1. << j, v >> \in Planned' <=> \E r \in todo'[c] : r.job = j /\ r.ver = v
      BY <2>2, <2>4 DEF Planned
    <3>2. /\ \A r \in todo'[c] : \E i \in listed : r = row(i)
          /\ \A i \in listed : row(i) \in todo'[c]
      BY <2>2
    <3>3. \A i \in listed : row(i).job = created[i] /\ row(i).ver = rows[created[i]].ver
      OBVIOUS
    <3> HIDE DEF row
    <3>4. << j, v >> \in Planned' <=> \E i \in listed : created[i] = j /\ rows[j].ver = v
      BY <3>1, <3>2, <3>3
    <3>5. Scheduled(j) => \E i \in DOMAIN created : created[i] = j
      BY DEF Scheduled, Inv, CreatedOnce
    <3>6. QED
      BY <3>4, <3>5
  <2>11. Effective'
    <3> SUFFICES ASSUME NEW q \in Requests
                 PROVE  /\ written[q].job \in Jobs =>
                              written[q].ver <= rows[written[q].job].ver
                        /\ pc'[q] \in {"add", "adding", "ok"} => Current(q)'
      BY <2>1 DEF Effective, tableVars
    <3>1. written[q].job \in Jobs => written[q].ver <= rows[written[q].job].ver
      BY DEF Inv, Effective
    <3>2. ASSUME NEW p \in Planned', p[1] = written[q].job
          PROVE  p[2] >= written[q].ver
      <4>1. PICK r \in todo'[c] : p = << r.job, r.ver >>
        BY <2>2, <2>4 DEF Planned
      <4>2. PICK i \in listed : r = row(i)
        BY <2>2
      <4>3. created[i] \in Jobs /\ p[1] = created[i] /\ p[2] = rows[created[i]].ver
        BY <2>3, <4>1, <4>2
      <4>4. written[q].ver \in Nat /\ rows[created[i]].ver \in Nat
        BY <4>3 DEF Inv, TypeOK, Callers, Rows
      <4>5. QED
        BY <3>1, <3>2, <4>3, <4>4
    <3>3. QED
      BY <2>1, <3>1, <3>2 DEF Current
  <2>12. Synced'
    BY <2>1, <2>10 DEF Inv, Synced, Reflected, Scheduled, tableVars, cronVars
  <2>13. QED
    BY <2>5, <2>6, <2>7, <2>8, <2>9, <2>11, <2>12 DEF Inv
<1>3. CASE Fail(c)
  BY <1>3, FailStep
<1>4. QED
  BY <1>2, <1>3 DEF List

(* add() is called for a row: what is planned stays the same.              *)
LEMMA AddStep == ASSUME Inv, NEW c \in Callers, Add(c) PROVE Inv'
<1>1. pc[c] = "add" /\ Reloading(c)
  BY DEF Add, Reloading
<1>2. CASE Fail(c)
  BY <1>2, FailStep
<1>3. ASSUME NEW row \in todo[c],
             additions' = additions \cup
                 {[id |-> FreshId, job |-> row.job, ver |-> row.ver, lost |-> 0]},
             id' = [id EXCEPT ![c] = FreshId],
             todo' = [todo EXCEPT ![c] = @ \ {row}],
             GoTo(c, "adding"),
             UNCHANGED << tableVars, entries, removals, scheduledJobs, started,
                          lock, up, written, history >>
      PROVE  Inv'
  <2> USE DEF tableVars, history
  <2> DEFINE new == FreshId
             entry == [id |-> new, job |-> row.job, ver |-> row.ver, lost |-> 0]
  <2>1. new \in Nat /\ new \notin UsedIds
    BY FreshIdIsFresh DEF Inv, Numbered
  <2>2. /\ additions' = additions \cup {entry} /\ id' = [id EXCEPT ![c] = new]
        /\ entry.id = new /\ entry.job = row.job /\ entry.ver = row.ver
        /\ entry.lost = 0
    BY <1>3
  <2>3. row.job \in Jobs /\ row.ver \in Nat
    BY DEF Inv, TypeOK
  <2>4. entry \in Entries
    BY <2>1, <2>3 DEF Entries
  <2> HIDE DEF new, entry
  <2>5. /\ todo'[c] = todo[c] \ {row} /\ pc'[c] = "adding" /\ id'[c] = new
        /\ \A d \in Callers \ {c} :
              /\ todo'[d] = {} /\ todo[d] = {} /\ ~Reloading(d) /\ pc'[d] = pc[d]
    BY <1>1, <1>3, <2>2, OneReloads DEF GoTo, Inv, TypeOK
  <2>6. AllEntries' = AllEntries \cup {entry} /\ Live' = Live \cup {entry}
    BY <1>3, <2>2 DEF AllEntries, Live
  <2>7. \A e \in AllEntries : e.id # new
    BY <2>1 DEF UsedIds, AllEntries
  <2>8. TypeOK'
    BY <1>3, <2>1, <2>2, <2>4 DEF GoTo, Inv, TypeOK, PCs
  <2>9. Mutex' /\ CreatedOnce'
    BY <1>1, <1>3, <2>5 DEF Inv, Mutex, Reloading, CreatedOnce
  <2>10. Numbered'
    <3>1. UsedIds' = UsedIds \cup {new}
      BY <1>3, <2>2 DEF UsedIds
    <3>2. IsFiniteSet(UsedIds')
      BY <3>1, FS_AddElement DEF Inv, Numbered
    <3>3. breaks \in Nat
      BY DEF Inv, TypeOK
    <3>4. entry \notin entries
      BY <2>2, <2>7 DEF AllEntries
    <3>5. QED
      BY <1>3, <2>2, <2>6, <2>7, <3>2, <3>3, <3>4 DEF Inv, Numbered
  <2>11. Remembers'
    <3>1. \A i : (Listed(i)' <=> Listed(i)) /\ (Awaited(i)' <=> i = new) /\ ~Awaited(i)
      BY <1>1, <1>3, <2>5 DEF Listed, Awaited, Reloading
    <3>2. ~Listed(new)
      BY <2>7 DEF Listed, Inv, Remembers, AllEntries
    <3>3. \A e \in AllEntries' : e.lost = 0 <=> Listed(e.id)' \/ Awaited(e.id)'
      BY <2>2, <2>6, <2>7, <3>1 DEF Inv, Remembers
    <3>4. new \notin removals
      BY <2>1 DEF UsedIds
    <3>5. \A d \in Callers : pc'[d] # "removing" /\ (pc'[d] = "adding" => d = c)
      BY <2>5 DEF Reloading
    <3>6. QED
      BY <1>3, <2>2, <2>5, <2>6, <3>1, <3>2, <3>3, <3>4, <3>5 DEF Inv, Remembers
  <2>12. Progress'
    <3>1. \A r \in todo'[c] : r.job # row.job
      BY <2>5 DEF Inv, Progress
    <3>2. \A e \in Live : e.job # row.job
      BY DEF Inv, Progress
    <3>3. \A d, e \in AllEntries' : d.job = e.job /\ d.lost = e.lost => d = e
      BY <2>2, <2>6, <3>2 DEF Live, Inv, Progress
    <3>4. \A d \in Callers : pc'[d] # "list"
      BY <2>5 DEF Reloading
    <3>5. QED
      BY <2>2, <2>5, <2>6, <3>1, <3>3, <3>4 DEF Inv, Progress
  <2>13. Planned' = Planned
    <3>1. UNION {todo[d] : d \in Callers} = todo[c]
      BY <2>5
    <3>2. UNION {todo'[d] : d \in Callers} = todo[c] \ {row}
      BY <2>5
    <3>3. QED
      BY <2>2, <2>6, <3>1, <3>2 DEF Planned
  <2>14. Effective'
    BY <1>1, <1>3, <2>5, <2>13 DEF Inv, Effective, Current, Callers
  <2>15. Synced'
    <3>1. \A d \in Callers :
             \/ pc'[d] = pc[d]
             \/ pc[d] = "add" /\ pc'[d] = "adding"
      BY <1>1, <2>5
    <3>2. QED
      BY <1>3, <2>13, <3>1 DEF Inv, Synced, Reflected, Scheduled, Callers
  <2>16. QED
    BY <2>8, <2>9, <2>10, <2>11, <2>12, <2>14, <2>15 DEF Inv
<1>4. QED
  BY <1>2, <1>3 DEF Add

(* The answer of add(): the entry is in the list now.                      *)
LEMMA AddedStep == ASSUME Inv, NEW c \in Callers, Added(c) PROVE Inv'
<1>1. pc[c] = "adding" /\ Reloading(c)
  BY DEF Added, Reloading
<1>2. CASE Fail(c)
  BY <1>2, FailStep
<1>3. ASSUME NEW e \in entries, e.id = id[c],
             scheduledJobs' = Append(scheduledJobs, id[c]),
             GoTo(c, "add"),
             id' = [id EXCEPT ![c] = NoId],
             UNCHANGED << tableVars, entries, additions, removals, started, lock,
                          up, written, todo, history >>
      PROVE  Inv'
  <2> USE DEF tableVars, history
  <2>1. /\ pc'[c] = "add"
        /\ \A d \in Callers \ {c} : pc'[d] = pc[d] /\ ~Reloading(d)
    BY <1>1, <1>3, OneReloads DEF GoTo, Inv, TypeOK
  <2>2. AllEntries' = AllEntries /\ Live' = Live /\ Planned' = Planned /\ UsedIds' = UsedIds
    BY <1>3 DEF AllEntries, Live, Planned, UsedIds
  <2>3. /\ scheduledJobs' \in Seq(Nat)
        /\ DOMAIN scheduledJobs' = DOMAIN scheduledJobs \cup {Len(scheduledJobs) + 1}
        /\ Len(scheduledJobs) + 1 \notin DOMAIN scheduledJobs
        /\ \A i \in DOMAIN scheduledJobs : scheduledJobs'[i] = scheduledJobs[i]
        /\ scheduledJobs'[Len(scheduledJobs) + 1] = id[c]
    BY <1>3, AppendIndices DEF Inv, TypeOK
  <2>4. TypeOK'
    BY <1>3, <2>3 DEF GoTo, NoId, Inv, TypeOK, PCs
  <2>5. Mutex' /\ CreatedOnce'
    BY <1>1, <1>3, <2>1 DEF Inv, Mutex, Reloading, CreatedOnce
  <2>6. Numbered'
    BY <1>3, <2>2 DEF Inv, Numbered
  <2>7. Remembers'
    <3>1. ASSUME NEW i
          PROVE  /\ Listed(i)' <=> Listed(i) \/ i = id[c]
                 /\ Awaited(i) <=> i = id[c]
                 /\ ~Awaited(i)'
      BY <1>1, <2>1, <2>3 DEF Listed, Awaited, Reloading
    <3>2. \A f \in AllEntries' : f.lost = 0 <=> Listed(f.id)' \/ Awaited(f.id)'
      BY <2>2, <3>1 DEF Inv, Remembers
    <3>3. /\ id[c] \notin removals
          /\ \A i \in DOMAIN scheduledJobs : scheduledJobs[i] # id[c]
      BY <1>1 DEF Inv, Remembers, Listed
    <3>4. \A d \in Callers : pc'[d] \notin {"removing", "adding"}
      BY <2>1 DEF Reloading
    <3>5. ASSUME NEW i \in DOMAIN scheduledJobs'
          PROVE  /\ scheduledJobs'[i] \notin removals
                 /\ \E f \in entries : f.id = scheduledJobs'[i]
      BY <1>3, <2>3, <3>3 DEF Inv, Remembers
    <3>6. \A i, k \in DOMAIN scheduledJobs' :
             scheduledJobs'[i] = scheduledJobs'[k] => i = k
      BY <2>3, <3>3 DEF Inv, Remembers
    <3>7. QED
      BY <1>3, <3>2, <3>4, <3>5, <3>6 DEF Remembers
  <2>8. Progress'
    BY <1>1, <1>3, <2>1, <2>2 DEF Inv, Progress
  <2>9. Effective'
    BY <1>1, <1>3, <2>1, <2>2 DEF Inv, Effective, Current, Callers
  <2>10. Synced'
    <3>1. \A d \in Callers :
             \/ pc'[d] = pc[d]
             \/ pc[d] = "adding" /\ pc'[d] = "add"
      BY <1>1, <2>1
    <3>2. QED
      BY <1>3, <2>2, <3>1 DEF Inv, Synced, Reflected, Scheduled, Callers
  <2>11. QED
    BY <2>4, <2>5, <2>6, <2>7, <2>8, <2>9, <2>10 DEF Inv
<1>4. QED
  BY <1>2, <1>3 DEF Added

(* The end of a reload.                                                    *)
LEMMA StartStep == ASSUME Inv, NEW c \in Callers, Start(c) PROVE Inv'
<1>1. pc[c] = "add" /\ Reloading(c) /\ todo[c] = {}
  BY DEF Start, Reloading
<1>2. CASE Fail(c)
  BY <1>2, FailStep
<1>3. CASE /\ started' = TRUE
           /\ lock' = Nobody
           /\ GoTo(c, "ok")
           /\ up' = (up \/ c = Main)
           /\ UNCHANGED << tableVars, entries, additions, removals, scheduledJobs,
                           written, callVars, history >>
  <2> USE DEF tableVars, callVars, history
  <2>1. pc'[c] = "ok" /\ \A d \in Callers \ {c} : pc'[d] = pc[d]
    BY <1>3 DEF GoTo, Inv, TypeOK
  <2>2. AllEntries' = AllEntries /\ Live' = Live /\ Planned' = Planned /\ UsedIds' = UsedIds
    BY <1>3 DEF AllEntries, Live, Planned, UsedIds
  <2>3. TypeOK'
    BY <1>3 DEF GoTo, Inv, TypeOK, PCs, Resting
  <2>4. Mutex'
    BY <1>1, <1>3, <2>1, OneReloads, ConstantsAssumption DEF Mutex, Reloading
  <2>5. CreatedOnce' /\ Numbered'
    BY <1>3, <2>2 DEF Inv, CreatedOnce, Numbered
  <2>6. Remembers'
    <3>1. \A i : (Listed(i)' <=> Listed(i)) /\ (Awaited(i)' <=> Awaited(i))
      BY <1>1, <1>3, <2>1 DEF Listed, Awaited
    <3>2. QED
      BY <1>1, <1>3, <2>1, <2>2, <3>1 DEF Inv, Remembers
  <2>7. Progress'
    BY <1>1, <1>3, <2>1, <2>2 DEF Inv, Progress
  <2>8. Effective'
    BY <1>1, <1>3, <2>1, <2>2 DEF Inv, Effective, Callers, Current
  <2>9. Synced'
    BY <1>1, <1>3, <2>1, <2>2 DEF Inv, Synced, Reflected, Scheduled, Callers
  <2>10. QED
    BY <2>3, <2>4, <2>5, <2>6, <2>7, <2>8, <2>9 DEF Inv
<1>4. QED
  BY <1>2, <1>3 DEF Start

(* The library takes a call: an entry it was asked to add is one already;  *)
(* an id it was asked to remove is not one of the list.                    *)
LEMMA CarryOutStep == ASSUME Inv, CarryOut PROVE Inv'
<1>1. UNCHANGED << tableVars, scheduledJobs, started, lock, up, pc, written,
                   callVars, history >>
  BY DEF CarryOut
<1> USE <1>1 DEF tableVars, callVars, history
<1>2. Mutex' /\ CreatedOnce'
  BY DEF Inv, Mutex, Reloading, CreatedOnce
<1>3. \A i : (Listed(i)' <=> Listed(i)) /\ (Awaited(i)' <=> Awaited(i))
  BY DEF Listed, Awaited
<1>4. ASSUME NEW e \in additions, entries' = entries \cup {e},
             additions' = additions \ {e}, UNCHANGED removals
      PROVE  Inv'
  <2>1. AllEntries' = AllEntries /\ Live' = Live
    BY <1>4 DEF AllEntries, Live
  <2>2. UsedIds' = UsedIds /\ Planned' = Planned
    BY <1>4, <2>1 DEF UsedIds, Planned, AllEntries
  <2>3. TypeOK'
    BY <1>4 DEF Inv, TypeOK
  <2>4. Numbered'
    BY <1>4, <2>1, <2>2 DEF Inv, Numbered
  <2>5. Remembers'
    BY <1>3, <1>4, <2>1 DEF Inv, Remembers
  <2>6. Progress' /\ Effective' /\ Synced'
    BY <2>1, <2>2 DEF Inv, Progress, Effective, Current, Synced, Reflected, Scheduled
  <2>7. QED
    BY <1>2, <2>3, <2>4, <2>5, <2>6 DEF Inv
<1>5. ASSUME NEW i \in removals, entries' = {e \in entries : e.id # i},
             removals' = removals \ {i}, UNCHANGED additions
      PROVE  Inv'
  <2>1. AllEntries' \subseteq AllEntries /\ Live' \subseteq Live
    BY <1>5 DEF AllEntries, Live
  <2>2. Planned' \subseteq Planned
    BY <2>1 DEF Planned
  <2>3. (\A c \in Callers : pc[c] # "removing") => Planned' = Planned
    <3> SUFFICES ASSUME \A c \in Callers : pc[c] # "removing", NEW e \in Live, e.id = i
                 PROVE  FALSE
      BY <1>5 DEF Planned, Live, AllEntries
    <3>1. Listed(i) \/ Awaited(i)
      BY DEF Live, Inv, Remembers
    <3>2. ~Listed(i)
      BY DEF Listed, Inv, Remembers
    <3>3. ~Awaited(i)
      BY DEF Awaited, Inv, Remembers
    <3>4. QED
      BY <3>1, <3>2, <3>3
  <2>4. TypeOK'
    BY <1>5 DEF Inv, TypeOK
  <2>5. Numbered'
    <3>1. UsedIds' \subseteq UsedIds
      BY <1>5 DEF UsedIds
    <3>2. IsFiniteSet(UsedIds')
      BY <3>1, FS_Subset DEF Inv, Numbered
    <3>3. QED
      BY <1>5, <2>1, <3>2 DEF Inv, Numbered
  <2>6. Remembers'
    <3>1. \A e \in AllEntries' : e.lost = 0 <=> Listed(e.id)' \/ Awaited(e.id)'
      BY <1>3, <2>1 DEF Inv, Remembers
    <3>2. ASSUME NEW k \in DOMAIN scheduledJobs
          PROVE  /\ scheduledJobs[k] \notin removals'
                 /\ \E e \in entries' : e.id = scheduledJobs[k]
      <4>1. PICK e \in entries : e.id = scheduledJobs[k]
        BY DEF Inv, Remembers
      <4>2. scheduledJobs[k] \notin removals
        BY DEF Inv, Remembers
      <4>3. QED
        BY <1>5, <4>1, <4>2
    <3>3. ASSUME NEW c \in Callers, pc[c] = "adding"
          PROVE  /\ id[c] \notin removals' /\ ~Listed(id[c])'
                 /\ \E e \in AllEntries' : e.id = id[c]
      <4>1. PICK e \in AllEntries : e.id = id[c]
        BY <3>3 DEF Inv, Remembers
      <4>2. id[c] \notin removals /\ ~Listed(id[c])
        BY <3>3 DEF Inv, Remembers
      <4>3. e \in AllEntries'
        BY <1>5, <4>1, <4>2 DEF AllEntries
      <4>4. QED
        BY <1>3, <1>5, <4>1, <4>2, <4>3
    <3>4. QED
      BY <1>5, <3>1, <3>2, <3>3 DEF Inv, Remembers
  <2>7. Progress'
    <3>1. Live = {} => Live' = {}
      BY <2>1
    <3>2. QED
      BY <2>1, <3>1 DEF Inv, Progress
  <2>8. Effective'
    BY <2>2 DEF Inv, Effective, Current
  <2>9. Synced'
    BY <2>3 DEF Inv, Synced, Reflected, Scheduled
  <2>10. QED
    BY <1>2, <2>4, <2>5, <2>6, <2>7, <2>8, <2>9 DEF Inv
<1>6. QED
  BY <1>4, <1>5 DEF CarryOut

LEMMA RestartStep == ASSUME Inv, Restart PROVE Inv'
<1> USE DEF Restart, tableVars
<1>1. AllEntries' = {} /\ Live' = {} /\ UsedIds' = {} /\ Planned' = {}
  BY DEF AllEntries, Live, UsedIds, Planned
<1>2. TypeOK'
  <2>1. scheduledJobs' \in Seq(Nat)
    BY EmptySeq
  <2>2. pc' \in [Callers -> PCs] /\ lock' \in Callers \cup {Nobody}
    BY DEF PCs, Resting
  <2>3. /\ todo' \in [Callers -> SUBSET [at : Nat, job : Jobs, ver : Nat, valid : BOOLEAN]]
        /\ written' \in [Callers -> [job : Jobs \cup {Nobody}, ver : Nat]]
        /\ id' \in [Callers -> Nat]
    BY DEF Nothing, NoId
  <2>4. QED
    BY <2>1, <2>2, <2>3 DEF Inv, TypeOK
<1>3. Mutex' /\ CreatedOnce'
  BY ConstantsAssumption DEF Inv, Mutex, Reloading, CreatedOnce
<1>4. Numbered'
  BY <1>1, FS_EmptySet DEF Numbered
<1>5. Remembers'
  <2>1. DOMAIN scheduledJobs' = {}
    BY EmptySeq
  <2>2. QED
    BY <1>1, <2>1 DEF Remembers
<1>6. Progress'
  BY <1>1 DEF Progress
<1>7. Effective'
  BY DEF Effective, Callers, Nothing, Inv, TypeOK, Rows
<1>8. Synced'
  BY DEF Synced, Callers
<1>9. QED
  BY <1>2, <1>3, <1>4, <1>5, <1>6, <1>7, <1>8 DEF Inv

-----------------------------------------------------------------------------
LEMMA InvNext == ASSUME Inv, [Next]_vars PROVE Inv'
<1>1. ASSUME NEW q \in Requests, Request(q) \/ RereadJob(q) \/ Cancel(q)
      PROVE  Inv'
  BY <1>1, RequestsStep, RereadJobStep, CancelStep
<1>2. ASSUME NEW c \in Callers, Reload(c) PROVE Inv'
  BY <1>2, LockStep, RemovedStep, ListStep, AddStep, AddedStep, StartStep DEF Reload
<1>3. CASE CarryOut
  BY <1>3, CarryOutStep
<1>4. CASE Restart
  BY <1>4, RestartStep
<1>5. CASE UNCHANGED vars
  <2> USE <1>5 DEF vars, tableVars, cronVars, callVars, history
  <2>1. AllEntries' = AllEntries /\ Live' = Live /\ Planned' = Planned /\ UsedIds' = UsedIds
    BY DEF AllEntries, Live, Planned, UsedIds
  <2>2. \A i : (Listed(i)' <=> Listed(i)) /\ (Awaited(i)' <=> Awaited(i))
    BY DEF Listed, Awaited
  <2>3. TypeOK' /\ Mutex' /\ CreatedOnce' /\ Numbered'
    BY <2>1 DEF Inv, TypeOK, Mutex, Reloading, CreatedOnce, Numbered
  <2>4. Remembers'
    BY <2>1, <2>2 DEF Inv, Remembers
  <2>5. Progress' /\ Effective' /\ Synced'
    BY <2>1 DEF Inv, Progress, Effective, Current, Synced, Reflected, Scheduled
  <2>6. QED
    BY <2>3, <2>4, <2>5 DEF Inv
<1>6. QED
  BY <1>1, <1>2, <1>3, <1>4, <1>5 DEF Next

LEMMA InvHolds == Spec => []Inv
<1>1. QED
  BY InvInit, InvNext, PTL DEF Spec

(* The variables of Scheduler keep their types.                            *)
THEOREM TypeCorrect == Spec => []TypeOK
<1>1. Inv => TypeOK
  BY DEF Inv
<1>2. QED
  BY <1>1, InvHolds, PTL

(* Whatever reloads run at the same time, fail, or are dropped half-way, a *)
(* job has one entry the program knows of, and at most one more for each   *)
(* call of the cron library that was left unfinished.                      *)
THEOREM Once == Spec => []ScheduledOnce
<1>1. Inv => ScheduledOnce
  BY DEF Inv, Progress, AllEntries, ScheduledOnce
<1>2. QED
  BY <1>1, InvHolds, PTL

(* After a change was answered with success no entry the program knows of  *)
(* fires by an older schedule of the job.                                  *)
THEOREM AnswersHold == Spec => []AnsweredIsEffective
<1>1. ASSUME Inv PROVE AnsweredIsEffective
  <2> SUFFICES ASSUME NEW q \in Requests, pc[q] = "ok", NEW e \in Kept,
                      e.job = written[q].job
               PROVE  e.ver >= written[q].ver
    BY DEF AnsweredIsEffective
  <2>1. Current(q)
    BY <1>1 DEF Inv, Effective
  <2>2. << e.job, e.ver >> \in Planned
    BY DEF Kept, Planned, Live, AllEntries
  <2>3. QED
    BY <2>1, <2>2 DEF Current
<1>2. QED
  BY <1>1, InvHolds, PTL

(* When nobody reloads and no reload was left undone, the entries the      *)
(* program knows of are the enabled rows.                                  *)
THEOREM EntriesAreRows == Spec => []InSync
<1>1. ASSUME Inv PROVE InSync
  <2> SUFFICES ASSUME Quiet, ~stale
               PROVE  /\ started
                      /\ {<< e.job, e.ver >> : e \in Kept} =
                            {<< j, rows[j].ver >> : j \in {i \in Jobs : Scheduled(i)}}
    BY DEF InSync
  <2>1. started
    BY <1>1 DEF Inv, Synced, Quiet
  <2>2. \A c \in Callers : pc[c] \in {"idle", "ok"}
    BY DEF Quiet, Resting
  <2>3. \A j \in Jobs : Reflected(j)
    BY <1>1, <2>2 DEF Inv, Synced, Callers
  <2>4. \A c \in Callers : todo[c] = {}
    BY <1>1, <2>2 DEF Inv, Progress
  <2>5. Live = Kept
    <3>1. ASSUME NEW e \in additions, e.lost = 0 PROVE e \in entries
      <4>1. Listed(e.id)
        BY <1>1, <2>2, <3>1 DEF Inv, Remembers, AllEntries, Awaited
      <4>2. PICK d \in entries : d.id = e.id
        BY <1>1, <4>1 DEF Inv, Remembers, Listed
      <4>3. QED
        BY <1>1, <4>2 DEF Inv, Numbered, AllEntries
    <3>2. QED
      BY <3>1 DEF Live, Kept, AllEntries
  <2>6. Planned = {<< e.job, e.ver >> : e \in Kept}
    BY <2>4, <2>5 DEF Planned
  <2>7. \A e \in Kept : e.job \in Jobs /\ e.ver \in Nat
    BY <1>1 DEF Inv, TypeOK, Kept, Entries
  <2>8. \A j \in Jobs : rows[j].ver \in Nat
    BY <1>1 DEF Inv, TypeOK, Rows
  <2>9. \A j \in Jobs : \A v \in Nat :
           << j, v >> \in Planned <=> Scheduled(j) /\ v = rows[j].ver
    BY <2>3 DEF Reflected
  <2>10. Planned \subseteq {<< j, rows[j].ver >> : j \in {i \in Jobs : Scheduled(i)}}
    BY <2>6, <2>7, <2>9
  <2>11. {<< j, rows[j].ver >> : j \in {i \in Jobs : Scheduled(i)}} \subseteq Planned
    BY <2>8, <2>9
  <2>12. QED
    BY <2>1, <2>6, <2>10, <2>11
<1>2. QED
  BY <1>1, InvHolds, PTL

=============================================================================
