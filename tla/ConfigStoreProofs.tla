------------------------- MODULE ConfigStoreProofs -------------------------
(***************************************************************************)
(* Theorems about ConfigStore, for every set of rows, jobs and requests    *)
(* and any number of writes.                                               *)
(***************************************************************************)
EXTENDS ConfigStore, TLAPS

(* The columns of a row, and a secret that was typed in for one of them.   *)
LEMMA FieldsKnown ==
    ASSUME NEW i \in Rows
    PROVE  Fields(i) \subseteq AllFields
  BY DEF Fields, AllFields

LEMMA NewSecretTyped ==
    ASSUME NEW i \in Rows, NEW f \in Fields(i),
           ver[i] \in Nat, ver[i] < MaxVersion
    PROVE  /\ NewSecret(i, f) \in Typed
           /\ NewSecret(i, f) \notin {Null, Blank}
           /\ NewSecret(i, f).row = i /\ NewSecret(i, f).field = f
<1>1. MaxVersion \in Nat /\ None \notin Rows
  BY ConstantsAssumption
<1>2. ver[i] + 1 \in 1 .. MaxVersion
  BY <1>1
<1>3. f \in AllFields
  BY FieldsKnown
<1>4. NewSecret(i, f).row # None
  BY <1>1 DEF NewSecret
<1>5. NewSecret(i, f).row # Null.row /\ NewSecret(i, f).row # Blank.row
  BY <1>4 DEF Null, Blank
<1>6. QED
  BY <1>2, <1>3, <1>5 DEF NewSecret, Typed

(* Neither of the two markers is a secret somebody typed in, and they      *)
(* differ.                                                                 *)
LEMMA MarkersDiffer == Null # Blank /\ Null \notin Typed /\ Blank \notin Typed
<1>1. Null.field # Blank.field
  BY DEF Null, Blank
<1>2. Null.row = None /\ Blank.row = None
  BY DEF Null, Blank
<1>3. \A s \in Typed : s.row # None
  BY ConstantsAssumption DEF Typed
<1>4. QED
  BY <1>1, <1>2, <1>3

-----------------------------------------------------------------------------
(* The type invariant is inductive once it covers what a request has read. *)
Storable(i, secrets) ==
    /\ secrets \in Secrets(i)
    /\ \A f \in Fields(i) \ {"remoteSecret"} : secrets[f] # Null

Shaped ==
    /\ DOMAIN secret = Rows /\ DOMAIN latest = Rows
    /\ DOMAIN typed = Requests /\ DOMAIN seen = Requests

RequestsTyped ==
    \A q \in Requests :
        /\ pc[q] # "idle" => row[q] \in Rows
        /\ pc[q] = "write" =>
              /\ state[row[q]] # "new"
              /\ typed[q] \subseteq Fields(row[q])
              /\ seen[q].ver \in 0 .. ver[row[q]]
              /\ Storable(row[q], seen[q].secret)

TypeInv == TypeOK /\ Shaped /\ RequestsTyped

LEMMA TypeInvInit == Init => TypeInv
<1> SUFFICES ASSUME Init PROVE TypeInv
  OBVIOUS
<1> USE ConstantsAssumption DEF Init
<1>1. TypeOK
  BY DEF TypeOK, Secrets, Stored, NoJob, PCs
<1>2. Shaped
  BY DEF Shaped
<1>3. RequestsTyped
  BY DEF RequestsTyped
<1>4. QED
  BY <1>1, <1>2, <1>3 DEF TypeInv

(* The secrets an update writes can be stored.                             *)
LEMMA WrittenTyped ==
    ASSUME TypeInv, NEW q \in Requests, pc[q] = "write", ver[row[q]] < MaxVersion
    PROVE  Storable(row[q], [f \in Fields(row[q]) |->
                               IF f \in typed[q] THEN NewSecret(row[q], f)
                               ELSE Kept(q, f)])
<1>1. row[q] \in Rows /\ Storable(row[q], seen[q].secret)
  BY DEF TypeInv, RequestsTyped
<1>2. ver[row[q]] \in Nat
  BY <1>1, ConstantsAssumption DEF TypeInv, TypeOK
<1>3. \A f \in Fields(row[q]) :
          /\ NewSecret(row[q], f) \in Typed
          /\ NewSecret(row[q], f) # Null
  BY <1>1, <1>2, NewSecretTyped
<1>4. \A f \in Fields(row[q]) : Kept(q, f) \in Typed \cup {Blank, Null}
  BY <1>1 DEF Storable, Secrets, Kept
<1>5. \A f \in Fields(row[q]) \ {"remoteSecret"} : Kept(q, f) # Null
  BY <1>1 DEF Storable, Kept
<1>6. QED
  BY <1>3, <1>4, <1>5 DEF Storable, Secrets

(* And so can those of a new row.                                          *)
LEMMA CreatedTyped ==
    ASSUME TypeInv, NEW i \in Rows, NEW fields \in SUBSET Fields(i),
           ver[i] < MaxVersion
    PROVE  Storable(i, [f \in Fields(i) |->
                          IF f \in fields THEN NewSecret(i, f)
                          ELSE IF f = "remoteSecret" THEN Null ELSE Blank])
<1>1. ver[i] \in Nat
  BY ConstantsAssumption DEF TypeInv, TypeOK
<1>2. \A f \in Fields(i) : NewSecret(i, f) \in Typed /\ NewSecret(i, f) # Null
  BY <1>1, NewSecretTyped
<1>3. QED
  BY <1>2, MarkersDiffer DEF Storable, Secrets

(* A write of storable secrets keeps the types, whoever does it.           *)
LEMMA PutTyped ==
    ASSUME TypeInv, NEW i \in Rows, NEW secrets, NEW fields, Put(i, secrets, fields),
           Storable(i, secrets)
    PROVE  /\ state' \in [Rows -> {"new", "stored", "deleted"}]
           /\ ver' \in [Rows -> 0 .. MaxVersion]
           /\ ver'[i] = ver[i] + 1
           /\ \A k \in Rows \ {i} : ver'[k] = ver[k] /\ state'[k] = state[k]
           /\ \A k \in Rows :
                 /\ state[k] # "new" => state'[k] # "new"
                 /\ secret'[k] \in Secrets(k)
                 /\ latest'[k] \in Secrets(k)
                 /\ state'[k] = "stored" => Storable(k, secret'[k])
           /\ DOMAIN secret' = Rows /\ DOMAIN latest' = Rows
<1> USE DEF TypeInv, TypeOK, Shaped
<1>1. MaxVersion \in Nat /\ ver[i] \in Nat /\ ver[i] < MaxVersion
  BY ConstantsAssumption DEF Put
<1>2. /\ state' \in [Rows -> {"new", "stored", "deleted"}]
      /\ ver' \in [Rows -> 0 .. MaxVersion]
      /\ ver'[i] = ver[i] + 1
      /\ \A k \in Rows \ {i} : ver'[k] = ver[k] /\ state'[k] = state[k]
      /\ state'[i] = "stored"
  BY <1>1 DEF Put
<1>3. /\ secret'[i] = secrets
      /\ \A k \in Rows \ {i} : secret'[k] = secret[k] /\ latest'[k] = latest[k]
      /\ DOMAIN secret' = Rows /\ DOMAIN latest' = Rows
  BY DEF Put
<1>4. latest'[i] \in Secrets(i)
  <2>1. latest'[i] = [f \in Fields(i) |->
            IF f \in fields \/ state[i] = "new" THEN secrets[f] ELSE latest[i][f]]
    BY DEF Put
  <2>2. \A f \in Fields(i) : /\ secrets[f] \in Typed \cup {Blank, Null}
                             /\ latest[i][f] \in Typed \cup {Blank, Null}
    BY DEF Storable, Secrets
  <2>3. QED
    BY <2>1, <2>2 DEF Secrets
<1>5. QED
  BY <1>2, <1>3, <1>4 DEF Storable, Stored

(* What other requests have read stays typed while a row is written.       *)
LEMMA OthersTyped ==
    ASSUME TypeInv, NEW p \in Requests,
           ver' \in [Rows -> 0 .. MaxVersion],
           \A k \in Rows : state[k] # "new" => state'[k] # "new",
           \A k \in Rows : ver'[k] >= ver[k],
           pc'[p] = pc[p], row'[p] = row[p], typed'[p] = typed[p], seen'[p] = seen[p]
    PROVE  /\ pc'[p] # "idle" => row'[p] \in Rows
           /\ pc'[p] = "write" =>
                 /\ state'[row'[p]] # "new"
                 /\ typed'[p] \subseteq Fields(row'[p])
                 /\ seen'[p].ver \in 0 .. ver'[row'[p]]
                 /\ Storable(row'[p], seen'[p].secret)
<1>1. pc[p] # "idle" => row[p] \in Rows
  BY DEF TypeInv, RequestsTyped
<1>2. ASSUME pc[p] = "write"
      PROVE  seen[p].ver \in 0 .. ver'[row[p]]
  <2>1. /\ row[p] \in Rows
        /\ seen[p].ver \in 0 .. ver[row[p]]
        /\ ver[row[p]] \in Nat /\ ver'[row[p]] \in Nat
        /\ ver'[row[p]] >= ver[row[p]]
    BY <1>2, ConstantsAssumption DEF TypeInv, TypeOK, RequestsTyped
  <2>2. QED
    BY <2>1
<1>3. QED
  BY <1>1, <1>2 DEF TypeInv, RequestsTyped

LEMMA TypeInvStep == TypeInv /\ [Next]_vars => TypeInv'
<1> SUFFICES ASSUME TypeInv, [Next]_vars
             PROVE  TypeInv'
  OBVIOUS
<1> USE DEF rowVars, reqVars
<1>1. ASSUME NEW q \in Requests, NEW i \in Rows, NEW fields \in SUBSET Fields(i),
             CreateRow(q, i, fields)
      PROVE  TypeInv'
  <2> DEFINE secrets == [f \in Fields(i) |->
                           IF f \in fields THEN NewSecret(i, f)
                           ELSE IF f = "remoteSecret" THEN Null ELSE Blank]
  <2>1. Put(i, secrets, fields) /\ UNCHANGED << jobs, uploads, raced, reqVars >>
    BY <1>1 DEF CreateRow
  <2>2. Storable(i, secrets)
    BY <2>1, CreatedTyped DEF Put
  <2> HIDE DEF secrets
  <2>3. /\ state' \in [Rows -> {"new", "stored", "deleted"}]
        /\ ver' \in [Rows -> 0 .. MaxVersion]
        /\ ver'[i] = ver[i] + 1
        /\ \A k \in Rows \ {i} : ver'[k] = ver[k] /\ state'[k] = state[k]
        /\ \A k \in Rows :
              /\ state[k] # "new" => state'[k] # "new"
              /\ secret'[k] \in Secrets(k)
              /\ latest'[k] \in Secrets(k)
              /\ state'[k] = "stored" => Storable(k, secret'[k])
        /\ DOMAIN secret' = Rows /\ DOMAIN latest' = Rows
    BY <2>1, <2>2, PutTyped
  <2>4. \A k \in Rows : ver'[k] >= ver[k]
    BY <2>3, ConstantsAssumption DEF TypeInv, TypeOK
  <2>5. RequestsTyped'
    BY <2>1, <2>3, <2>4, OthersTyped DEF RequestsTyped
  <2>6. Shaped'
    BY <2>1, <2>3 DEF Shaped, TypeInv
  <2>7. TypeOK'
    BY <2>1, <2>3 DEF TypeOK, TypeInv, Storable, Stored
  <2>8. QED
    BY <2>5, <2>6, <2>7 DEF TypeInv
<1>2. ASSUME NEW q \in Requests, WriteRow(q)
      PROVE  TypeInv'
  <2> DEFINE i == row[q]
             secrets == [f \in Fields(i) |->
                           IF f \in typed[q] THEN NewSecret(i, f) ELSE Kept(q, f)]
  <2>1. /\ pc[q] = "write" /\ i \in Rows
        /\ Put(i, secrets, typed[q])
        /\ raced' \in {raced, raced \cup {i}}
        /\ pc' = [pc EXCEPT ![q] = "reread"]
        /\ UNCHANGED << row, typed, seen, jobs, uploads >>
    BY <1>2 DEF WriteRow, GoTo, TypeInv, RequestsTyped
  <2>2. Storable(i, secrets)
    BY <2>1, WrittenTyped DEF Put
  <2> HIDE DEF secrets
  <2>3. /\ state' \in [Rows -> {"new", "stored", "deleted"}]
        /\ ver' \in [Rows -> 0 .. MaxVersion]
        /\ ver'[i] = ver[i] + 1
        /\ \A k \in Rows \ {i} : ver'[k] = ver[k] /\ state'[k] = state[k]
        /\ \A k \in Rows :
              /\ state[k] # "new" => state'[k] # "new"
              /\ secret'[k] \in Secrets(k)
              /\ latest'[k] \in Secrets(k)
              /\ state'[k] = "stored" => Storable(k, secret'[k])
        /\ DOMAIN secret' = Rows /\ DOMAIN latest' = Rows
    BY <2>1, <2>2, PutTyped
  <2>4. \A k \in Rows : ver'[k] >= ver[k]
    BY <2>1, <2>3, ConstantsAssumption DEF TypeInv, TypeOK
  <2>5. RequestsTyped'
    <3>1. ASSUME NEW p \in Requests, p # q
          PROVE  pc'[p] = pc[p]
      BY <2>1, <3>1 DEF TypeInv, TypeOK
    <3>2. pc'[q] = "reread" /\ row'[q] \in Rows
      BY <2>1 DEF TypeInv, TypeOK
    <3>3. QED
      BY <2>1, <2>3, <2>4, <3>1, <3>2, OthersTyped DEF RequestsTyped
  <2>6. Shaped'
    BY <2>1, <2>3 DEF Shaped, TypeInv
  <2>7. TypeOK'
    BY <2>1, <2>3 DEF TypeOK, TypeInv, Storable, Stored, PCs
  <2>8. QED
    BY <2>5, <2>6, <2>7 DEF TypeInv
<1>3. ASSUME NEW q \in Requests, NEW i \in Rows, NEW fields \in SUBSET Fields(i),
             ReadRow(q, i, fields)
      PROVE  TypeInv'
  <2>1. Storable(i, secret[i]) /\ state[i] # "new" /\ ver[i] \in 0 .. ver[i]
    BY <1>3, ConstantsAssumption DEF ReadRow, TypeInv, TypeOK, Storable, Stored
  <2>2. QED
    BY <1>3, <2>1, FieldsKnown
    DEF ReadRow, TypeInv, TypeOK, Shaped, RequestsTyped, PCs, Stored
<1>4. ASSUME NEW q \in Requests, NEW i \in Rows, CountJobs(q, i)
      PROVE  TypeInv'
  BY <1>4 DEF CountJobs, TypeInv, TypeOK, Shaped, RequestsTyped, PCs, Stored
<1>5. ASSUME NEW q \in Requests, RowIsGone(q) \/ RereadRow(q) \/ BreakOff(q)
      PROVE  TypeInv'
  BY <1>5 DEF RowIsGone, RereadRow, BreakOff, Answered, TypeInv, TypeOK, Shaped,
              RequestsTyped, PCs, Stored
<1>6. ASSUME NEW q \in Requests, DeleteRow(q)
      PROVE  TypeInv'
  BY <1>6 DEF DeleteRow, Answered, TypeInv, TypeOK, Shaped, RequestsTyped, PCs, Stored
<1>7. ASSUME NEW j \in Jobs,
             DeleteJob(j) \/ \E s \in Sources, t \in Targets : PutJob(j, s, t)
      PROVE  TypeInv'
  BY <1>7 DEF DeleteJob, PutJob, NoJob, TypeInv, TypeOK, Shaped, RequestsTyped, Stored
<1>8. ASSUME NEW t \in Targets, AddUpload(t)
      PROVE  TypeInv'
  BY <1>8 DEF AddUpload, TypeInv, TypeOK, Shaped, RequestsTyped, Stored
<1>9. CASE UNCHANGED vars
  BY <1>9 DEF vars, TypeInv, TypeOK, Shaped, RequestsTyped, Stored
<1>10. QED
  BY <1>1, <1>2, <1>3, <1>4, <1>5, <1>6, <1>7, <1>8, <1>9 DEF Next, RequestStep

(* The variables always have their types, and no NOT NULL column is NULL.  *)
THEOREM TypeCorrect == Spec => []TypeOK
<1>1. TypeInv => TypeOK
  BY DEF TypeInv
<1>2. QED
  BY TypeInvInit, TypeInvStep, <1>1, PTL DEF Spec

-----------------------------------------------------------------------------
(* What each step does to the state of the rows.                           *)
LEMMA RowsFrame ==
    ASSUME TypeInv, [Next]_vars
    PROVE  \/ \A k \in Rows : state[k] = "stored" => state'[k] = "stored"
           \/ \E q \in Requests : DeleteRow(q) /\ row[q] \in Rows
<1> USE DEF rowVars, reqVars, TypeInv, TypeOK
<1>1. ASSUME NEW i \in Rows, NEW secrets, NEW fields, Put(i, secrets, fields)
      PROVE  \A k \in Rows : state[k] = "stored" => state'[k] = "stored"
  BY <1>1 DEF Put
<1>2. ASSUME NEW q \in Requests, RequestStep(q), ~ DeleteRow(q)
      PROVE  \A k \in Rows : state[k] = "stored" => state'[k] = "stored"
  BY <1>1, <1>2 DEF RequestStep, WriteRow, RowIsGone, RereadRow, BreakOff, RequestsTyped
<1>3. ASSUME NEW q \in Requests, DeleteRow(q)
      PROVE  row[q] \in Rows
  BY <1>3 DEF DeleteRow, RequestsTyped
<1>4. QED
  BY <1>1, <1>2, <1>3
  DEF Next, CreateRow, ReadRow, CountJobs, PutJob, DeleteJob, AddUpload, vars

(* References.  The foreign keys alone keep them: the count that           *)
(* delete_source and delete_target make before is not needed.              *)
LEMMA ReferencesStep ==
    TypeInv /\ NoDanglingReference /\ [Next]_vars => NoDanglingReference'
<1> SUFFICES ASSUME TypeInv, NoDanglingReference, [Next]_vars
             PROVE  NoDanglingReference'
  OBVIOUS
<1> USE DEF rowVars, reqVars, Stored
<1>1. /\ \A j \in Jobs : jobs[j] # NoJob =>
            /\ jobs[j].source \in Rows /\ state[jobs[j].source] = "stored"
            /\ jobs[j].target \in Rows /\ state[jobs[j].target] = "stored"
      /\ \A t \in uploads : t \in Rows /\ state[t] = "stored"
  BY DEF TypeInv, TypeOK, NoDanglingReference, Rows
<1>2. CASE \A k \in Rows : state[k] = "stored" => state'[k] = "stored"
  <2>1. CASE UNCHANGED << jobs, uploads >>
    BY <1>1, <1>2, <2>1 DEF NoDanglingReference
  <2>2. ASSUME NEW j \in Jobs, NEW s \in Sources, NEW t \in Targets, PutJob(j, s, t)
        PROVE  NoDanglingReference'
    BY <1>1, <2>2 DEF PutJob, NoDanglingReference, TypeInv, TypeOK
  <2>3. ASSUME NEW j \in Jobs, DeleteJob(j)
        PROVE  NoDanglingReference'
    BY <1>1, <2>3 DEF DeleteJob, NoDanglingReference, TypeInv, TypeOK
  <2>4. ASSUME NEW t \in Targets, AddUpload(t)
        PROVE  NoDanglingReference'
    BY <1>1, <2>4 DEF AddUpload, NoDanglingReference
  <2>5. QED
    BY <2>1, <2>2, <2>3, <2>4
    DEF Next, RequestStep, CreateRow, ReadRow, CountJobs, WriteRow, RowIsGone,
        RereadRow, DeleteRow, BreakOff, vars
<1>3. ASSUME NEW q \in Requests, DeleteRow(q), row[q] \in Rows
      PROVE  NoDanglingReference'
  <2>1. UNCHANGED << jobs, uploads >>
    BY <1>3 DEF DeleteRow
  <2>2. CASE state[row[q]] = "stored" /\ Unreferred(row[q]) /\ row[q] \notin uploads
    <3>1. \A k \in Rows \ {row[q]} : state'[k] = state[k]
      BY <1>3, <2>2 DEF DeleteRow, TypeInv, TypeOK
    <3>2. \A j \in Jobs : row[q] \notin {jobs[j].source, jobs[j].target}
      BY <2>2 DEF Unreferred
    <3>3. QED
      BY <1>1, <2>1, <2>2, <3>1, <3>2 DEF NoDanglingReference
  <2>3. CASE ~ (state[row[q]] = "stored" /\ Unreferred(row[q]) /\ row[q] \notin uploads)
    BY <1>1, <1>3, <2>1, <2>3 DEF DeleteRow, NoDanglingReference
  <2>4. QED
    BY <2>2, <2>3
<1>4. QED
  BY RowsFrame, <1>2, <1>3

(* Nothing refers to a row that is deleted.                                *)
THEOREM ReferencesHold == Spec => []NoDanglingReference
<1>1. Init => NoDanglingReference
  BY DEF Init, NoDanglingReference
<1>2. QED
  BY TypeInvInit, TypeInvStep, ReferencesStep, <1>1, PTL DEF Spec

-----------------------------------------------------------------------------
(* A deleted row stays deleted: only Put makes a row stored, and it writes *)
(* a new row or one that is stored at this moment.                         *)
LEMMA DeletedStep ==
    ASSUME TypeInv, [Next]_vars, NEW k \in Rows, state[k] = "deleted"
    PROVE  state'[k] = "deleted"
<1> USE DEF rowVars, reqVars, TypeInv, TypeOK, Stored
<1>1. ASSUME NEW i \in Rows, NEW secrets, NEW fields, Put(i, secrets, fields),
             state[i] # "deleted"
      PROVE  state'[k] = "deleted"
  BY <1>1 DEF Put
<1>2. ASSUME NEW q \in Requests, RequestStep(q)
      PROVE  state'[k] = "deleted"
  <2>1. CASE WriteRow(q)
    BY <1>1, <2>1 DEF WriteRow, RequestsTyped
  <2>2. CASE DeleteRow(q)
    BY <2>2 DEF DeleteRow, RequestsTyped
  <2>3. QED
    BY <1>2, <2>1, <2>2 DEF RequestStep, RowIsGone, RereadRow, BreakOff
<1>3. ASSUME NEW q \in Requests, NEW i \in Rows, NEW fields, CreateRow(q, i, fields)
      PROVE  state'[k] = "deleted"
  BY <1>1, <1>3 DEF CreateRow
<1>4. QED
  BY <1>2, <1>3 DEF Next, ReadRow, CountJobs, PutJob, DeleteJob, AddUpload, vars

(* No request that has read a row before it was deleted brings it back.    *)
THEOREM DeletedStaysDeleted == Spec => DeletedForGood
<1>1. TypeInv /\ [Next]_vars =>
         [\A i \in Rows : state[i] = "deleted" => state'[i] = "deleted"]_vars
  BY DeletedStep
<1>2. QED
  BY TypeInvInit, TypeInvStep, <1>1, PTL DEF Spec, DeletedForGood

-----------------------------------------------------------------------------
(* Secrets.  Both properties rest on what a request that is about to write *)
(* has read: secrets that are in place, and the present ones if the row    *)
(* has not been written since.                                             *)
InPlace(i, secrets) ==
    \A f \in Fields(i) : secrets[f] \notin {Blank, Null} =>
        secrets[f].row = i /\ secrets[f].field = f

ReadsAreOfTheRow ==
    \A q \in Requests : pc[q] = "write" =>
        /\ InPlace(row[q], seen[q].secret)
        /\ seen[q].ver = ver[row[q]] => seen[q].secret = secret[row[q]]

SecretInv == SecretsStayInPlace /\ BlankKeepsSecret /\ ReadsAreOfTheRow

LEMMA SecretInvInit == Init => SecretInv
  BY DEF Init, SecretInv, SecretsStayInPlace, BlankKeepsSecret, ReadsAreOfTheRow

(* A write of secrets that are in place, seen by another request.          *)
LEMMA PutInPlace ==
    ASSUME TypeInv, SecretInv, NEW i \in Rows, NEW secrets, NEW fields,
           Put(i, secrets, fields), InPlace(i, secrets),
           NEW p \in Requests, pc[p] = "write",
           row'[p] = row[p], seen'[p] = seen[p]
    PROVE  /\ InPlace(row'[p], seen'[p].secret)
           /\ seen'[p].ver = ver'[row'[p]] => seen'[p].secret = secret'[row'[p]]
<1> USE DEF TypeInv, TypeOK, Shaped, RequestsTyped
<1>1. row'[p] = row[p] /\ seen'[p] = seen[p] /\ row[p] \in Rows
  OBVIOUS
<1>2. InPlace(row[p], seen[p].secret)
  BY DEF SecretInv, ReadsAreOfTheRow
<1>3. CASE row[p] = i
  <2>1. ver'[i] = ver[i] + 1 /\ ver[i] \in Nat /\ seen[p].ver \in 0 .. ver[i]
    BY <1>3, ConstantsAssumption DEF Put
  <2>2. QED
    BY <1>1, <1>2, <1>3, <2>1
<1>4. CASE row[p] # i
  <2>1. ver'[row[p]] = ver[row[p]] /\ secret'[row[p]] = secret[row[p]]
    BY <1>1, <1>4 DEF Put
  <2>2. QED
    BY <1>1, <1>2, <2>1 DEF SecretInv, ReadsAreOfTheRow
<1>5. QED
  BY <1>3, <1>4

LEMMA SecretInvStep == TypeInv /\ SecretInv /\ [Next]_vars => SecretInv'
<1> SUFFICES ASSUME TypeInv, SecretInv, [Next]_vars
             PROVE  SecretInv'
  OBVIOUS
<1> USE DEF rowVars, reqVars, Stored
<1>1. ASSUME NEW q \in Requests, NEW i \in Rows, NEW fields \in SUBSET Fields(i),
             CreateRow(q, i, fields)
      PROVE  SecretInv'
  <2> DEFINE secrets == [f \in Fields(i) |->
                           IF f \in fields THEN NewSecret(i, f)
                           ELSE IF f = "remoteSecret" THEN Null ELSE Blank]
  <2>1. /\ Put(i, secrets, fields) /\ state[i] = "new"
        /\ UNCHANGED << jobs, uploads, raced, pc, row, typed, seen >>
    BY <1>1 DEF CreateRow
  <2>2. InPlace(i, secrets)
    <3>1. ver[i] \in Nat /\ ver[i] < MaxVersion
      BY <2>1, ConstantsAssumption DEF Put, TypeInv, TypeOK
    <3>2. QED
      BY <3>1, NewSecretTyped DEF InPlace
  <2>3. latest'[i] = secrets /\ secret'[i] = secrets
    BY <2>1 DEF Put, TypeInv, Shaped
  <2>4. \A k \in Rows \ {i} : secret'[k] = secret[k] /\ latest'[k] = latest[k]
    BY <2>1 DEF Put, TypeInv, Shaped
  <2> HIDE DEF secrets
  <2>5. SecretsStayInPlace'
    BY <2>2, <2>3, <2>4 DEF SecretInv, SecretsStayInPlace, InPlace
  <2>6. BlankKeepsSecret'
    BY <2>1, <2>3, <2>4 DEF SecretInv, BlankKeepsSecret
  <2>7. ReadsAreOfTheRow'
    BY <2>1, <2>2, PutInPlace DEF ReadsAreOfTheRow
  <2>8. QED
    BY <2>5, <2>6, <2>7 DEF SecretInv
<1>2. ASSUME NEW q \in Requests, WriteRow(q)
      PROVE  SecretInv'
  <2> DEFINE i == row[q]
             secrets == [f \in Fields(i) |->
                           IF f \in typed[q] THEN NewSecret(i, f) ELSE Kept(q, f)]
  <2>1. /\ pc[q] = "write" /\ i \in Rows /\ state[i] = "stored"
        /\ Put(i, secrets, typed[q])
        /\ raced' = IF ver[i] = seen[q].ver THEN raced ELSE raced \cup {i}
        /\ pc' = [pc EXCEPT ![q] = "reread"]
        /\ UNCHANGED << row, typed, seen, jobs, uploads >>
    BY <1>2 DEF WriteRow, GoTo, TypeInv, RequestsTyped
  <2>2. InPlace(i, secrets)
    <3>1. ver[i] \in Nat /\ ver[i] < MaxVersion
      BY <2>1, ConstantsAssumption DEF Put, TypeInv, TypeOK
    <3>2. InPlace(i, seen[q].secret)
      BY <2>1 DEF SecretInv, ReadsAreOfTheRow
    <3>3. QED
      BY <2>1, <3>1, <3>2, NewSecretTyped DEF InPlace, Kept
  <2>3. /\ secret'[i] = secrets
        /\ latest'[i] = [f \in Fields(i) |->
                            IF f \in typed[q] THEN secrets[f] ELSE latest[i][f]]
    BY <2>1 DEF Put, TypeInv, Shaped
  <2>4. \A k \in Rows \ {i} : secret'[k] = secret[k] /\ latest'[k] = latest[k]
    BY <2>1 DEF Put, TypeInv, Shaped
  <2>5. i \notin raced' => secret'[i] = latest'[i]
    <3>1. SUFFICES ASSUME i \notin raced'
                   PROVE  secret'[i] = latest'[i]
      OBVIOUS
    <3>2. i \notin raced /\ seen[q].ver = ver[i]
      BY <2>1, <3>1
    <3>3. seen[q].secret = latest[i]
      BY <2>1, <3>2 DEF SecretInv, ReadsAreOfTheRow, BlankKeepsSecret
    <3>4. QED
      BY <2>3, <3>3 DEF Kept
  <2> HIDE DEF secrets
  <2>6. SecretsStayInPlace'
    BY <2>2, <2>3, <2>4 DEF SecretInv, SecretsStayInPlace, InPlace
  <2>7. BlankKeepsSecret'
    BY <2>1, <2>4, <2>5 DEF SecretInv, BlankKeepsSecret
  <2>8. ReadsAreOfTheRow'
    <3>1. ASSUME NEW p \in Requests, p # q
          PROVE  pc'[p] = pc[p]
      BY <2>1, <3>1 DEF TypeInv, TypeOK
    <3>2. pc'[q] = "reread"
      BY <2>1 DEF TypeInv, TypeOK
    <3>3. QED
      BY <2>1, <2>2, <3>1, <3>2, PutInPlace DEF ReadsAreOfTheRow
  <2>9. QED
    BY <2>6, <2>7, <2>8 DEF SecretInv
<1>3. ASSUME NEW q \in Requests, NEW i \in Rows, NEW fields \in SUBSET Fields(i),
             ReadRow(q, i, fields)
      PROVE  SecretInv'
  <2>1. UNCHANGED << secret, latest, raced, ver >>
    BY <1>3 DEF ReadRow
  <2>2. /\ row'[q] = i /\ seen'[q] = [ver |-> ver[i], secret |-> secret[i]]
        /\ \A p \in Requests \ {q} :
              pc'[p] = pc[p] /\ row'[p] = row[p] /\ seen'[p] = seen[p]
    BY <1>3 DEF ReadRow, TypeInv, TypeOK, Shaped
  <2>3. InPlace(i, secret[i])
    BY DEF SecretInv, SecretsStayInPlace, InPlace
  <2>4. ReadsAreOfTheRow'
    BY <2>1, <2>2, <2>3 DEF SecretInv, ReadsAreOfTheRow
  <2>5. QED
    BY <2>1, <2>4 DEF SecretInv, SecretsStayInPlace, BlankKeepsSecret
<1>4. ASSUME UNCHANGED << secret, latest, raced, ver >>,
             \A p \in Requests : pc'[p] = "write" =>
                 pc[p] = "write" /\ row'[p] = row[p] /\ seen'[p] = seen[p]
      PROVE  SecretInv'
  BY <1>4 DEF SecretInv, SecretsStayInPlace, BlankKeepsSecret, ReadsAreOfTheRow
<1>5. ASSUME NEW q \in Requests,
             \/ RowIsGone(q) \/ RereadRow(q) \/ BreakOff(q) \/ DeleteRow(q)
             \/ \E i \in Rows : CountJobs(q, i)
      PROVE  SecretInv'
  BY <1>4, <1>5 DEF RowIsGone, RereadRow, BreakOff, DeleteRow, CountJobs, Answered,
                    TypeInv, TypeOK, Shaped
<1>6. ASSUME \/ \E j \in Jobs : \/ DeleteJob(j)
                                \/ \E s \in Sources, t \in Targets : PutJob(j, s, t)
             \/ \E t \in Targets : AddUpload(t)
             \/ UNCHANGED vars
      PROVE  SecretInv'
  BY <1>4, <1>6 DEF DeleteJob, PutJob, AddUpload, vars
<1>7. QED
  BY <1>1, <1>2, <1>3, <1>5, <1>6 DEF Next, RequestStep

(* A stored secret was typed in for this column of this row.               *)
THEOREM SecretsInPlace == Spec => []SecretsStayInPlace
<1>1. SecretInv => SecretsStayInPlace
  BY DEF SecretInv
<1>2. QED
  BY TypeInvInit, TypeInvStep, SecretInvInit, SecretInvStep, <1>1, PTL DEF Spec

(* A blank field keeps the secret unless two updates of the row overlap.   *)
THEOREM BlankKeeps == Spec => []BlankKeepsSecret
<1>1. SecretInv => BlankKeepsSecret
  BY DEF SecretInv
<1>2. QED
  BY TypeInvInit, TypeInvStep, SecretInvInit, SecretInvStep, <1>1, PTL DEF Spec
=============================================================================
