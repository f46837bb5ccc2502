-------------------------- MODULE DeploymentProofs --------------------------
(***************************************************************************)
(* Theorems about Deployment, for any deployers, releases, objects and     *)
(* migrations that DeploymentAssumption allows.                            *)
(***************************************************************************)
EXTENDS Deployment, TLAPS, WellFoundedInduction

(***************************************************************************)
(* Type correctness.                                                       *)
(***************************************************************************)
\* The lists of a release are sequences, with lengths that are numbers.
LEMMA Lists ==
  ASSUME TypeOK, NEW d \in Deployer
  PROVE  /\ release[d] \in Release
         /\ Script(d) \in Seq(Object)
         /\ Len(Script(d)) \in Nat
         /\ DOMAIN Script(d) = 1 .. Len(Script(d))
         /\ Pending(d) \in Seq(Migration)
         /\ Len(Pending(d)) \in Nat
         /\ DOMAIN Pending(d) = 1 .. Len(Pending(d))
         /\ at[d] \in Nat \ {0}
<1>1. release[d] \in Release /\ at[d] \in Nat \ {0}
  BY DEF TypeOK
<1>2. Script(d) \in Seq(Object) /\ Pending(d) \in Seq(Migration)
  BY <1>1, DeploymentAssumption DEF Script, Pending
<1>3. QED BY <1>1, <1>2

LEMMA InitTypeOK == Init => TypeOK
<1> SUFFICES ASSUME Init PROVE TypeOK
  OBVIOUS
<1>1. \A d \in Deployer : pc[d] = "manifest" /\ at[d] = 1
  BY DEF Init
<1>2. pc \in [Deployer -> Place] /\ at \in [Deployer -> Nat \ {0}]
  BY DEF Init, Place
<1>3. QED BY <1>1, <1>2 DEF Init, TypeOK

LEMMA StepTypeOK ==
  ASSUME TypeOK, NEW d \in Deployer, Step(d) \/ Die(d)
  PROVE  TypeOK'
<1> USE DEF local, transaction, database
<1>1. /\ Script(d)' = Script(d) /\ Pending(d)' = Pending(d) /\ release' = release
      /\ \A e \in Deployer : Script(e)' = Script(e) /\ Pending(e)' = Pending(e)
  BY DEF Step, ReadManifest, ReplaceObject, CheckObject, CreateObject, GetAppliedMigrations, SkipMigration, RunMigration,
         RecordMigration, Commit, Rollback, Die, Fails, Script, Pending
<1>2. Pending(d) \in Seq(Migration) /\ Script(d) \in Seq(Object) /\ at[d] \in Nat \ {0}
  BY Lists
<1>3. \A i \in DOMAIN Pending(d) : Pending(d)[i] \in Migration
  BY <1>2
<1>4. \A i \in DOMAIN Script(d) : Script(d)[i] \in Object
  BY <1>2
<1>5. pc' \in [Deployer -> Place] /\ faulted' \subseteq Deployer
  BY DEF TypeOK, Step, ReadManifest, ReplaceObject, CheckObject, CreateObject, GetAppliedMigrations, SkipMigration,
         RunMigration, RecordMigration, Commit, Rollback, Die, Fails, Goto, Place, Ended
<1>6. at' \in [Deployer -> Nat \ {0}] /\ \A e \in Deployer \ {d} : at'[e] = at[e] /\ pc'[e] = pc[e]
  BY DEF TypeOK, Step, ReadManifest, ReplaceObject, CheckObject, CreateObject, GetAppliedMigrations, SkipMigration,
         RunMigration, RecordMigration, Commit, Rollback, Die, Fails, Goto, Advance
<1>7. /\ pc'[d] = "manifest" => at'[d] = 1
      /\ pc'[d] = "batches" => at'[d] <= Len(Script(d)) + 1
      /\ pc'[d] = "create" => at'[d] <= Len(Script(d))
      /\ pc'[d] = "migrations" => at'[d] <= Len(Pending(d)) + 1
      /\ pc'[d] = "record" => at'[d] <= Len(Pending(d))
  BY Lists DEF TypeOK, Step, ReadManifest, ReplaceObject, CheckObject, CreateObject,
         GetAppliedMigrations, SkipMigration,
         RunMigration, RecordMigration, Commit, Rollback, Die, Fails, Goto, Advance, Ended
<1>8. applied' \in [Deployer -> SUBSET Migration]
  BY DEF TypeOK, Step, ReadManifest, ReplaceObject, CheckObject, CreateObject, GetAppliedMigrations, SkipMigration,
         RunMigration, RecordMigration, Commit, Rollback, Die, Fails
<1>13. /\ locked \in [Deployer -> SUBSET Object]
       /\ ran \in [Deployer -> SUBSET Migration]
       /\ noted \in [Deployer -> SUBSET Migration]
       /\ missing \in [Deployer -> SUBSET Guarded]
  BY DEF TypeOK
<1>9. /\ locked' \in [Deployer -> SUBSET Object]
      /\ ran' \in [Deployer -> SUBSET Migration]
      /\ noted' \in [Deployer -> SUBSET Migration]
  <2>1. CASE Commit(d) \/ Rollback(d) \/ Die(d)
    BY <2>1 DEF TypeOK, Commit, Rollback, Die, EndTransaction, Fails
  <2>2. CASE ReadManifest(d) \/ CheckObject(d) \/ GetAppliedMigrations(d)
    BY <2>2 DEF TypeOK, ReadManifest, CheckObject, GetAppliedMigrations, Fails
  <2>6. CASE ReplaceObject(d) \/ CreateObject(d)
    <3> DEFINE o == Script(d)[at[d]]
    <3>1. o \in Object
      BY <2>6, <1>4, Lists DEF TypeOK, ReplaceObject, CreateObject
    <3>2. /\ locked' = locked \/ locked' = [locked EXCEPT ![d] = @ \cup {o}]
          /\ UNCHANGED <<ran, noted>>
      BY <2>6 DEF ReplaceObject, CreateObject, Fails
    <3> HIDE DEF o
    <3>3. QED BY <1>13, <3>1, <3>2
  <2>3. CASE SkipMigration(d) \/ RunMigration(d)
    <3>1. CASE RunMigration(d) /\ ran' = [ran EXCEPT ![d] = @ \cup {Pending(d)[at[d]]}]
      BY <3>1, <1>3 DEF TypeOK, RunMigration, Fails
    <3>2. CASE UNCHANGED <<locked, ran, noted>>
      BY <3>2 DEF TypeOK
    <3>3. QED BY <2>3, <3>1, <3>2 DEF SkipMigration, RunMigration, Fails
  <2>4. CASE RecordMigration(d)
    <3>1. Pending(d)[at[d]] \in Migration
      BY <2>4, <1>3, Lists DEF TypeOK, RecordMigration
    <3>2. QED BY <1>13, <2>4, <3>1 DEF RecordMigration, Fails
  <2>5. QED BY <2>1, <2>2, <2>3, <2>4, <2>6 DEF Step
<1>10. /\ objects' \in [Object -> Release \cup {0}]
       /\ effects' \in [Migration -> Nat]
       /\ recorded' \subseteq Migration
  <2>1. CASE Commit(d)
    <3>1. release[d] \in Release /\ noted[d] \subseteq Migration
      BY DEF TypeOK
    <3>2. CASE Install(d)
      <4>1. objects' \in [Object -> Release \cup {0}]
        BY <3>1, <3>2 DEF TypeOK, Install
      <4>2. effects' \in [Migration -> Nat]
        BY <3>2 DEF TypeOK, Install
      <4>3. QED BY <4>1, <4>2, <3>1, <3>2 DEF TypeOK, Install
    <3>3. CASE UNCHANGED <<objects, effects, recorded>>
      BY <3>3 DEF TypeOK
    <3>4. QED BY <2>1, <3>2, <3>3 DEF Commit, Fails
  <2>2. CASE ~Commit(d)
    BY <2>2 DEF TypeOK, Step, ReadManifest, ReplaceObject, CheckObject, CreateObject, GetAppliedMigrations, SkipMigration,
         RunMigration, RecordMigration, Rollback, Die, Fails
  <2>3. QED BY <2>1, <2>2
<1>12. missing' \in [Deployer -> SUBSET Guarded]
  <2>1. CASE ReadManifest(d)
    BY <1>13, <2>1 DEF ReadManifest
  <2>2. CASE ~ReadManifest(d)
    <3>1. missing' = missing
      BY <2>2 DEF Step, ReplaceObject, CheckObject, CreateObject, GetAppliedMigrations,
             SkipMigration, RunMigration, RecordMigration, Commit, Rollback, Die, Fails
    <3>2. QED BY <1>13, <3>1
  <2>3. QED BY <2>1, <2>2
<1>11. QED
  BY <1>1, <1>5, <1>6, <1>7, <1>8, <1>9, <1>10, <1>12 DEF TypeOK

\* Type correctness.
THEOREM TypeCorrect == Spec => []TypeOK
<1>1. TypeOK /\ [Next]_vars => TypeOK'
  <2>1. CASE UNCHANGED vars
    BY <2>1 DEF vars, TypeOK, Script, Pending
  <2>2. QED BY <2>1, StepTypeOK DEF Next
<1>2. QED BY InitTypeOK, <1>1, PTL DEF Spec

-----------------------------------------------------------------------------
(***************************************************************************)
(* The gate: the objects that every release replaces let one deployer at a *)
(* time past the manifest.                                                 *)
(***************************************************************************)
LEMMA OnePastTheManifest ==
  ASSUME TypeOK, LocksExclude, ObjectProgress,
         NEW d \in Deployer, NEW e \in Deployer,
         pc[d] \in {"migrations", "record"}, pc[e] \in {"migrations", "record"}
  PROVE  d = e
<1>1. PICK o \in Object \ Guarded : \A r \in Release : \E i \in DOMAIN Manifest[r] : Manifest[r][i] = o
  BY DeploymentAssumption
<1>2. \A f \in Deployer : pc[f] \in {"migrations", "record"} => o \in locked[f]
  <2> SUFFICES ASSUME NEW f \in Deployer, pc[f] \in {"migrations", "record"} PROVE o \in locked[f]
    OBVIOUS
  <2>1. PICK i \in DOMAIN Script(f) : Script(f)[i] = o
    BY <1>1, Lists DEF Script
  <2>2. i \in Executed(f)
    BY DEF Executed
  <2>3. QED BY <1>1, <2>1, <2>2 DEF ObjectProgress
<1>3. QED BY <1>2 DEF LocksExclude

-----------------------------------------------------------------------------
(***************************************************************************)
(* Locks and objects.                                                      *)
(***************************************************************************)
\* What one step may do to the locks: nothing, take a free object, let all go.
LEMMA LockSteps ==
  ASSUME TypeOK, NEW d \in Deployer, Step(d) \/ Die(d)
  PROVE  \/ UNCHANGED locked
         \/ /\ ReplaceObject(d) \/ CreateObject(d)
            /\ Free(d, Script(d)[at[d]])
            /\ locked' = [locked EXCEPT ![d] = @ \cup {Script(d)[at[d]]}]
         \/ locked' = [locked EXCEPT ![d] = {}]
BY DEF Step, ReadManifest, ReplaceObject, CheckObject, CreateObject, GetAppliedMigrations, SkipMigration, RunMigration,
       RecordMigration, Commit, Rollback, Die, Fails, EndTransaction, transaction

LEMMA StepLocksExclude ==
  ASSUME TypeOK, LocksExclude, NEW d \in Deployer, Step(d) \/ Die(d)
  PROVE  LocksExclude'
<1>1. locked \in [Deployer -> SUBSET Object]
  BY DEF TypeOK
<1>2. QED BY <1>1, LockSteps DEF LocksExclude, Free

\* The committed objects change only when a commit installs a transaction.
LEMMA DatabaseSteps ==
  ASSUME TypeOK, NEW d \in Deployer, Step(d) \/ Die(d)
  PROVE  \/ Commit(d) /\ Install(d) /\ EndTransaction(d) /\ pc'[d] \in {"succeeded", "rollback"}
         \/ UNCHANGED <<objects, effects, recorded>>
<1>1. CASE Commit(d)
  <2>1. Goto(d, "succeeded") => pc'[d] = "succeeded"
    BY DEF TypeOK, Goto
  <2>2. Goto(d, "rollback") => pc'[d] = "rollback"
    BY DEF TypeOK, Goto
  <2>3. QED BY <1>1, <2>1, <2>2 DEF Commit, Fails, database
<1>2. CASE ~Commit(d)
  BY <1>2 DEF Step, ReadManifest, ReplaceObject, CheckObject, CreateObject, GetAppliedMigrations, SkipMigration, RunMigration,
         RecordMigration, Rollback, Die, Fails, database
<1>3. QED BY <1>1, <1>2

\* A step of d leaves the places, positions and transactions of the others alone.
LEMMA OnlyOne ==
  ASSUME TypeOK, NEW d \in Deployer, Step(d) \/ Die(d), NEW e \in Deployer, e # d
  PROVE  /\ release'[e] = release[e] /\ pc'[e] = pc[e] /\ at'[e] = at[e]
         /\ applied'[e] = applied[e] /\ locked'[e] = locked[e]
         /\ ran'[e] = ran[e] /\ noted'[e] = noted[e] /\ missing'[e] = missing[e]
         /\ Script(e)' = Script(e) /\ Pending(e)' = Pending(e)
BY DEF TypeOK, Step, ReadManifest, ReplaceObject, CheckObject, CreateObject, GetAppliedMigrations, SkipMigration, RunMigration,
       RecordMigration, Commit, Rollback, Die, Fails, EndTransaction, Goto, Advance,
       local, transaction, database, Script, Pending

LEMMA OwnLists ==
  ASSUME NEW d \in Deployer, Step(d) \/ Die(d)
  PROVE  Script(d)' = Script(d) /\ Pending(d)' = Pending(d) /\ release' = release
BY DEF Step, ReadManifest, ReplaceObject, CheckObject, CreateObject, GetAppliedMigrations, SkipMigration, RunMigration,
       RecordMigration, Commit, Rollback, Die, Fails, local, Script, Pending

LEMMA StepObjectProgress ==
  ASSUME TypeOK, LocksExclude, ObjectProgress, NEW d \in Deployer, Step(d) \/ Die(d)
  PROVE  ObjectProgress'
<1> DEFINE Locked(e) == \A o \in locked[e] :
             /\ \E i \in DOMAIN Script(e) : Script(e)[i] = o
             /\ o \in Guarded => objects[o] = 0
           Done(e) == \A i \in Executed(e) : \/ Script(e)[i] \in locked[e]
                                             \/ Script(e)[i] \in Guarded /\ objects[Script(e)[i]] # 0
           Idle(e) == pc[e] \in Ended \cup {"manifest"} => locked[e] = {}
<1>1. locked \in [Deployer -> SUBSET Object] /\ release \in [Deployer -> Release]
  BY DEF TypeOK
<1>2. \A e \in Deployer : Done(e) /\ Locked(e) /\ Idle(e)
  BY DEF ObjectProgress
<1>3. ASSUME NEW e \in Deployer, e # d
      PROVE  (Done(e) /\ Locked(e) /\ Idle(e))'
  <2>1. \A o \in Object : /\ o \notin locked[d] => objects'[o] = objects[o]
                          /\ objects[o] # 0 => objects'[o] # 0
    <3>1. release[d] # 0
      BY <1>1, DeploymentAssumption
    <3>2. CASE Install(d)
      BY <3>1, <3>2 DEF Install
    <3>3. QED BY <3>2, DatabaseSteps
  <2>2. Executed(e)' = Executed(e)
    BY <1>3, OnlyOne DEF Executed
  <2>3. \A i \in Executed(e) : Script(e)[i] \in Object
    BY Lists DEF Executed
  <2>4. locked[e] \cap locked[d] = {}
    BY <1>3 DEF LocksExclude
  <2>5. Done(e)'
    BY <1>2, <1>3, <2>1, <2>2, <2>3, OnlyOne
  <2>6. Locked(e)'
    BY <1>1, <1>2, <1>3, <2>1, <2>4, OnlyOne
  <2>7. Idle(e)'
    BY <1>2, <1>3, OnlyOne
  <2>8. QED BY <2>5, <2>6, <2>7
<1>4. Script(d)' = Script(d) /\ pc \in [Deployer -> Place] /\ at \in [Deployer -> Nat \ {0}]
  BY OwnLists DEF TypeOK
<1>5. (Done(d) /\ Locked(d) /\ Idle(d))'
  <2>1. CASE EndTransaction(d) /\ pc'[d] \in {"succeeded", "rollback", "raised", "died"}
    <3>1. locked'[d] = {} /\ Executed(d)' = {}
      BY <1>1, <2>1 DEF EndTransaction, Executed
    <3>2. QED BY <3>1
  <2>2. CASE Fails(d)
    <3>1. UNCHANGED <<locked, objects>> /\ pc'[d] = "rollback"
      BY <1>4, <2>2 DEF Fails, Goto, transaction, database
    <3>2. Executed(d)' = {}
      BY <3>1 DEF Executed
    <3>3. QED BY <1>2, <1>4, <3>1, <3>2 DEF Ended
  <2>3. CASE ReadManifest(d)
    <3>1. UNCHANGED <<locked, objects>> /\ at'[d] = 1 /\ pc'[d] \in {"batches", "raised"} /\ locked[d] = {}
      BY <1>2, <1>4, <2>3 DEF ReadManifest, Goto, transaction, database, TypeOK
    <3>2. DOMAIN Script(d) \subseteq Nat \ {0}
      BY Lists
    <3>3. Executed(d)' = {}
      BY <1>4, <3>1, <3>2 DEF Executed
    <3>4. QED BY <3>1, <3>3
  <2>4. CASE /\ pc[d] \in {"batches", "create"} /\ pc'[d] = "batches" /\ UNCHANGED objects
             /\ at[d] \in DOMAIN Script(d) /\ at'[d] = at[d] + 1
             /\ \/ /\ locked' = locked
                   /\ \/ Script(d)[at[d]] \in locked[d]
                      \/ Script(d)[at[d]] \in Guarded /\ objects[Script(d)[at[d]]] # 0
                \/ /\ locked' = [locked EXCEPT ![d] = @ \cup {Script(d)[at[d]]}]
                   /\ Script(d)[at[d]] \in Guarded => objects[Script(d)[at[d]]] = 0
    <3> DEFINE o == Script(d)[at[d]]
    <3>1. /\ locked[d] \subseteq locked'[d] /\ locked'[d] \subseteq locked[d] \cup {o}
          /\ o \in locked'[d] \/ (o \in Guarded /\ objects[o] # 0)
          /\ o \in locked'[d] => o \in locked[d] \/ (o \in Guarded => objects[o] = 0)
      BY <1>1, <2>4
    <3>2. \A i \in Executed(d)' : i \in Executed(d) \/ i = at[d]
      BY <1>4, <2>4, Lists DEF Executed
    <3>3. Done(d)'
      <4> SUFFICES ASSUME NEW i \in Executed(d)'
                   PROVE  \/ Script(d)[i] \in locked'[d]
                          \/ Script(d)[i] \in Guarded /\ objects[Script(d)[i]] # 0
        BY <1>4, <2>4
      <4>1. CASE i \in Executed(d)
        BY <1>2, <3>1, <4>1
      <4>2. CASE i = at[d]
        BY <3>1, <4>2
      <4>3. QED BY <3>2, <4>1, <4>2
    <3>4. Locked(d)'
      BY <1>2, <1>4, <2>4, <3>1
    <3>5. QED BY <2>4, <3>3, <3>4 DEF Ended
  <2>11. CASE pc[d] = "batches" /\ pc'[d] = "create" /\ UNCHANGED <<locked, objects, at>>
    <3>1. Executed(d)' = Executed(d)
      BY <1>4, <2>11 DEF Executed
    <3>2. QED BY <1>2, <1>4, <2>11, <3>1 DEF Ended
  <2>9. CASE pc'[d] = "rollback" /\ UNCHANGED <<locked, objects>>
    <3>1. Executed(d)' = {}
      BY <2>9 DEF Executed
    <3>2. QED BY <1>2, <1>4, <2>9, <3>1 DEF Ended
  <2>12. ReplaceObject(d) => Fails(d) \/ <2>4!1
    BY <1>4 DEF ReplaceObject, Advance, database
  <2>13. CheckObject(d) => Fails(d) \/ <2>4!1 \/ <2>11!1
    BY <1>4 DEF CheckObject, Advance, Goto, transaction, database
  <2>14. CreateObject(d) => Fails(d) \/ <2>4!1 \/ <2>9!1
    <3>1. pc[d] = "create" => at[d] \in DOMAIN Script(d)
      BY Lists DEF TypeOK
    <3>2. QED BY <1>4, <3>1 DEF CreateObject, Advance, Goto, transaction, database
  <2>5. CASE /\ pc[d] \in {"batches", "migrations", "record"}
             /\ pc[d] = "batches" => at[d] = Len(Script(d)) + 1
             /\ pc'[d] \in {"migrations", "record"}
             /\ UNCHANGED <<locked, objects>>
    <3>1. Executed(d)' \subseteq Executed(d)
      BY <1>4, <2>5, Lists DEF Executed
    <3>2. QED BY <1>2, <1>4, <2>5, <3>1 DEF Ended
  <2>6. GetAppliedMigrations(d) \/ SkipMigration(d) \/ RunMigration(d) => Fails(d) \/ <2>5!1
    BY <1>4 DEF GetAppliedMigrations, SkipMigration, RunMigration, Goto, transaction, database
  <2>7. RecordMigration(d) => Fails(d) \/ <2>5!1 \/ <2>9!1
    BY <1>4 DEF RecordMigration, Goto, transaction, database
  <2>8. Commit(d) \/ Rollback(d) \/ Die(d) => Fails(d) \/ <2>1!1
    BY <1>4 DEF Commit, Rollback, Die, Goto
  <2>10. QED
    BY <2>1, <2>2, <2>3, <2>4, <2>5, <2>6, <2>7, <2>8, <2>9, <2>11, <2>12, <2>13, <2>14 DEF Step
<1>6. QED BY <1>3, <1>5 DEF ObjectProgress

-----------------------------------------------------------------------------
(***************************************************************************)
(* Migrations.                                                             *)
(***************************************************************************)
\* A migration that two releases list has the same place in both lists.
LEMMA SamePlace ==
  ASSUME NEW r \in Release, NEW s \in Release,
         NEW i \in DOMAIN Migrations[r], NEW j \in DOMAIN Migrations[s],
         Migrations[r][i] = Migrations[s][j]
  PROVE  i = j
<1>1. /\ Migrations[r] \in Seq(Migration) /\ Migrations[s] \in Seq(Migration)
      /\ DOMAIN Migrations[r] = 1 .. Len(Migrations[r])
      /\ DOMAIN Migrations[s] = 1 .. Len(Migrations[s])
      /\ Len(Migrations[r]) \in Nat /\ Len(Migrations[s]) \in Nat
  BY DeploymentAssumption
<1>2. i \in DOMAIN Migrations[s] \/ j \in DOMAIN Migrations[r]
  BY <1>1
<1>3. CASE i \in DOMAIN Migrations[s]
  BY <1>3, DeploymentAssumption
<1>4. CASE j \in DOMAIN Migrations[r]
  BY <1>4, DeploymentAssumption
<1>5. QED BY <1>2, <1>3, <1>4

\* While one deployer is past the manifest, nobody else commits: what it has read
\* of ops.SchemaMigrations stays true.
LEMMA NobodyElseRecords ==
  ASSUME TypeOK, LocksExclude, ObjectProgress,
         NEW d \in Deployer, Step(d) \/ Die(d),
         NEW e \in Deployer, e # d, pc[e] \in {"migrations", "record"}
  PROVE  recorded' = recorded
<1>1. Commit(d) => pc[d] = "migrations"
  BY DEF Commit
<1>2. ~Commit(d)
  BY <1>1, OnePastTheManifest
<1>3. QED BY <1>2, DatabaseSteps

LEMMA StepMigrationProgress ==
  ASSUME TypeOK, LocksExclude, ObjectProgress, MigrationProgress, NEW d \in Deployer, Step(d) \/ Die(d)
  PROVE  MigrationProgress'
<1> DEFINE Within(e) ==
             /\ applied[e] = recorded
             /\ ran[e] \cap recorded = {}
             /\ \A i \in DOMAIN Pending(e) : i < at[e] => Pending(e)[i] \in applied[e] \cup noted[e]
             /\ \A m \in noted[e] : \E i \in DOMAIN Pending(e) : i < at[e] /\ Pending(e)[i] = m
           Progress(e) ==
             /\ noted[e] \subseteq ran[e]
             /\ pc[e] \notin {"migrations", "record", "rollback"} => ran[e] = {}
             /\ pc[e] \in {"migrations", "record"} => Within(e)
             /\ pc[e] = "migrations" => ran[e] = noted[e]
             /\ pc[e] = "record" => /\ Pending(e)[at[e]] \notin applied[e] \cup noted[e]
                                    /\ ran[e] = noted[e] \cup {Pending(e)[at[e]]}
<1>1. \A e \in Deployer : Progress(e)
  BY DEF MigrationProgress
<1>2. ASSUME NEW e \in Deployer, e # d
      PROVE  Progress(e)'
  <2>1. pc[e] \in {"migrations", "record"} => recorded' = recorded
    BY <1>2, NobodyElseRecords
  <2>2. QED BY <1>1, <1>2, <2>1, OnlyOne
<1>3. /\ pc \in [Deployer -> Place] /\ at \in [Deployer -> Nat \ {0}]
      /\ applied \in [Deployer -> SUBSET Migration] /\ ran \in [Deployer -> SUBSET Migration]
      /\ noted \in [Deployer -> SUBSET Migration]
  BY DEF TypeOK
<1>4. /\ Pending(d)' = Pending(d) /\ at[d] \in Nat \ {0} /\ Len(Pending(d)) \in Nat
      /\ DOMAIN Pending(d) = 1 .. Len(Pending(d))
  BY OwnLists, Lists
<1> SUFFICES Progress(d)'
  BY <1>2 DEF MigrationProgress
<1>5. CASE EndTransaction(d) /\ pc'[d] \in {"succeeded", "rollback", "raised", "died"}
  <2>1. ran'[d] = {} /\ noted'[d] = {}
    BY <1>3, <1>5 DEF EndTransaction
  <2>2. QED BY <1>5, <2>1
<1>6. CASE UNCHANGED <<ran, noted>> /\ pc'[d] = "rollback"
  BY <1>1, <1>6
<1>7. CASE UNCHANGED <<ran, noted>> /\ pc[d] = "manifest" /\ pc'[d] \in {"batches", "raised"}
  BY <1>1, <1>7
<1>8. CASE /\ UNCHANGED <<ran, noted>>
           /\ pc[d] \in {"batches", "create"} /\ pc'[d] \in {"batches", "create"}
  BY <1>1, <1>8
<1>9. CASE GetAppliedMigrations(d) /\ ~Fails(d)
  <2>1. /\ applied'[d] = recorded /\ recorded' = recorded /\ at'[d] = 1
        /\ pc'[d] = "migrations" /\ ran'[d] = {} /\ noted'[d] = {}
    BY <1>1, <1>3, <1>9 DEF GetAppliedMigrations, Goto, transaction, database
  <2>2. QED BY <1>4, <2>1
<1>10. CASE SkipMigration(d)
  <2>1. /\ UNCHANGED <<applied, recorded, pc, ran, noted>> /\ at'[d] = at[d] + 1
        /\ pc[d] = "migrations" /\ Pending(d)[at[d]] \in applied[d]
    BY <1>3, <1>10 DEF SkipMigration, Advance, local, transaction, database
  <2>2. \A i \in DOMAIN Pending(d) : i < at[d] + 1 => i < at[d] \/ i = at[d]
    BY <1>4
  <2>3. \A i \in DOMAIN Pending(d) : i < at[d] => i < at[d] + 1
    BY <1>4
  <2>4. QED BY <1>1, <1>4, <2>1, <2>2, <2>3
<1>11. CASE RunMigration(d) /\ ~Fails(d)
  <2> DEFINE m == Pending(d)[at[d]]
  <2>1. /\ UNCHANGED <<applied, recorded, at, noted>> /\ ran'[d] = ran[d] \cup {m}
        /\ pc[d] = "migrations" /\ pc'[d] = "record" /\ m \notin applied[d]
        /\ at[d] \in DOMAIN Pending(d)
    BY <1>3, <1>11 DEF RunMigration, Goto, local, transaction, database
  <2>2. Within(d) /\ ran[d] = noted[d]
    BY <1>1, <2>1
  <2>3. m \notin noted[d]
    <3> SUFFICES ASSUME m \in ran[d] PROVE FALSE
      BY <2>2
    <3>1. PICK i \in DOMAIN Pending(d) : Pending(d)[i] = m /\ i < at[d]
      BY <2>2
    <3>2. \A k, l \in DOMAIN Pending(d) : Pending(d)[k] = Pending(d)[l] => k = l
      BY Lists, DeploymentAssumption DEF Pending
    <3>3. i = at[d]
      BY <2>1, <3>1, <3>2
    <3>4. QED BY <1>4, <3>1, <3>3
  <2>4. QED BY <1>1, <1>4, <2>1, <2>2, <2>3
<1>12. CASE RecordMigration(d) /\ pc'[d] # "rollback"
  <2> DEFINE m == Pending(d)[at[d]]
  <2>1. ~Fails(d)
    BY <1>3, <1>12 DEF Fails, Goto
  <2>2. /\ UNCHANGED <<applied, recorded, ran>> /\ noted'[d] = noted[d] \cup {m}
        /\ pc[d] = "record" /\ pc'[d] = "migrations" /\ at'[d] = at[d] + 1
    BY <1>3, <1>12, <2>1 DEF RecordMigration, Goto, Advance, local, transaction, database
  <2>3. Within(d)
    BY <1>1, <2>2
  <2>4. \A i \in DOMAIN Pending(d) : i < at[d] + 1 <=> (i < at[d] \/ i = at[d])
    BY <1>4
  <2>5. at[d] \in DOMAIN Pending(d)
    BY <1>4, <2>2 DEF TypeOK
  <2>6. ran[d] = noted[d] \cup {m}
    BY <1>1, <2>2
  <2>7. Within(d)'
    <3>1. applied'[d] = recorded' /\ ran'[d] \cap recorded' = {}
      BY <2>2, <2>3
    <3>2. \A i \in DOMAIN Pending(d) : i < at[d] + 1 => Pending(d)[i] \in applied[d] \cup noted[d] \cup {m}
      BY <2>3, <2>4
    <3>3. \A x \in noted[d] \cup {m} : \E i \in DOMAIN Pending(d) : i < at[d] + 1 /\ Pending(d)[i] = x
      BY <2>3, <2>4, <2>5
    <3>4. QED BY <1>4, <2>2, <3>1, <3>2, <3>3
  <2>8. QED BY <2>2, <2>6, <2>7
<1>13. GetAppliedMigrations(d) \/ RunMigration(d) \/ ReplaceObject(d) \/ CheckObject(d) \/ CreateObject(d) =>
         \/ GetAppliedMigrations(d) /\ ~Fails(d)
         \/ RunMigration(d) /\ ~Fails(d)
         \/ <1>6!1
         \/ <1>8!1
  BY <1>3 DEF ReplaceObject, CheckObject, CreateObject, Fails, Goto, transaction
<1>14. RecordMigration(d) => \/ RecordMigration(d) /\ pc'[d] # "rollback"
                             \/ <1>6!1
  BY <1>3 DEF RecordMigration, Fails, Goto, transaction
<1>15. ReadManifest(d) => <1>7!1
  BY <1>3 DEF ReadManifest, Goto, transaction
<1>16. Commit(d) \/ Rollback(d) \/ Die(d) => <1>5!1 \/ <1>6!1
  BY <1>3 DEF Commit, Rollback, Die, Fails, Goto, transaction
<1>17. QED
  BY <1>5, <1>6, <1>7, <1>8, <1>9, <1>10, <1>11, <1>12, <1>13, <1>14, <1>15, <1>16 DEF Step

-----------------------------------------------------------------------------
(***************************************************************************)
(* A commit is the deployment of the release.                              *)
(***************************************************************************)
\* What the transaction of d has noted, when it commits: the migrations of the
\* release that have no row yet, each run once.
LEMMA CommittedMigrations ==
  ASSUME TypeOK, MigrationProgress, NEW d \in Deployer, Commit(d)
  PROVE  /\ release[d] \in Release
         /\ ran[d] = noted[d]
         /\ noted[d] = Atomic!Migrated(release[d]) \ recorded
         /\ \A i \in DOMAIN Pending(d) : Pending(d)[i] \in recorded \cup noted[d]
<1>1. pc[d] = "migrations" /\ at[d] = Len(Pending(d)) + 1
  BY DEF Commit
<1>2. \A i \in DOMAIN Pending(d) : i < at[d]
  BY <1>1, Lists
<1>3. /\ \A i \in DOMAIN Pending(d) : Pending(d)[i] \in recorded \cup noted[d]
      /\ ran[d] = noted[d] /\ noted[d] \cap recorded = {}
      /\ \A m \in noted[d] : \E i \in DOMAIN Pending(d) : Pending(d)[i] = m
  BY <1>1, <1>2 DEF MigrationProgress
<1>4. Atomic!Migrated(release[d]) = {Pending(d)[i] : i \in DOMAIN Pending(d)}
  BY DEF Atomic!Migrated, Pending
<1>5. QED BY <1>3, <1>4, Lists

LEMMA CommittedObjects ==
  ASSUME TypeOK, ObjectProgress, NEW d \in Deployer, Commit(d)
  PROVE  \A o \in Object : o \in locked[d] <=>
           o \in Atomic!Deployed(release[d]) /\ (o \notin Guarded \/ objects[o] = 0)
<1>1. Executed(d) = DOMAIN Script(d)
  BY DEF Commit, Executed
<1>2. Atomic!Deployed(release[d]) = {Script(d)[i] : i \in DOMAIN Script(d)}
  BY DEF Atomic!Deployed, Script
<1>3. QED BY <1>1, <1>2 DEF ObjectProgress

LEMMA CommitIsDeploy ==
  ASSUME TypeOK, ObjectProgress, MigrationProgress, NEW d \in Deployer, Commit(d), Install(d)
  PROVE  Atomic!Deploy(release[d])
<1>1. objects' = [o \in Object |->
                   IF o \in Atomic!Deployed(release[d]) /\ (o \notin Guarded \/ objects[o] = 0)
                   THEN release[d] ELSE objects[o]]
  BY CommittedObjects DEF Install
<1>2. effects' = [m \in Migration |->
                   IF m \in Atomic!Migrated(release[d]) \ recorded THEN effects[m] + 1 ELSE effects[m]]
  BY CommittedMigrations DEF Install
<1>3. recorded' = recorded \cup Atomic!Migrated(release[d])
  BY CommittedMigrations DEF Install
<1>4. QED BY <1>1, <1>2, <1>3 DEF Atomic!Deploy

LEMMA StepHistoryIsTrue ==
  ASSUME TypeOK, MigrationProgress, HistoryIsTrue, NEW d \in Deployer, Step(d) \/ Die(d)
  PROVE  HistoryIsTrue'
<1>1. CASE UNCHANGED <<objects, effects, recorded>>
  BY <1>1 DEF HistoryIsTrue
<1>2. CASE Commit(d) /\ Install(d)
  <2>1. \A m \in Migration : effects'[m] = IF m \in recorded' THEN 1 ELSE 0
    <3>1. ran[d] = noted[d] /\ noted[d] \cap recorded = {}
      BY <1>2, CommittedMigrations
    <3>2. recorded' = recorded \cup noted[d]
      BY <1>2 DEF Install
    <3>3. \A m \in Migration : effects'[m] = IF m \in ran[d] THEN effects[m] + 1 ELSE effects[m]
      BY <1>2 DEF Install
    <3>4. QED BY <3>1, <3>2, <3>3 DEF HistoryIsTrue
  <2>2. ASSUME NEW r \in Release, NEW i \in DOMAIN Migrations[r], NEW j \in DOMAIN Migrations[r],
               i < j, Migrations[r][j] \in recorded'
        PROVE  Migrations[r][i] \in recorded'
    <3>1. release[d] \in Release /\ recorded' = recorded \cup noted[d]
      BY <1>2, CommittedMigrations DEF Install
    <3>2. CASE Migrations[r][j] \in recorded
      BY <2>2, <3>1, <3>2 DEF HistoryIsTrue
    <3>3. CASE Migrations[r][j] \in noted[d]
      <4>1. PICK k \in DOMAIN Pending(d) : Pending(d)[k] = Migrations[r][j]
        BY <1>2, <3>3 DEF MigrationProgress, Commit
      <4>2. k = j
        BY <3>1, <4>1, SamePlace DEF Pending
      <4>3. i \in DOMAIN Pending(d)
        <5>1. Migrations[r] \in Seq(Migration)
          BY DeploymentAssumption
        <5>2. QED BY <2>2, <4>2, <5>1, Lists
      <4>4. Pending(d)[i] = Migrations[r][i]
        BY <3>1, <4>3, DeploymentAssumption DEF Pending
      <4>5. Pending(d)[i] \in recorded \cup noted[d]
        BY <1>2, <4>3, CommittedMigrations
      <4>6. QED BY <3>1, <4>4, <4>5
    <3>4. QED BY <2>2, <3>1, <3>2, <3>3
  <2>3. QED BY <2>1, <2>2 DEF HistoryIsTrue
<1>3. QED BY <1>1, <1>2, DatabaseSteps

-----------------------------------------------------------------------------
(***************************************************************************)
(* Collisions.                                                             *)
(***************************************************************************)
\* What is committed is replaced, but never dropped.
LEMMA ObjectsStay ==
  ASSUME TypeOK, NEW d \in Deployer, Step(d) \/ Die(d)
  PROVE  \A o \in Object : objects[o] # 0 => objects'[o] # 0
<1>1. release[d] # 0
  BY DeploymentAssumption DEF TypeOK
<1>2. CASE Install(d)
  BY <1>1, <1>2 DEF Install
<1>3. QED BY <1>2, DatabaseSteps

LEMMA StepMissingFromTheStart ==
  ASSUME TypeOK, MissingFromTheStart, NEW d \in Deployer, Step(d) \/ Die(d)
  PROVE  MissingFromTheStart'
<1> DEFINE Found(e) == pc[e] \in {"batches", "create"} =>
             \A o \in Scripted(e) \cap Guarded : objects[o] = 0 => o \in missing[e]
           Wanted(e) == pc[e] = "create" => Script(e)[at[e]] \in missing[e]
<1>1. \A e \in Deployer : Found(e) /\ Wanted(e)
  BY DEF MissingFromTheStart
<1>2. \A o \in Object : objects'[o] = 0 => objects[o] = 0
  BY ObjectsStay
<1>3. /\ \A e \in Deployer : Scripted(e)' = Scripted(e)
      /\ Guarded \subseteq Object
      /\ Script(d)' = Script(d)
  BY OwnLists, OnlyOne, DeploymentAssumption DEF Scripted
<1>4. ASSUME NEW e \in Deployer, e # d PROVE (Found(e) /\ Wanted(e))'
  BY <1>1, <1>2, <1>3, <1>4, OnlyOne
<1>5. /\ pc \in [Deployer -> Place] /\ at \in [Deployer -> Nat \ {0}]
      /\ missing \in [Deployer -> SUBSET Guarded]
  BY DEF TypeOK
<1>6. CASE ReadManifest(d)
  <2>1. /\ missing'[d] = {o \in Scripted(d) \cap Guarded : objects[o] = 0}
        /\ objects' = objects /\ pc'[d] # "create"
    BY <1>5, <1>6 DEF ReadManifest, Goto, database
  <2>2. QED BY <1>3, <1>4, <2>1 DEF MissingFromTheStart
<1>7. CASE ~ReadManifest(d) /\ pc'[d] \in {"batches", "create"}
  <2>1. /\ pc[d] \in {"batches", "create"} /\ missing' = missing
        /\ pc'[d] = "create" => CheckObject(d) /\ at'[d] = at[d]
    BY <1>5, <1>7 DEF Step, ReplaceObject, CheckObject, CreateObject, GetAppliedMigrations,
           SkipMigration, RunMigration, RecordMigration, Commit, Rollback, Die, Fails, Goto, local,
           Ended
  <2>2. Found(d)'
    BY <1>1, <1>2, <1>3, <2>1
  <2>3. Wanted(d)'
    <3> SUFFICES ASSUME pc'[d] = "create" PROVE Script(d)[at[d]] \in missing[d]
      BY <1>3, <2>1
    <3>1. /\ pc[d] = "batches" /\ at[d] \in DOMAIN Script(d)
          /\ Script(d)[at[d]] \in Guarded /\ objects[Script(d)[at[d]]] = 0
      BY <1>5, <2>1 DEF CheckObject, Fails, Goto
    <3>2. Script(d)[at[d]] \in Scripted(d)
      BY <3>1 DEF Scripted
    <3>3. QED BY <1>1, <3>1, <3>2
  <2>4. QED BY <1>4, <2>2, <2>3 DEF MissingFromTheStart
<1>8. CASE ~ReadManifest(d) /\ pc'[d] \notin {"batches", "create"}
  BY <1>4, <1>8 DEF MissingFromTheStart
<1>9. QED BY <1>6, <1>7, <1>8

\* The lock of the objects that every release replaces keeps the others from
\* committing a row between the SELECT of get_applied_migrations and the INSERT; a
\* CREATE, which nothing keeps from coming late, meets only what was missing before.
LEMMA StepOnlyCreationsCollide ==
  ASSUME TypeOK, MissingFromTheStart, MigrationProgress, MigrationProgress',
         OnlyCreationsCollide, NEW d \in Deployer, Step(d) \/ Die(d)
  PROVE  OnlyCreationsCollide'
<1> DEFINE Collided(e) == \E o \in missing[e] : objects[o] # 0
           Excused(e) == pc[e] \in {"rollback", "raised"} => e \in faulted \/ Collided(e)
<1>1. \A e \in Deployer : Excused(e)
  BY DEF OnlyCreationsCollide
<1>2. /\ pc \in [Deployer -> Place] /\ faulted \subseteq faulted'
      /\ \A e \in Deployer : missing[e] \subseteq Object
  BY DeploymentAssumption DEF TypeOK, Step, ReadManifest, ReplaceObject, CheckObject, CreateObject,
         GetAppliedMigrations, SkipMigration, RunMigration, RecordMigration, Commit, Rollback, Die,
         Fails
<1>3. \A e \in Deployer : pc'[e] = "record" => (Pending(e)[at[e]] \notin recorded)'
  BY DEF MigrationProgress
<1>4. ASSUME NEW e \in Deployer, missing'[e] = missing[e], Collided(e) PROVE Collided(e)'
  BY <1>2, <1>4, ObjectsStay
<1>5. ASSUME NEW e \in Deployer, e # d PROVE Excused(e)'
  BY <1>1, <1>2, <1>4, <1>5, OnlyOne
<1>6. Excused(d)'
  <2>1. CASE ReadManifest(d)
    BY <1>2, <2>1 DEF ReadManifest, Goto
  <2>2. CASE Fails(d)
    BY <1>2, <2>2 DEF Fails
  <2>3. CASE CreateObject(d) /\ ~Fails(d)
    <3>1. \/ pc'[d] = "batches"
          \/ /\ pc[d] = "create" /\ objects[Script(d)[at[d]]] # 0
             /\ missing' = missing
      BY <1>2, <2>3 DEF CreateObject, Goto, local
    <3>2. pc[d] = "create" => Script(d)[at[d]] \in missing[d]
      BY DEF MissingFromTheStart
    <3>3. QED BY <1>4, <3>1, <3>2
  <2>4. CASE RecordMigration(d) /\ ~Fails(d)
    <3>1. pc[d] = "record" => Pending(d)[at[d]] \notin recorded
      BY DEF MigrationProgress
    <3>2. pc'[d] = "migrations"
      BY <1>2, <2>4, <3>1 DEF RecordMigration, Goto
    <3>3. QED BY <3>2
  <2>5. CASE Rollback(d)
    <3>1. pc[d] = "rollback" /\ faulted' = faulted /\ missing' = missing
      BY <2>5 DEF Rollback, local
    <3>2. QED BY <1>1, <1>4, <3>1
  <2>6. CASE \/ (ReplaceObject(d) \/ CheckObject(d) \/ GetAppliedMigrations(d)) /\ ~Fails(d)
             \/ (SkipMigration(d) \/ RunMigration(d)) /\ ~Fails(d)
             \/ Commit(d) /\ ~Fails(d)
             \/ Die(d)
    <3>1. pc'[d] \in {"rollback", "raised"} => d \in faulted'
      BY <1>2, <2>6 DEF ReplaceObject, CheckObject, GetAppliedMigrations, SkipMigration,
             RunMigration, Commit, Die, Goto
    <3>2. QED BY <3>1
  <2>7. QED BY <2>1, <2>2, <2>3, <2>4, <2>5, <2>6 DEF Step
<1>7. QED BY <1>3, <1>5, <1>6 DEF OnlyCreationsCollide

-----------------------------------------------------------------------------
(***************************************************************************)
(* The theorems.                                                           *)
(***************************************************************************)
LEMMA InitDeploymentInv == Init => DeploymentInv
<1> SUFFICES ASSUME Init PROVE DeploymentInv
  OBVIOUS
<1>1. TypeOK
  BY InitTypeOK
<1>2. \A d \in Deployer : pc[d] = "manifest" /\ locked[d] = {} /\ ran[d] = {} /\ noted[d] = {}
  BY DEF Init
<1>3. LocksExclude /\ MigrationProgress /\ MissingFromTheStart /\ OnlyCreationsCollide
  BY <1>2 DEF LocksExclude, MigrationProgress, MissingFromTheStart, OnlyCreationsCollide
<1>4. ObjectProgress
  BY <1>2 DEF ObjectProgress, Executed
<1>5. HistoryIsTrue
  BY DEF Init, HistoryIsTrue
<1>6. QED BY <1>1, <1>3, <1>4, <1>5 DEF DeploymentInv

LEMMA NextDeploymentInv == DeploymentInv /\ [Next]_vars => DeploymentInv'
<1> SUFFICES ASSUME DeploymentInv, [Next]_vars PROVE DeploymentInv'
  OBVIOUS
<1>1. CASE UNCHANGED vars
  BY <1>1 DEF vars, DeploymentInv, TypeOK, LocksExclude, ObjectProgress, MigrationProgress,
              HistoryIsTrue, MissingFromTheStart, OnlyCreationsCollide, Executed, Scripted,
              Script, Pending
<1>2. CASE Next
  <2>1. PICK d \in Deployer : Step(d) \/ Die(d)
    BY <1>2 DEF Next
  <2>2. QED
    BY <2>1, StepTypeOK, StepLocksExclude, StepObjectProgress, StepMigrationProgress,
       StepMissingFromTheStart, StepHistoryIsTrue, StepOnlyCreationsCollide DEF DeploymentInv
<1>3. QED BY <1>1, <1>2

\* The inductive invariant.
THEOREM Invariance == Spec => []DeploymentInv
BY InitDeploymentInv, NextDeploymentInv, PTL DEF Spec

\* ops.SchemaMigrations tells the truth, for any number of deployers and releases.
THEOREM TrueHistory == Spec => []HistoryIsTrue
<1>1. DeploymentInv => HistoryIsTrue
  BY DEF DeploymentInv
<1>2. QED BY Invariance, <1>1, PTL

\* A deployer's INSERT never breaks the primary key, and it raises without a fault
\* of its own only when another one has created what it found missing at its start.
THEOREM OnlyFirstCreationsCollide == Spec => []OnlyCreationsCollide
<1>1. DeploymentInv => OnlyCreationsCollide
  BY DEF DeploymentInv
<1>2. QED BY Invariance, <1>1, PTL

\* Concurrent, failing deployments implement atomic ones.
THEOREM Refinement == Spec => ImplementsAtomic
<1>1. Init => Atomic!AtomicInit
  BY DEF Init, Atomic!AtomicInit
<1>2. DeploymentInv /\ [Next]_vars => [Atomic!AtomicNext]_(Atomic!catalogVars)
  <2> SUFFICES ASSUME DeploymentInv, [Next]_vars PROVE [Atomic!AtomicNext]_(Atomic!catalogVars)
    OBVIOUS
  <2>1. CASE UNCHANGED vars
    BY <2>1 DEF vars, Atomic!catalogVars
  <2>2. CASE Next
    <3>1. PICK d \in Deployer : Step(d) \/ Die(d)
      BY <2>2 DEF Next
    <3>2. CASE Commit(d) /\ Install(d)
      BY <3>2, CommitIsDeploy, CommittedMigrations DEF DeploymentInv, Atomic!AtomicNext
    <3>3. CASE UNCHANGED <<objects, effects, recorded>>
      BY <3>3 DEF Atomic!catalogVars
    <3>4. QED BY <3>1, <3>2, <3>3, DatabaseSteps DEF DeploymentInv
  <2>3. QED BY <2>1, <2>2
<1>3. QED BY Invariance, <1>1, <1>2, PTL DEF Spec, ImplementsAtomic, Atomic!AtomicSpec
-----------------------------------------------------------------------------
(***************************************************************************)
(* What everybody may rely on: the atomic specification keeps the catalog  *)
(* in one piece, and the deployers inherit that.                           *)
(***************************************************************************)
\* The procedures and views are all those of release r, whose tables and migrations
\* are there, too, and ops.SchemaMigrations is the whole list of release s.
CatalogIsOf(r, s) ==
  /\ \A o \in Atomic!Deployed(r) : objects[o] # 0 /\ (o \notin Guarded => objects[o] = r)
  /\ Atomic!Migrated(r) \subseteq recorded
  /\ recorded = Atomic!Migrated(s)

\* Before the first deployment the database is empty; after it, it is some release's.
CatalogIsWhole ==
  /\ objects \in [Object -> Release \cup {0}]
  /\ \/ recorded = {} /\ \A o \in Object : objects[o] = 0
     \/ \E r, s \in Release : CatalogIsOf(r, s)

\* Of two releases one has the migrations of the other.
LEMMA MigratedAreNested ==
  ASSUME NEW r \in Release, NEW s \in Release
  PROVE  Atomic!Migrated(r) \subseteq Atomic!Migrated(s) \/ Atomic!Migrated(s) \subseteq Atomic!Migrated(r)
<1>1. /\ DOMAIN Migrations[r] = 1 .. Len(Migrations[r]) /\ Len(Migrations[r]) \in Nat
      /\ DOMAIN Migrations[s] = 1 .. Len(Migrations[s]) /\ Len(Migrations[s]) \in Nat
  <2>1. Migrations[r] \in Seq(Migration) /\ Migrations[s] \in Seq(Migration)
    BY DeploymentAssumption
  <2>2. QED BY <2>1
<1>2. \A i \in DOMAIN Migrations[r] \cap DOMAIN Migrations[s] : Migrations[r][i] = Migrations[s][i]
  BY DeploymentAssumption
<1>3. CASE Len(Migrations[r]) <= Len(Migrations[s])
  <2>1. DOMAIN Migrations[r] \subseteq DOMAIN Migrations[s]
    BY <1>1, <1>3
  <2>2. QED BY <1>2, <2>1 DEF Atomic!Migrated
<1>4. CASE Len(Migrations[s]) <= Len(Migrations[r])
  <2>1. DOMAIN Migrations[s] \subseteq DOMAIN Migrations[r]
    BY <1>1, <1>4
  <2>2. QED BY <1>2, <2>1 DEF Atomic!Migrated
<1>5. QED BY <1>1, <1>3, <1>4

LEMMA DeployKeepsWhole ==
  ASSUME CatalogIsWhole, NEW q \in Release, Atomic!Deploy(q)
  PROVE  CatalogIsWhole'
<1>1. /\ objects \in [Object -> Release \cup {0}]
      /\ q # 0 /\ Atomic!Deployed(q) \subseteq Object
  <2>1. Manifest[q] \in Seq(Object)
    BY DeploymentAssumption
  <2>2. QED BY <2>1, DeploymentAssumption DEF CatalogIsWhole, Atomic!Deployed
<1>2. objects' \in [Object -> Release \cup {0}]
  BY <1>1 DEF Atomic!Deploy
<1>3. \A o \in Atomic!Deployed(q) : objects'[o] # 0 /\ (o \notin Guarded => objects'[o] = q)
  BY <1>1 DEF Atomic!Deploy
<1>4. recorded' = recorded \cup Atomic!Migrated(q)
  BY DEF Atomic!Deploy
<1>5. \E s \in Release : recorded' = Atomic!Migrated(s)
  <2>1. CASE recorded = {}
    BY <1>4, <2>1
  <2>2. CASE \E s \in Release : recorded = Atomic!Migrated(s)
    BY <1>4, <2>2, MigratedAreNested
  <2>3. QED BY <2>1, <2>2 DEF CatalogIsWhole, CatalogIsOf
<1>6. PICK s \in Release : recorded' = Atomic!Migrated(s)
  BY <1>5
<1>7. CatalogIsOf(q, s)'
  BY <1>3, <1>4, <1>6 DEF CatalogIsOf, Atomic!Deployed, Atomic!Migrated
<1>8. QED BY <1>2, <1>7 DEF CatalogIsWhole

\* Atomic deployments never leave a mixture of two releases behind.
THEOREM AtomicDeploymentsKeepTheCatalogWhole == Atomic!AtomicSpec => []CatalogIsWhole
<1>1. Atomic!AtomicInit => CatalogIsWhole
  BY DEF Atomic!AtomicInit, CatalogIsWhole
<1>2. CatalogIsWhole /\ [Atomic!AtomicNext]_(Atomic!catalogVars) => CatalogIsWhole'
  <2> SUFFICES ASSUME CatalogIsWhole, [Atomic!AtomicNext]_(Atomic!catalogVars) PROVE CatalogIsWhole'
    OBVIOUS
  <2>1. CASE UNCHANGED Atomic!catalogVars
    BY <2>1 DEF Atomic!catalogVars, CatalogIsWhole, CatalogIsOf, Atomic!Deployed, Atomic!Migrated
  <2>2. CASE Atomic!AtomicNext
    BY <2>2, DeployKeepsWhole DEF Atomic!AtomicNext
  <2>3. QED BY <2>1, <2>2
<1>3. QED BY <1>1, <1>2, PTL DEF Atomic!AtomicSpec

\* Nor do the real ones, which run at the same time, fail, lose the answer to their
\* COMMIT and die: a reader of the warehouse finds the procedures of one release,
\* over the tables and migrations it needs.
THEOREM CatalogStaysWhole == Spec => []CatalogIsWhole
BY Refinement, AtomicDeploymentsKeepTheCatalogWhole, PTL DEF ImplementsAtomic
-----------------------------------------------------------------------------
(***************************************************************************)
(* Deadlock.  Deployers wait for each other's objects and for each other's *)
(* rows of ops.SchemaMigrations; when the releases list what they share in *)
(* one order, no circle of waiting deployers ever closes.                  *)
(***************************************************************************)
\* In any group of deployers there is one that waits for nobody of the group.
NobodyInACircle ==
  \A S \in SUBSET Deployer : S # {} => \E d \in S : \A e \in S : ~WaitsFor(d, e)

\* The releases agree on an order: the objects can be numbered so that every
\* manifest works from high numbers down to low ones.
InOneOrder(rank) ==
  \A r \in Release : \A i, j \in DOMAIN Manifest[r] :
    i < j => Manifest[r][i] = Manifest[r][j] \/ rank[Manifest[r][j]] < rank[Manifest[r][i]]

\* What a deployer has locked in the manifest, it has locked for an earlier batch.
LocksAreBehind ==
  \A d \in Deployer : pc[d] \in {"batches", "create"} =>
    \A o \in locked[d] : \E i \in DOMAIN Script(d) : i < at[d] /\ Script(d)[i] = o

LEMMA StepLocksAreBehind ==
  ASSUME DeploymentInv, LocksAreBehind, NEW d \in Deployer, Step(d) \/ Die(d)
  PROVE  LocksAreBehind'
<1> USE DEF DeploymentInv
<1> DEFINE Behind(e) == pc[e] \in {"batches", "create"} =>
             \A o \in locked[e] : \E i \in DOMAIN Script(e) : i < at[e] /\ Script(e)[i] = o
<1>1. \A e \in Deployer : Behind(e)
  BY DEF LocksAreBehind
<1>2. ASSUME NEW e \in Deployer, e # d PROVE Behind(e)'
  BY <1>1, <1>2, OnlyOne
<1>3. /\ pc \in [Deployer -> Place] /\ at \in [Deployer -> Nat \ {0}]
      /\ locked \in [Deployer -> SUBSET Object] /\ Script(d)' = Script(d)
  BY OwnLists DEF TypeOK
<1>4. Behind(d)'
  <2> SUFFICES ASSUME pc'[d] \in {"batches", "create"} PROVE Behind(d)'
    OBVIOUS
  <2>1. ReadManifest(d) \/ ReplaceObject(d) \/ CheckObject(d) \/ CreateObject(d)
    BY <1>3 DEF Step, GetAppliedMigrations, SkipMigration, RunMigration, RecordMigration,
                Commit, Rollback, Die, Fails, Goto
  <2>2. CASE ReadManifest(d)
    <3>1. locked[d] = {} /\ locked' = locked
      BY <2>2 DEF ReadManifest, ObjectProgress, transaction
    <3>2. QED BY <3>1
  <2>3. CASE ReplaceObject(d) \/ CheckObject(d) \/ CreateObject(d)
    <3>1. ~Fails(d)
      BY <1>3 DEF Fails, Goto
    <3>2. pc[d] \in {"batches", "create"} /\ at[d] \in DOMAIN Script(d)
      BY <2>3, Lists DEF ReplaceObject, CheckObject, CreateObject, TypeOK
    <3>3. \/ at'[d] = at[d] /\ locked' = locked
          \/ at'[d] = at[d] + 1 /\ locked'[d] \subseteq locked[d] \cup {Script(d)[at[d]]}
      <4>1. CASE ReplaceObject(d)
        BY <1>3, <3>1, <4>1 DEF ReplaceObject, Advance
      <4>2. CASE CheckObject(d)
        BY <1>3, <3>1, <4>2 DEF CheckObject, Advance, transaction
      <4>3. CASE CreateObject(d)
        <5>1. pc'[d] # "rollback"
          OBVIOUS
        <5>2. QED BY <1>3, <3>1, <4>3, <5>1 DEF CreateObject, Advance, Goto
      <4>4. QED BY <2>3, <4>1, <4>2, <4>3
    <3>4. \A i \in DOMAIN Script(d) : i < at[d] => i < at[d] + 1
      BY <1>3, Lists
    <3>5. at[d] < at[d] + 1
      BY <1>3
    <3>6. QED BY <1>1, <1>3, <3>2, <3>3, <3>4, <3>5
  <2>4. QED BY <2>1, <2>2, <2>3
<1>5. QED BY <1>2, <1>4 DEF LocksAreBehind

LEMMA LocksStayBehind == Spec => []LocksAreBehind
<1>1. Init => LocksAreBehind
  BY DEF Init, LocksAreBehind
<1>2. DeploymentInv /\ LocksAreBehind /\ [Next]_vars => LocksAreBehind'
  <2> SUFFICES ASSUME DeploymentInv, LocksAreBehind, [Next]_vars PROVE LocksAreBehind'
    OBVIOUS
  <2>1. CASE UNCHANGED vars
    BY <2>1 DEF vars, LocksAreBehind, Script
  <2>2. CASE Next
    BY <2>2, StepLocksAreBehind DEF Next
  <2>3. QED BY <2>1, <2>2
<1>3. QED BY Invariance, <1>1, <1>2, PTL DEF Spec

\* Who waits for a row waits for a transaction that is about to be rolled back.
LEMMA RowHolderIsRollingBack ==
  ASSUME DeploymentInv, NEW d \in Deployer, NEW e \in Deployer, d # e,
         pc[d] = "record", Pending(d)[at[d]] \in noted[e]
  PROVE  pc[e] = "rollback"
<1>1. pc[e] \in {"migrations", "record", "rollback"}
  BY DEF DeploymentInv, MigrationProgress
<1>2. pc[e] \notin {"migrations", "record"}
  BY OnePastTheManifest DEF DeploymentInv
<1>3. QED BY <1>1, <1>2

\* Along a wait for an object the numbers go down.
LEMMA RankDescends ==
  ASSUME DeploymentInv, LocksAreBehind, NEW rank \in [Object -> Nat], InOneOrder(rank),
         NEW d \in Deployer, NEW e \in Deployer, NEW f \in Deployer,
         pc[d] \in {"batches", "create"}, WaitsFor(d, e),
         pc[e] \in {"batches", "create"}, WaitsFor(e, f)
  PROVE  rank[Script(e)[at[e]]] < rank[Script(d)[at[d]]]
<1>1. /\ Script(d)[at[d]] \in locked[e] /\ e # f
      /\ at[e] \in DOMAIN Script(e) /\ Script(e)[at[e]] \in locked[f]
  BY DEF WaitsFor
<1>2. PICK i \in DOMAIN Script(e) : i < at[e] /\ Script(e)[i] = Script(d)[at[d]]
  BY <1>1 DEF LocksAreBehind
<1>3. Script(e)[at[e]] \notin locked[e]
  BY <1>1 DEF DeploymentInv, LocksExclude
<1>4. Script(e)[at[e]] # Script(e)[i]
  BY <1>1, <1>2, <1>3
<1>5. QED BY <1>1, <1>2, <1>4 DEF InOneOrder, Script, DeploymentInv, TypeOK

LEMMA SomebodyIsNotWaiting ==
  ASSUME DeploymentInv, LocksAreBehind, NEW rank \in [Object -> Nat], InOneOrder(rank)
  PROVE  NobodyInACircle
<1> SUFFICES ASSUME NEW S \in SUBSET Deployer, S # {},
                    \A d \in S : \E e \in S : WaitsFor(d, e)
             PROVE  FALSE
  BY DEF NobodyInACircle
<1>1. \A d \in S : pc[d] \in {"batches", "create"}
  <2> SUFFICES ASSUME NEW d \in S, pc[d] \notin {"batches", "create"} PROVE FALSE
    OBVIOUS
  <2>1. PICK e \in S : WaitsFor(d, e)
    OBVIOUS
  <2>2. pc[e] = "rollback"
    BY <2>1, RowHolderIsRollingBack DEF WaitsFor
  <2>3. QED BY <2>2 DEF WaitsFor
<1> DEFINE Wanted(d) == rank[Script(d)[at[d]]]
           Ranks == {Wanted(d) : d \in S}
<1>2. \A d \in S : Wanted(d) \in Nat
  <2> SUFFICES ASSUME NEW d \in S PROVE Wanted(d) \in Nat
    OBVIOUS
  <2>1. at[d] \in DOMAIN Script(d)
    BY <1>1 DEF WaitsFor
  <2>2. d \in Deployer /\ TypeOK
    BY DEF DeploymentInv
  <2>3. Script(d) \in Seq(Object)
    BY <2>2, Lists
  <2>4. Script(d)[at[d]] \in Object
    BY <2>1, <2>3
  <2>5. QED BY <2>4
<1>3. Ranks \subseteq Nat /\ Ranks # {}
  BY <1>2
<1> HIDE DEF Ranks
<1>4. PICK n \in Ranks : \A k \in Ranks : ~(<<k, n>> \in OpToRel(<, Nat))
  BY <1>3, NatLessThanWellFounded, WFMin
<1>5. \A k \in Ranks : ~(k < n)
  <2> SUFFICES ASSUME NEW k \in Ranks, k < n PROVE FALSE
    OBVIOUS
  <2>1. <<k, n>> \in {p \in Nat \X Nat : p[1] < p[2]}
    BY <1>3
  <2>2. QED BY <1>4, <2>1 DEF OpToRel
<1>6. PICK d \in S : n = Wanted(d)
  BY DEF Ranks
<1>7. PICK e \in S : WaitsFor(d, e)
  OBVIOUS
<1>8. PICK f \in S : WaitsFor(e, f)
  OBVIOUS
<1>9. Wanted(e) < Wanted(d)
  BY <1>1, <1>7, <1>8, RankDescends
<1>10. Wanted(e) \in Ranks
  BY DEF Ranks
<1>11. QED BY <1>5, <1>6, <1>9, <1>10

\* Deployers of releases that agree on the order of what they create cannot block
\* each other: whatever group waits, one of it waits for nobody in it.
THEOREM NoDeadlock ==
  ASSUME NEW rank \in [Object -> Nat], InOneOrder(rank)
  PROVE  Spec => []NobodyInACircle
<1>1. DeploymentInv /\ LocksAreBehind => NobodyInACircle
  BY SomebodyIsNotWaiting
<1>2. QED BY Invariance, LocksStayBehind, <1>1, PTL

-----------------------------------------------------------------------------
(***************************************************************************)
(* A deployment runs out of calls.                                         *)
(***************************************************************************)
\* The calls left at one place of deploy_database, of l batches and p migrations and
\* position k, if everything goes well; no more than the rollback, if not.
Left(l, p, place, k) ==
  CASE place = "manifest"   -> 2 * l + 2 * p + 5
    [] place = "batches"    -> 2 * (l + 1 - k) + 2 * p + 4
    [] place = "create"     -> 2 * (l - k) + 2 * p + 5
    [] place = "migrations" -> 2 * (p + 1 - k) + 2
    [] place = "record"     -> 2 * (p - k) + 3
    [] place = "rollback"   -> 1
    [] place \in Ended      -> 0

\* The calls that deployer d has left.
Remaining(d) == Left(Len(Script(d)), Len(Pending(d)), pc[d], at[d])

LEMMA LeftIsNat ==
  ASSUME NEW l \in Nat, NEW p \in Nat, NEW place \in Place, NEW k \in Nat \ {0},
         place = "batches" => k <= l + 1,
         place = "create" => k <= l,
         place = "migrations" => k <= p + 1,
         place = "record" => k <= p
  PROVE  Left(l, p, place, k) \in Nat /\ (Left(l, p, place, k) = 0 <=> place \in Ended)
<1>1. CASE place = "manifest"
  BY <1>1 DEF Left, Ended
<1>2. CASE place = "batches"
  <2>1. l + 1 - k \in Nat
    BY <1>2
  <2>2. Left(l, p, place, k) = 2 * (l + 1 - k) + 2 * p + 4
    BY <1>2 DEF Left, Ended
  <2>3. QED BY <1>2, <2>1, <2>2 DEF Ended
<1>8. CASE place = "create"
  <2>1. l - k \in Nat
    BY <1>8
  <2>2. Left(l, p, place, k) = 2 * (l - k) + 2 * p + 5
    BY <1>8 DEF Left, Ended
  <2>3. QED BY <1>8, <2>1, <2>2 DEF Ended
<1>3. CASE place = "migrations"
  <2>1. p + 1 - k \in Nat
    BY <1>3
  <2>2. Left(l, p, place, k) = 2 * (p + 1 - k) + 2
    BY <1>3 DEF Left, Ended
  <2>3. QED BY <1>3, <2>1, <2>2 DEF Ended
<1>4. CASE place = "record"
  <2>1. p - k \in Nat
    BY <1>4
  <2>2. Left(l, p, place, k) = 2 * (p - k) + 3
    BY <1>4 DEF Left, Ended
  <2>3. QED BY <1>4, <2>1, <2>2 DEF Ended
<1>5. CASE place = "rollback"
  BY <1>5 DEF Left, Ended
<1>6. CASE place \in Ended
  BY <1>6 DEF Left, Ended
<1>7. QED
  BY <1>1, <1>2, <1>3, <1>4, <1>5, <1>6, <1>8 DEF Place

\* Each way from a place to the next one counts.
LEMMA LeftDescends ==
  ASSUME NEW l \in Nat, NEW p \in Nat, NEW k \in Nat
  PROVE  /\ Left(l, p, "batches", 1) < Left(l, p, "manifest", 1)
         /\ Left(l, p, "batches", k + 1) < Left(l, p, "batches", k)
         /\ Left(l, p, "create", k) < Left(l, p, "batches", k)
         /\ Left(l, p, "batches", k + 1) < Left(l, p, "create", k)
         /\ Left(l, p, "migrations", 1) < Left(l, p, "batches", l + 1)
         /\ Left(l, p, "migrations", k + 1) < Left(l, p, "migrations", k)
         /\ Left(l, p, "record", k) < Left(l, p, "migrations", k)
         /\ Left(l, p, "migrations", k + 1) < Left(l, p, "record", k)
<1>1. /\ Left(l, p, "batches", 1) < Left(l, p, "manifest", 1)
      /\ Left(l, p, "migrations", 1) < Left(l, p, "batches", l + 1)
  BY DEF Left, Ended
<1>2. Left(l, p, "batches", k + 1) < Left(l, p, "batches", k)
  BY DEF Left, Ended
<1>3. Left(l, p, "migrations", k + 1) < Left(l, p, "migrations", k)
  BY DEF Left, Ended
<1>4. Left(l, p, "record", k) < Left(l, p, "migrations", k)
  BY DEF Left, Ended
<1>5. Left(l, p, "migrations", k + 1) < Left(l, p, "record", k)
  BY DEF Left, Ended
<1>6. Left(l, p, "create", k) < Left(l, p, "batches", k)
  BY DEF Left, Ended
<1>7. Left(l, p, "batches", k + 1) < Left(l, p, "create", k)
  BY DEF Left, Ended
<1>8. QED BY <1>1, <1>2, <1>3, <1>4, <1>5, <1>6, <1>7

\* The rollback is shorter than what it cuts off.
LEMMA FailureDescends ==
  ASSUME NEW l \in Nat, NEW p \in Nat, NEW k \in Nat \ {0}, NEW j \in Nat \ {0},
         NEW place \in {"batches", "create", "migrations", "record"},
         place = "batches" => k <= l + 1,
         place = "create" => k <= l,
         place = "migrations" => k <= p + 1,
         place = "record" => k <= p
  PROVE  Left(l, p, "rollback", j) < Left(l, p, place, k)
<1>1. Left(l, p, "rollback", j) = 1
  BY DEF Left, Ended
<1>2. CASE place = "batches"
  <2>1. l + 1 - k \in Nat
    BY <1>2
  <2>2. QED BY <1>1, <1>2, <2>1 DEF Left, Ended
<1>3. CASE place = "migrations"
  <2>1. p + 1 - k \in Nat
    BY <1>3
  <2>2. QED BY <1>1, <1>3, <2>1 DEF Left, Ended
<1>4. CASE place = "record"
  <2>1. p - k \in Nat
    BY <1>4
  <2>2. QED BY <1>1, <1>4, <2>1 DEF Left, Ended
<1>5. CASE place = "create"
  <2>1. l - k \in Nat
    BY <1>5
  <2>2. QED BY <1>1, <1>5, <2>1 DEF Left, Ended
<1>6. QED BY <1>2, <1>3, <1>4, <1>5

\* Where the position is, while it means something.
LEMMA Positions ==
  ASSUME TypeOK, NEW d \in Deployer
  PROVE  /\ Len(Script(d)) \in Nat /\ Len(Pending(d)) \in Nat
         /\ at[d] \in Nat \ {0} /\ pc[d] \in Place
         /\ pc[d] = "manifest" => at[d] = 1
         /\ pc[d] = "batches" => at[d] <= Len(Script(d)) + 1
         /\ pc[d] = "create" => at[d] <= Len(Script(d))
         /\ pc[d] = "migrations" => at[d] <= Len(Pending(d)) + 1
         /\ pc[d] = "record" => at[d] <= Len(Pending(d))
         /\ pc \in [Deployer -> Place] /\ at \in [Deployer -> Nat \ {0}]
  BY Lists DEF TypeOK

LEMMA RemainingIsNat ==
  ASSUME TypeOK, NEW d \in Deployer
  PROVE  Remaining(d) \in Nat /\ (Remaining(d) = 0 <=> pc[d] \in Ended)
  BY Positions, LeftIsNat DEF Remaining

LEMMA StepCounts ==
  ASSUME TypeOK, TypeOK', NEW d \in Deployer, Step(d) \/ Die(d)
  PROVE  Remaining(d)' < Remaining(d)
<1> DEFINE L == Len(Script(d))
           P == Len(Pending(d))
<1>1. /\ L \in Nat /\ P \in Nat
      /\ at[d] \in Nat \ {0} /\ at'[d] \in Nat \ {0}
      /\ pc \in [Deployer -> Place] /\ at \in [Deployer -> Nat \ {0}]
      /\ pc[d] = "manifest" => at[d] = 1
      /\ pc[d] = "batches" => at[d] <= L + 1
      /\ pc[d] = "create" => at[d] <= L
      /\ pc[d] = "migrations" => at[d] <= P + 1
      /\ pc[d] = "record" => at[d] <= P
  BY Positions DEF TypeOK
<1>2. Remaining(d)' = Left(L, P, pc'[d], at'[d])
  BY OwnLists DEF Remaining
<1>3. Remaining(d) = Left(L, P, pc[d], at[d])
  BY DEF Remaining
<1>4. L = Len(Script(d)) /\ P = Len(Pending(d))
  OBVIOUS
<1> HIDE DEF L, P
<1>5. ASSUME pc'[d] = "rollback", pc[d] \in {"batches", "create", "migrations", "record"}
      PROVE  Remaining(d)' < Remaining(d)
  BY <1>1, <1>2, <1>3, <1>5, FailureDescends
<1>6. ASSUME pc'[d] \in Ended, pc[d] \notin Ended
      PROVE  Remaining(d)' < Remaining(d)
  <2>1. Remaining(d)' = 0
    BY <1>2, <1>6 DEF Left, Ended
  <2>2. Remaining(d) \in Nat /\ Remaining(d) # 0
    BY <1>6, RemainingIsNat
  <2>3. QED BY <2>1, <2>2
<1>7. ASSUME Fails(d) PROVE pc'[d] = "rollback"
  BY <1>1, <1>7 DEF Fails, Goto
<1>8. CASE ReadManifest(d)
  <2>1. /\ pc[d] = "manifest" /\ at'[d] = 1 /\ at[d] = 1
        /\ pc'[d] = "batches" \/ pc'[d] = "raised"
    BY <1>1, <1>8 DEF ReadManifest, Goto
  <2>2. QED
    BY <1>1, <1>2, <1>3, <1>6, <2>1, LeftDescends DEF Ended
<1>9. CASE ReplaceObject(d) \/ CheckObject(d)
  <2>1. /\ pc[d] = "batches"
        /\ \/ pc'[d] = "batches" /\ at'[d] = at[d] + 1
           \/ pc'[d] = "create" /\ at'[d] = at[d]
           \/ pc'[d] = "rollback"
    BY <1>1, <1>7, <1>9 DEF ReplaceObject, CheckObject, Advance, Goto
  <2>2. QED
    BY <1>1, <1>2, <1>3, <1>5, <2>1, LeftDescends
<1>18. CASE CreateObject(d)
  <2>1. /\ pc[d] = "create"
        /\ \/ pc'[d] = "batches" /\ at'[d] = at[d] + 1
           \/ pc'[d] = "rollback"
    BY <1>1, <1>7, <1>18 DEF CreateObject, Advance, Goto
  <2>2. QED
    BY <1>1, <1>2, <1>3, <1>5, <2>1, LeftDescends
<1>10. CASE GetAppliedMigrations(d)
  <2>1. /\ pc[d] = "batches" /\ at[d] = L + 1
        /\ \/ pc'[d] = "migrations" /\ at'[d] = 1
           \/ pc'[d] = "rollback"
    BY <1>1, <1>4, <1>7, <1>10 DEF GetAppliedMigrations, Goto
  <2>2. QED
    BY <1>1, <1>2, <1>3, <1>5, <2>1, LeftDescends
<1>11. CASE SkipMigration(d)
  <2>1. pc[d] = "migrations" /\ pc'[d] = "migrations" /\ at'[d] = at[d] + 1
    BY <1>1, <1>11 DEF SkipMigration, Advance
  <2>2. QED
    BY <1>1, <1>2, <1>3, <2>1, LeftDescends
<1>12. CASE RunMigration(d)
  <2>1. /\ pc[d] = "migrations"
        /\ \/ pc'[d] = "record" /\ at'[d] = at[d]
           \/ pc'[d] = "rollback"
    BY <1>1, <1>7, <1>12 DEF RunMigration, Goto
  <2>2. QED
    BY <1>1, <1>2, <1>3, <1>5, <2>1, LeftDescends
<1>13. CASE RecordMigration(d)
  <2>1. /\ pc[d] = "record"
        /\ \/ pc'[d] = "migrations" /\ at'[d] = at[d] + 1
           \/ pc'[d] = "rollback"
    BY <1>1, <1>7, <1>13 DEF RecordMigration, Goto, Advance
  <2>2. QED
    BY <1>1, <1>2, <1>3, <1>5, <2>1, LeftDescends
<1>14. CASE Commit(d)
  <2>1. pc[d] = "migrations" /\ pc'[d] \in {"succeeded", "rollback"}
    BY <1>1, <1>7, <1>14 DEF Commit, Goto
  <2>2. QED
    BY <1>5, <1>6, <2>1 DEF Ended
<1>15. CASE Rollback(d)
  <2>1. pc[d] = "rollback" /\ pc'[d] = "raised"
    BY <1>1, <1>15 DEF Rollback, Goto
  <2>2. QED
    BY <1>6, <2>1 DEF Ended
<1>16. CASE Die(d)
  <2>1. pc[d] \notin Ended /\ pc'[d] = "died"
    BY <1>1, <1>16 DEF Die, Goto
  <2>2. QED
    BY <1>6, <2>1 DEF Ended
<1>17. QED
  BY <1>8, <1>9, <1>10, <1>11, <1>12, <1>13, <1>14, <1>15, <1>16, <1>18 DEF Step

\* Each step is a call of one deployer, and brings it nearer to its end.
EveryCallCounts ==
  [][\E d \in Deployer :
       /\ Remaining(d)' < Remaining(d)
       /\ \A e \in Deployer \ {d} : Remaining(e)' = Remaining(e)]_vars

\* A deployment makes at most two calls for each batch (the check and the creation) and
\* two for each migration, and five: nothing is tried again.  With NoDeadlock that is why
\* every deployment ends.
THEOREM CallsRunOut ==
  Spec => /\ [](\A d \in Deployer : Remaining(d) \in Nat /\ (Remaining(d) = 0 <=> pc[d] \in Ended))
          /\ EveryCallCounts
<1> DEFINE Counted == \A d \in Deployer : Remaining(d) \in Nat /\ (Remaining(d) = 0 <=> pc[d] \in Ended)
           Counts == \E d \in Deployer : /\ Remaining(d)' < Remaining(d)
                                         /\ \A e \in Deployer \ {d} : Remaining(e)' = Remaining(e)
<1>1. TypeOK => Counted
  BY RemainingIsNat
<1>2. ASSUME TypeOK, TypeOK', [Next]_vars PROVE [Counts]_vars
  <2>1. ASSUME NEW d \in Deployer, Step(d) \/ Die(d) PROVE Counts
    <3>1. Remaining(d)' < Remaining(d)
      BY <1>2, <2>1, StepCounts
    <3>2. \A e \in Deployer \ {d} : Remaining(e)' = Remaining(e)
      BY <1>2, <2>1, OnlyOne DEF Remaining
    <3>3. QED
      BY <3>1, <3>2
  <2>2. QED
    BY <1>2, <2>1 DEF Next
<1> HIDE DEF Counted, Counts
<1>3. Spec => []Counted /\ [][Counts]_vars
  BY <1>1, <1>2, TypeCorrect, PTL DEF Spec
<1>4. QED
  BY <1>3 DEF Counted, Counts, EveryCallCounts
=============================================================================
