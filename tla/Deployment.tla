----------------------------- MODULE Deployment -----------------------------
(***************************************************************************)
(* Processes that run src/src/database_deployment.py against one warehouse, *)
(* possibly of different releases of the repository and at the same time.  *)
(*                                                                         *)
(* deploy_database is one transaction: the batches of deploy_manifest.txt,  *)
(* then the migrations that ops.SchemaMigrations does not name yet, each    *)
(* with its row.  Neither Python nor SQL takes an explicit lock.  What the  *)
(* server does is modelled from that use: DDL is transactional, an object   *)
(* that a transaction has created or replaced is locked to its end, a name  *)
(* that is absent cannot be locked, and MigrationID is a primary key.  Any  *)
(* call may fail, and a process may die.                                    *)
(***************************************************************************)
EXTENDS Naturals, Sequences

CONSTANTS Deployer,    \* processes
          Release,     \* versions of the database directory
          Object,      \* what a batch of a manifest script creates or replaces
          Migration,   \* MigrationIDs
          Manifest,    \* Manifest[r]: the batches of deploy_manifest.txt, in order
          Migrations,  \* Migrations[r]: those of migrations.txt, in order
          Guarded      \* the objects whose batch creates them only when absent

\* A migration is listed once and the list grows at its end; every release
\* replaces, unconditionally, some object that all the others replace, too (a
\* procedure or a view).
ASSUME DeploymentAssumption ==
  /\ Release \subseteq Nat \ {0}
  /\ Manifest \in [Release -> Seq(Object)]
  /\ Migrations \in [Release -> Seq(Migration)]
  /\ Guarded \subseteq Object
  /\ \A r \in Release : \A i, j \in DOMAIN Migrations[r] :
       Migrations[r][i] = Migrations[r][j] => i = j
  /\ \A r, s \in Release : \A i \in DOMAIN Migrations[r] \cap DOMAIN Migrations[s] :
       Migrations[r][i] = Migrations[s][i]
  /\ \E o \in Object \ Guarded : \A r \in Release :
       \E i \in DOMAIN Manifest[r] : Manifest[r][i] = o

VARIABLES
  release,   \* release[d]: the checkout d runs from
  pc,        \* pc[d]: where d is in deploy_database
  at,        \* at[d]: its position in the manifest, then in the migrations
  applied,   \* applied[d]: what its get_applied_migrations has returned
  locked,    \* locked[d]: the objects its open transaction has created or replaced
  ran,       \* ran[d]: the migrations whose script it has run in the transaction
  noted,     \* noted[d]: the rows of ops.SchemaMigrations it has inserted there
  objects, effects, recorded,  \* the committed database, see AtomicDeployment
  missing,   \* auxiliary: the guarded objects that were absent when d began
  faulted    \* auxiliary: the deployers one of whose calls has failed

local == <<release, applied, missing>>
transaction == <<locked, ran, noted>>
database == <<objects, effects, recorded>>
vars == <<release, pc, at, applied, locked, ran, noted, objects, effects, recorded,
          missing, faulted>>

Ended == {"succeeded", "raised", "died"}
Place == {"manifest", "batches", "create", "migrations", "record", "rollback"} \cup Ended

Script(d) == Manifest[release[d]]
Scripted(d) == {Script(d)[i] : i \in DOMAIN Script(d)}
Pending(d) == Migrations[release[d]]

-----------------------------------------------------------------------------
Init ==
  /\ release \in [Deployer -> Release]
  /\ pc = [d \in Deployer |-> "manifest"]
  /\ at = [d \in Deployer |-> 1]
  /\ applied = [d \in Deployer |-> {}]
  /\ locked = [d \in Deployer |-> {}]
  /\ ran = [d \in Deployer |-> {}]
  /\ noted = [d \in Deployer |-> {}]
  /\ objects = [o \in Object |-> 0]
  /\ effects = [m \in Migration |-> 0]
  /\ recorded = {}
  /\ missing = [d \in Deployer |-> {}]
  /\ faulted = {}

Goto(d, place) == pc' = [pc EXCEPT ![d] = place]
Advance(d) == at' = [at EXCEPT ![d] = @ + 1]

\* An exception inside the try block of deploy_database.
Fails(d) ==
  /\ Goto(d, "rollback")
  /\ faulted' = faulted \cup {d}
  /\ UNCHANGED <<local, at, transaction, database>>

\* read_deployment_manifest is called before the try: a script that is missing
\* ends the deployment before its first statement.
ReadManifest(d) ==
  /\ pc[d] = "manifest"
  /\ \/ Goto(d, "batches") /\ UNCHANGED faulted
     \/ Goto(d, "raised") /\ faulted' = faulted \cup {d}
  /\ missing' = [missing EXCEPT ![d] = {o \in Scripted(d) \cap Guarded : objects[o] = 0}]
  /\ UNCHANGED <<release, applied, at, transaction, database>>

\* The batch waits for a transaction that has the object locked.
Free(d, o) == \A e \in Deployer \ {d} : o \notin locked[e]

\* A batch of execute_sql_script that replaces its object whether it is there or
\* not: CREATE OR ALTER, GRANT.
ReplaceObject(d) ==
  LET o == Script(d)[at[d]]
  IN  /\ pc[d] = "batches"
      /\ at[d] \in DOMAIN Script(d)
      /\ o \notin Guarded
      /\ \/ /\ Free(d, o)
            /\ locked' = [locked EXCEPT ![d] = @ \cup {o}]
            /\ Advance(d)
            /\ UNCHANGED <<local, pc, ran, noted, database, faulted>>
         \/ Fails(d)

\* The IF OBJECT_ID(...) IS NULL, or IF NOT EXISTS, of a batch that creates its
\* object only when absent.  It sees what is committed and what its own transaction
\* has created, whether or not it waits for another one that has just created the
\* object; of an absent name it locks nothing.
CheckObject(d) ==
  LET o == Script(d)[at[d]]
  IN  /\ pc[d] = "batches"
      /\ at[d] \in DOMAIN Script(d)
      /\ o \in Guarded
      /\ \/ /\ objects[o] # 0 \/ o \in locked[d]
            /\ Advance(d)
            /\ UNCHANGED <<local, pc, transaction, database, faulted>>
         \/ /\ objects[o] = 0 /\ o \notin locked[d]
            /\ Goto(d, "create")
            /\ UNCHANGED <<local, at, transaction, database, faulted>>
         \/ Fails(d)

\* The CREATE behind the check.  It waits for a transaction that has created the
\* object meanwhile, and if that one commits, there is already an object of the name.
CreateObject(d) ==
  LET o == Script(d)[at[d]]
  IN  /\ pc[d] = "create"
      /\ \/ /\ Free(d, o)
            /\ objects[o] = 0
            /\ locked' = [locked EXCEPT ![d] = @ \cup {o}]
            /\ Advance(d)
            /\ Goto(d, "batches")
            /\ UNCHANGED <<local, ran, noted, database, faulted>>
         \/ /\ objects[o] # 0
            /\ Goto(d, "rollback")
            /\ UNCHANGED <<local, at, transaction, database, faulted>>
         \/ Fails(d)

\* What COMMIT makes of the transaction of d.
Install(d) ==
  /\ objects' = [o \in Object |-> IF o \in locked[d] THEN release[d] ELSE objects[o]]
  /\ effects' = [m \in Migration |-> IF m \in ran[d] THEN effects[m] + 1 ELSE effects[m]]
  /\ recorded' = recorded \cup noted[d]

\* The end of a transaction, committed or not: its locks are released.
EndTransaction(d) ==
  /\ locked' = [locked EXCEPT ![d] = {}]
  /\ ran' = [ran EXCEPT ![d] = {}]
  /\ noted' = [noted EXCEPT ![d] = {}]

\* Mutants of GetAppliedMigrations: the position is kept; what is applied is not
\* read.
GetAppliedMigrationsKeepingAt(d) ==
  /\ pc[d] = "batches"
  /\ at[d] = Len(Script(d)) + 1
  /\ applied' = [applied EXCEPT ![d] = recorded]
  /\ Goto(d, "migrations")
  /\ UNCHANGED <<release, missing, at, transaction, database, faulted>>
GetAppliedMigrationsUnread(d) ==
  /\ pc[d] = "batches"
  /\ at[d] = Len(Script(d)) + 1
  /\ at' = [at EXCEPT ![d] = 1]
  /\ Goto(d, "migrations")
  /\ UNCHANGED <<local, transaction, database, faulted>>

\* read_migration_manifest and the SELECT of get_applied_migrations, which sees
\* the committed rows (it may also wait for the others to end, and see them later).
GetAppliedMigrations(d) ==
  /\ pc[d] = "batches"
  /\ at[d] = Len(Script(d)) + 1
  /\ \/ /\ applied' = [applied EXCEPT ![d] = recorded]
        /\ at' = [at EXCEPT ![d] = 1]
        /\ Goto(d, "migrations")
        /\ UNCHANGED <<release, missing, transaction, database, faulted>>
     \/ Fails(d)

SkipMigration(d) ==
  /\ pc[d] = "migrations"
  /\ at[d] \in DOMAIN Pending(d)
  /\ Pending(d)[at[d]] \in applied[d]
  /\ Advance(d)
  /\ UNCHANGED <<local, pc, transaction, database, faulted>>

\* Mutant of RunMigration: the script is committed before its row is inserted.
RunMigrationCommitting(d) ==
  LET m == Pending(d)[at[d]]
  IN  /\ pc[d] = "migrations"
      /\ at[d] \in DOMAIN Pending(d)
      /\ m \notin applied[d]
      /\ Goto(d, "record")
      /\ effects' = [effects EXCEPT ![m] = @ + 1]
      /\ UNCHANGED <<local, at, transaction, objects, recorded, faulted>>

\* The first half of apply_migration: the script.  Two transactions may both run
\* it, if it changes nothing that one of them would have to lock.
RunMigration(d) ==
  LET m == Pending(d)[at[d]]
  IN  /\ pc[d] = "migrations"
      /\ at[d] \in DOMAIN Pending(d)
      /\ m \notin applied[d]
      /\ \/ /\ ran' = [ran EXCEPT ![d] = @ \cup {m}]
            /\ Goto(d, "record")
            /\ UNCHANGED <<local, at, locked, noted, database, faulted>>
         \/ Fails(d)

\* The second half: the INSERT of its row.  It waits for a transaction that has
\* inserted the same key, and breaks the primary key when that one commits.
RecordMigration(d) ==
  LET m == Pending(d)[at[d]]
  IN  /\ pc[d] = "record"
      /\ \/ /\ m \notin recorded
            /\ \A e \in Deployer \ {d} : m \notin noted[e]
            /\ noted' = [noted EXCEPT ![d] = @ \cup {m}]
            /\ Advance(d)
            /\ Goto(d, "migrations")
            /\ UNCHANGED <<local, locked, ran, database, faulted>>
         \/ /\ m \in recorded
            /\ Goto(d, "rollback")
            /\ UNCHANGED <<local, at, transaction, database, faulted>>
         \/ Fails(d)

\* connection.commit(): it succeeds, it is refused, or its answer is lost.
Commit(d) ==
  /\ pc[d] = "migrations"
  /\ at[d] = Len(Pending(d)) + 1
  /\ \/ /\ Install(d)
        /\ EndTransaction(d)
        /\ \/ Goto(d, "succeeded") /\ UNCHANGED faulted
           \/ Goto(d, "rollback") /\ faulted' = faulted \cup {d}
        /\ UNCHANGED <<local, at>>
     \/ Fails(d)

\* Mutants of Rollback: the handler commits; the connection stays open.
RollbackCommitting(d) ==
  /\ pc[d] = "rollback"
  /\ Goto(d, "raised")
  /\ Install(d)
  /\ EndTransaction(d)
  /\ UNCHANGED <<local, at, faulted>>
RollbackForgotten(d) ==
  /\ pc[d] = "rollback"
  /\ Goto(d, "raised")
  /\ UNCHANGED <<local, at, transaction, database, faulted>>

\* The except branch, and the finally that closes the connection: if rollback()
\* itself fails, the server rolls back.
Rollback(d) ==
  /\ pc[d] = "rollback"
  /\ Goto(d, "raised")
  /\ EndTransaction(d)
  /\ UNCHANGED <<local, at, database, faulted>>

\* The process dies, or its connection does: the server rolls back.
Die(d) ==
  /\ pc[d] \notin Ended
  /\ Goto(d, "died")
  /\ EndTransaction(d)
  /\ UNCHANGED <<local, at, database, faulted>>

Step(d) ==
  \/ ReadManifest(d)
  \/ ReplaceObject(d)
  \/ CheckObject(d)
  \/ CreateObject(d)
  \/ GetAppliedMigrations(d)
  \/ SkipMigration(d)
  \/ RunMigration(d)
  \/ RecordMigration(d)
  \/ Commit(d)
  \/ Rollback(d)

Next == \E d \in Deployer : Step(d) \/ Die(d)

Spec == Init /\ [][Next]_vars

\* The server may make d wait for e: e holds the object d is to look up, to create or
\* to replace, or the key it is to insert.
WaitsFor(d, e) ==
  /\ d # e
  /\ \/ /\ pc[d] \in {"batches", "create"}
        /\ at[d] \in DOMAIN Script(d)
        /\ Script(d)[at[d]] \in locked[e]
     \/ /\ pc[d] = "record"
        /\ Pending(d)[at[d]] \in noted[e]

\* A statement that need not wait is executed sooner or later, if it does not
\* fail; one that waits is when the lock is released.
Works(d) == (\A e \in Deployer : ~WaitsFor(d, e)) /\ Step(d) /\ UNCHANGED faulted
FairSpec == Spec /\ \A d \in Deployer : WF_vars(Works(d))

-----------------------------------------------------------------------------
(***************************************************************************)
(* Properties                                                              *)
(***************************************************************************)
\* Every variable holds a value of its kind; the position is in the list that is
\* being worked through, or just past its end.
TypeOK ==
  /\ release \in [Deployer -> Release]
  /\ pc \in [Deployer -> Place]
  /\ at \in [Deployer -> Nat \ {0}]
  /\ \A d \in Deployer :
       /\ pc[d] = "manifest" => at[d] = 1
       /\ pc[d] = "batches" => at[d] <= Len(Script(d)) + 1
       /\ pc[d] = "create" => at[d] <= Len(Script(d))
       /\ pc[d] = "migrations" => at[d] <= Len(Pending(d)) + 1
       /\ pc[d] = "record" => at[d] <= Len(Pending(d))
  /\ applied \in [Deployer -> SUBSET Migration]
  /\ locked \in [Deployer -> SUBSET Object]
  /\ ran \in [Deployer -> SUBSET Migration]
  /\ noted \in [Deployer -> SUBSET Migration]
  /\ objects \in [Object -> Release \cup {0}]
  /\ effects \in [Migration -> Nat]
  /\ recorded \subseteq Migration
  /\ missing \in [Deployer -> SUBSET Guarded]
  /\ faulted \subseteq Deployer

\* ops.SchemaMigrations tells the truth, whatever fails and whoever deploys at the
\* same time: a recorded migration has taken effect exactly once, one without a
\* row not at all, and no migration has been applied before its predecessors.
HistoryIsTrue ==
  /\ \A m \in Migration : effects[m] = IF m \in recorded THEN 1 ELSE 0
  /\ \A r \in Release : \A i, j \in DOMAIN Migrations[r] :
       i < j /\ Migrations[r][j] \in recorded => Migrations[r][i] \in recorded

\* How far deployers get into each other's way.  Never over a migration: the manifest
\* replaces objects before the applied migrations are read, so that the INSERT of
\* apply_migration meets no row of its key.  And over an object only when both found
\* it missing: a deployment that raises without a fault of its own began before some
\* object of its manifest was there, and another one has created that object since.
\* So what database/README.md:50 asks, that the deployment should also succeed when
\* run a second time, holds with any number of deployers at work.
OnlyCreationsCollide ==
  \A d \in Deployer :
    /\ pc[d] = "record" => Pending(d)[at[d]] \notin recorded
    /\ pc[d] \in {"rollback", "raised"} =>
         d \in faulted \/ \E o \in missing[d] : objects[o] # 0

\* A deployment is all or nothing, in one step, also for an upgrade that runs
\* beside an older release: no mixture of two releases is ever committed.
Atomic == INSTANCE AtomicDeployment
ImplementsAtomic == Atomic!AtomicSpec

\* Whatever dies or fails, every deployment comes to its end: locks are released
\* and no two deployers wait for each other.
EveryDeploymentEnds == \A d \in Deployer : <>(pc[d] \in Ended)

-----------------------------------------------------------------------------
(***************************************************************************)
(* The inductive invariant behind the safety properties.                   *)
(***************************************************************************)
\* The batches of the manifest that d has executed.
Executed(d) ==
  IF pc[d] \in {"batches", "create"} THEN {i \in DOMAIN Script(d) : i < at[d]}
  ELSE IF pc[d] \in {"migrations", "record"} THEN DOMAIN Script(d)
  ELSE {}

\* One transaction at a time has an object locked.
LocksExclude ==
  \A d, e \in Deployer : d # e => locked[d] \cap locked[e] = {}

\* What an open transaction has done to the objects.
ObjectProgress ==
  \A d \in Deployer :
    /\ \A i \in Executed(d) : \/ Script(d)[i] \in locked[d]
                              \/ Script(d)[i] \in Guarded /\ objects[Script(d)[i]] # 0
    /\ \A o \in locked[d] :
         /\ \E i \in DOMAIN Script(d) : Script(d)[i] = o
         /\ o \in Guarded => objects[o] = 0
    /\ pc[d] \in Ended \cup {"manifest"} => locked[d] = {}

\* Objects do not vanish: what d still finds missing was so when it began.
MissingFromTheStart ==
  \A d \in Deployer :
    /\ pc[d] \in {"batches", "create"} =>
         \A o \in Scripted(d) \cap Guarded : objects[o] = 0 => o \in missing[d]
    /\ pc[d] = "create" => Script(d)[at[d]] \in missing[d]

\* What it has done about the migrations, and what it has read of them.
MigrationProgress ==
  \A d \in Deployer :
    /\ noted[d] \subseteq ran[d]
    /\ pc[d] \notin {"migrations", "record", "rollback"} => ran[d] = {}
    /\ pc[d] \in {"migrations", "record"} =>
         /\ applied[d] = recorded
         /\ ran[d] \cap recorded = {}
         /\ \A i \in DOMAIN Pending(d) : i < at[d] => Pending(d)[i] \in applied[d] \cup noted[d]
         /\ \A m \in noted[d] : \E i \in DOMAIN Pending(d) : i < at[d] /\ Pending(d)[i] = m
    /\ pc[d] = "migrations" => ran[d] = noted[d]
    /\ pc[d] = "record" => /\ Pending(d)[at[d]] \notin applied[d] \cup noted[d]
                           /\ ran[d] = noted[d] \cup {Pending(d)[at[d]]}

DeploymentInv ==
  /\ TypeOK /\ LocksExclude /\ ObjectProgress /\ MissingFromTheStart
  /\ MigrationProgress /\ HistoryIsTrue /\ OnlyCreationsCollide
=============================================================================
