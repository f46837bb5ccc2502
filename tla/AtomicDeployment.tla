-------------------------- MODULE AtomicDeployment --------------------------
(***************************************************************************)
(* What a deployment of the warehouse schema promises to everybody else:   *)
(* the abstract specification of deploy_database                           *)
(* (src/src/database_deployment.py).  A deployment of a release happens at *)
(* once or not at all, and applies exactly the migrations nobody has       *)
(* applied before.                                                         *)
(***************************************************************************)
EXTENDS Naturals, Sequences

CONSTANTS Release,     \* versions of the database directory
          Object,      \* what a batch of a manifest script creates or replaces
          Migration,   \* MigrationIDs
          Manifest,    \* Manifest[r]: the batches of deploy_manifest.txt, in order
          Migrations,  \* Migrations[r]: those of migrations.txt, in order
          Guarded      \* the objects whose batch creates them only when absent

VARIABLES objects,   \* objects[o]: the release whose definition o has, 0 if none
          effects,   \* effects[m]: how many times the script of m has taken effect
          recorded   \* the rows of ops.SchemaMigrations

catalogVars == <<objects, effects, recorded>>

Deployed(r) == {Manifest[r][i] : i \in DOMAIN Manifest[r]}
Migrated(r) == {Migrations[r][i] : i \in DOMAIN Migrations[r]}

AtomicInit ==
  /\ objects = [o \in Object |-> 0]
  /\ effects = [m \in Migration |-> 0]
  /\ recorded = {}

\* Guarded objects that are there stay as they are, with the definition of the
\* release that created them; that is what migrations are for.
Deploy(r) ==
  /\ objects' = [o \in Object |->
                   IF o \in Deployed(r) /\ (o \notin Guarded \/ objects[o] = 0)
                   THEN r ELSE objects[o]]
  /\ effects' = [m \in Migration |->
                   IF m \in Migrated(r) \ recorded THEN effects[m] + 1 ELSE effects[m]]
  /\ recorded' = recorded \cup Migrated(r)

AtomicNext == \E r \in Release : Deploy(r)

AtomicSpec == AtomicInit /\ [][AtomicNext]_catalogVars
=============================================================================
