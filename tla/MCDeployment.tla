---------------------------- MODULE MCDeployment ----------------------------
(***************************************************************************)
(* Instance of Deployment for TLC: an upgrade that adds a table in the      *)
(* middle of the manifest, a procedure at its end and a migration.          *)
(***************************************************************************)
EXTENDS Deployment

CONSTANTS d1, d2, d3

Releases == {1, 2}
Tables == {"orders", "payments"}
Objects == Tables \cup {"vw_metrics", "usp_load"}
TwoManifests == <<<<"orders", "vw_metrics">>,
                  <<"orders", "payments", "vw_metrics", "usp_load">>>>
TwoMigrations == <<<<"events_index">>, <<"events_index", "runs_batchid">>>>
MigrationIDs == {"events_index", "runs_batchid"}
=============================================================================
