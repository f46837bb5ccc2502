SPECIFICATION FairSpec
CONSTANTS
  d1 = d1
  d2 = d2
  d3 = d3
  Deployer = {d1, d2, d3}
  Release <- Releases
  Object <- Objects
  Migration <- MigrationIDs
  Manifest <- TwoManifests
  Migrations <- TwoMigrations
  Guarded <- Tables
INVARIANTS
  TypeOK
  HistoryIsTrue
  OnlyCreationsCollide
PROPERTIES
  ImplementsAtomic
  EveryDeploymentEnds
\* A deployment ends, and nothing starts another one.
CHECK_DEADLOCK FALSE
