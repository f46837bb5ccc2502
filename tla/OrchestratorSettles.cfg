SPECIFICATION FairSpec
CONSTANTS
  a1 = a1
  a2 = a2
  a3 = a3
  b1 = b1
  b2 = b2
  Attempt = {a1, a2}
  Batch = {b1, b2}
  Pipeline <- Pipelines
  Plan <- FullPlan
  Faulty <- StageFaults
  MayCrash = FALSE
INVARIANTS
  RaisedRunIsMarkedFailed
PROPERTIES
  RunningIsSettled
\* An attempt ends; nothing starts another one.
CHECK_DEADLOCK FALSE
