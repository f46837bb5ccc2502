CONSTANTS
  Attempt <- MCAttempt
  Batch = {b1}
  Pipeline = {"commerce"}
  Plan <- MCPlan
  Faulty <- MCFaulty
  MayCrash = TRUE
  Retries = 1
  MaxConnects = 3
  Fallible = {"body", "fail_batch"}
SPECIFICATION FairDagSpec
INVARIANTS DagTypeOK SuccessIsDurable FailedTaskIsRetryable RaisedMeansOutage
PROPERTY TaskEnds
CHECK_DEADLOCK FALSE
