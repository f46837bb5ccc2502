CONSTANTS
  Attempt <- MCAttempt
  Batch = {b1}
  Pipeline = {"commerce"}
  Plan <- MCPlan
  Faulty <- MCFaulty
  MayCrash = TRUE
  Retries = 1
  MaxConnects = 2
  Fallible = {"body"}
SPECIFICATION DagSpec
INVARIANT RecoveryIsRecorded
CHECK_DEADLOCK FALSE
