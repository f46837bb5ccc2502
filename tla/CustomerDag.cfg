SPECIFICATION FairSpec
CONSTANTS
  Retries = 1
  MaxRuns = 2
  Faulty <- AnyFault
  MayLose = TRUE
INVARIANTS
  TypeOK
  SuccessMeansLoaded
  FinishedMeansSettled
  RunningBatchHasRun
PROPERTIES
  OutcomeIsFinal
  FollowsLifecycle
  RunningIsSettled
\* Nothing happens any more when the last execution is over.
CHECK_DEADLOCK FALSE
