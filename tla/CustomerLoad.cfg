SPECIFICATION FairSpec
CONSTANTS
  l1 = l1
  l2 = l2
  l3 = l3
  b1 = b1
  b2 = b2
  NULL = NULL
  Load = {l1, l2, l3}
  Batch = {b1, b2}
  Assignments <- Attempts
  Id = {1, 2}
  Text <- Texts
  HasAt = {"a@x"}
  Snapshots <- Extracts
  InvalidMax = 1
  InvalidOf = 3
INVARIANTS
  EvidenceIsComplete
  BronzeIsClean
  RefusalIsJust
  NobodyIsLost
PROPERTIES
  SilverSaysWhatBatchSays
  EveryAttemptEnds
\* An attempt ends, and nothing starts another one.
CHECK_DEADLOCK FALSE
