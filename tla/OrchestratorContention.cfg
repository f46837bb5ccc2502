SPECIFICATION Spec
CONSTANTS
  a1 = a1
  a2 = a2
  a3 = a3
  b1 = b1
  b2 = b2
  Attempt = {a1, a2, a3}
  Batch = {b1}
  Pipeline <- Pipelines
  Plan <- ShortPlan
  Faulty <- AnyFault
  MayCrash = TRUE
SYMMETRY Symmetry
INVARIANTS
  TypeOK
  OneKeeper
  ReturnIsDurable
  SuccessMeansLoaded
  LoadsInOrder
  StageEvidence
PROPERTIES
  ImplementsLifecycle
\* An attempt ends; nothing starts another one.
CHECK_DEADLOCK FALSE
