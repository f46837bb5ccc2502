SPECIFICATION Spec
CONSTANTS
  b1 = b1
  b2 = b2
  x = x
  y = y
  Batch = {b1}
  Id = {x}
  Version = {1, 2}
  Pipeline <- Commerce
  Entities <- AllEntities
  Validating <- Nobody
  Sources <- CommerceSources
  MaxTries = 3
INVARIANTS
  ReferencesResolve
  SilverFieldsValid
  OneQuarantineRow
  QuarantineIsEvidence
CHECK_DEADLOCK FALSE
