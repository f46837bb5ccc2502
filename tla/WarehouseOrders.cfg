SPECIFICATION Spec
CONSTANTS
  b1 = b1
  b2 = b2
  x = x
  y = y
  Batch = {b1, b2}
  Id = {x, y}
  Version = {1, 2}
  Pipeline <- Both
  Entities <- CustomerOrders
  Validating <- Customer
  Sources <- OrderSources
  MaxTries = 2
INVARIANTS
  TypeOK
  NothingDropped
PROPERTIES
  BronzeIsImmutable
  FollowsLifecycle
CHECK_DEADLOCK FALSE
