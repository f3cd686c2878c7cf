SPECIFICATION FairSpec
CONSTANTS
  Capacity = 2
  TokenTicks = 2
  Quiet = {1, 3}
INVARIANTS
  TypeOK
  BurstBounded
  QuietRespected
  StatusTellsDelivery
PROPERTIES
  CallReturns
