CONSTANTS
  Capacity = 2
  MaxEvents = 3
  MaxLogins = 2
  MaxOpens = 2
SPECIFICATION FairSpec
INVARIANTS
  TypeOK
PROPERTIES
  ImplementsDelivery
  CatchesUp
  BrokenFeedNotTraded
  FallbackStopsTrading
  ReadinessSettles
CHECK_DEADLOCK FALSE
