CONSTANTS
  Static = 2
  Days <- MCDays
  MaxOrders = 2
SPECIFICATION FairSpec
INVARIANTS
  TypeOK
  FillsCountedOnce
  PendingIsOutstanding
  AnswersKeepSales
  CapacityRespected
PROPERTIES
  TradeReturnsAreInert
  ReservationsEnd
CHECK_DEADLOCK FALSE
