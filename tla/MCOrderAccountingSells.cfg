CONSTANTS
  Static = 2
  Days <- ThreadedDay
  MaxOrders = 3
SPECIFICATION Spec
INVARIANT SellsCovered
CHECK_DEADLOCK FALSE
