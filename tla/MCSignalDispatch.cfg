CONSTANTS
  c1 = c1
  c2 = c2
  Codes = {c1, c2}
  Times <- MCTimes
  Predictions <- MCPredictions
  Turnover <- MCTurnover
  MaxStaleness = 1
  Capacity = 1
  MaxSignals = 2
SPECIFICATION FairSpec
INVARIANTS
  TypeOK
  StopIsPrompt
  DispatchOrder
PROPERTIES
  SnapshotTakesOver
CHECK_DEADLOCK FALSE
