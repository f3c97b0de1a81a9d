CONSTANTS
  MaxEvents = 3
  MaxPacket = 2
  MaxStarts = 2
SPECIFICATION Spec
INVARIANT ContinuityIndependentOfJournal
CHECK_DEADLOCK FALSE
