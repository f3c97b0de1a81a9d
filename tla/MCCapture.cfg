CONSTANTS
  MaxEvents = 3
  MaxPacket = 2
  MaxStarts = 2
SPECIFICATION FairSpec
INVARIANTS
  TypeOK
  RingFollowsJournal
  NothingDroppedSilently
  BrokenDayStaysBroken
PROPERTIES
  HealthSettles
CHECK_DEADLOCK FALSE
