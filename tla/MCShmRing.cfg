CONSTANTS
  Capacity = 2
  Readers = {r1}
  LastId = 6
SPECIFICATION FairSpec
INVARIANTS
  TypeOK
  ReadExact
  FailureJustified
  NeverStale
PROPERTIES
  ImplementsEventLog
  ReaderProgress
CHECK_DEADLOCK FALSE
