CONSTANTS
  SegmentEvents = 2
  Readers = {r1}
  LastId = 5
  MaxOpens = 3
SPECIFICATION FairSpec
INVARIANTS
  TypeOK
  SegmentsChain
  LossIsDeclared
  InvalidIsSticky
  ReaderInPlace
PROPERTIES
  ReaderCatchesUp
CHECK_DEADLOCK FALSE
