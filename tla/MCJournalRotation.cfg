CONSTANTS
  SegmentEvents = 2
  Readers = {r1}
  LastId = 5
  MaxOpens = 3
SPECIFICATION Spec
INVARIANT ReaderSurvivesRotation
CHECK_DEADLOCK FALSE
