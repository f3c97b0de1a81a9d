CONSTANTS
  Capacity = 2
  Readers = {r1}
  LastId = 6
SPECIFICATION Spec
INVARIANT LappedReaderRecovers
CHECK_DEADLOCK FALSE
