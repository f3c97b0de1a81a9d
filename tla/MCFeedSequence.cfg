CONSTANTS
  Word = 80
  MaxJump = 2
  MaxBack = 2
  MaxPacket = 2
  LastTop = 92
SPECIFICATION Spec
INVARIANTS
  TypeOK
  NoSilentLoss
  RebuiltExactly
  NoFalseGap
PROPERTIES
  NewRecordKept
  InvalidIsFinal
