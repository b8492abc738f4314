SPECIFICATION FairSpec
CONSTANTS
  Size = 4
  PutSizes <- MCPutSizes
  GetSizes <- MCGetSizes
  Byte <- MCByte
INVARIANTS
  TypeOK
  RingInv
  NoLostWakeup
  NeverBothWait
PROPERTIES
  StreamSpec
  Progress
