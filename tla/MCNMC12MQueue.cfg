SPECIFICATION FairSpec
CONSTANTS
  c1 = c1
  c2 = c2
  Du = 3
  Consumers <- MCConsumers
  Leavers <- OneLeaver
  Value <- MCValue
INVARIANTS
  TypeOK
  RingInv
PROPERTIES
  NoWriteUnderRead
  CastSpec
  Progress
