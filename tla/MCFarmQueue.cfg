SPECIFICATION FairSpec
CONSTANTS
  c1 = c1
  c2 = c2
  Du = 3
  Consumers <- MCConsumers
  Value <- MCValue
  GetUnits <- OneUnit
INVARIANTS
  TypeOK
  RingInv
PROPERTIES
  NoWriteUnderRead
  WorkSpec
  Progress
