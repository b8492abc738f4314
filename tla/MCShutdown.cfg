SPECIFICATION FairSpec
CHECK_DEADLOCK FALSE
CONSTANTS
  Size = 3
  MaxRequests = 1
  Spurious <- OneSpurious
INVARIANTS
  TypeOK
  DestroyedLast
  FinalIsBarrier
PROPERTY FinalReturns
