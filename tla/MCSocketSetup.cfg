SPECIFICATION FairSpec
CHECK_DEADLOCK FALSE
CONSTANTS
  Size = 4
INVARIANTS
  TypeOK
  Wired
PROPERTIES
  SetupEnds
