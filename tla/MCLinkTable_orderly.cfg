SPECIFICATION FairSpec
CHECK_DEADLOCK FALSE
CONSTANTS
  a1 = a1
  a2 = a2
  a3 = a3
  a4 = a4
  NTags = 3
  Address <- MCAddress
  Shared <- NoShared
  EarlyReuse = FALSE
  KillAfterGet = TRUE
  Overlap = "orderly"
INVARIANTS
  TypeOK
  AccessSafe
  ServedFromLiveLink
PROPERTIES
  DirectorySpec
  GetServed
