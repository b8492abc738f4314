SPECIFICATION Spec
CHECK_DEADLOCK FALSE
CONSTANTS
  a1 = a1
  a2 = a2
  a3 = a3
  a4 = a4
  NTags = 4
  Address <- MCAddress
  Shared <- NoShared
  EarlyReuse = FALSE
  KillAfterGet = TRUE
  Overlap = "free"
INVARIANT LinksKept
