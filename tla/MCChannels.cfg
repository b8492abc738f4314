SPECIFICATION Spec
CHECK_DEADLOCK FALSE
CONSTANTS
  r1 = r1
  r2 = r2
  d1 = d1
  d2 = d2
  both = both
  one = one
  a1 = a1
  a2 = a2
  Remote <- MCRemote
  Dtype <- MCDtype
  Plist <- MCPlist
  Members <- MCMembers
  Block <- MCBlock
  NChan = 3
  OneKill = TRUE
  EarlyReuse = FALSE
INVARIANTS
  TypeOK
  DtypeCounted
  ChannelsReached
  NothingLeft
SYMMETRY Symmetry
