SPECIFICATION Spec
CONSTANTS
  Apps = {"mandel_refined"}
  MaxProcs = 3
  Killed = Killed
INVARIANT KillsMeetLinks
CHECK_DEADLOCK FALSE
