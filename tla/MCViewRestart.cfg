SPECIFICATION LiveSpec
CONSTANTS
  ViewTurns = {"t1", "t2"}
  MaxHub = 1
  MaxSent = 2
  MaxServers = 2
  MaxViews = 1
  MaxDrops = 0
INVARIANT RestartIsResynced
CHECK_DEADLOCK FALSE
