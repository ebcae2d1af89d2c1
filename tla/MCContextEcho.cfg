SPECIFICATION ContextSpec
CONSTANTS
  MaxCtxTurns = 4
  MaxCheckpoints = 2
  MaxEntries = 3
  Protected = {1, 2}
  MaxCtxFaults = 1
INVARIANT NoEchoOfArchived
CHECK_DEADLOCK FALSE
