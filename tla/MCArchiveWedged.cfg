SPECIFICATION BackgroundSpec
CONSTANTS
  Parts = {"archive"}
  MaxAsked = 4
  MaxTimes = 2
  WakeRequests = {"exec", "cron", "task"}
  WakeSource <- MCWakeSource
  WakePriority <- MCWakePriority
  Drains = {"d1", "d2"}
  ManualWake = "manual"
  SysEvents = {"e1", "e2", "e3"}
  EventContext <- MCEventContext
  HeartbeatOnly = {"e2"}
  MaxEvents = 2
  MaxTasks = 2
  Steps = {"s1"}
  StepDeps <- MCStepDeps
  TaskKinds <- MCTaskKinds
  MaxRunning = 2
  MaxPending = 1
  InboxLimit = 1
  LongTurns = FALSE
  MaxPlanRestarts = 1
  Jobs = {"once", "daily"}
  OneShot = {"once"}
  CatchUp = {"once", "daily"}
  MaxElapsed = 2
  MaxBoots = 1
  LastTurn = 2
  Scopes = {"main", "sub"}
  ScopesOf <- MCScopesOf
  Days = {}
  MaxFailures = 0
  MaxStops = 1
  MaxLosses = 0
  MaxCtxTurns = 3
  MaxCheckpoints = 2
  MaxEntries = 3
  Protected = {1, 2}
  MaxCtxFaults = 1
INVARIANT RecoveryFinishes
CHECK_DEADLOCK FALSE
