SPECIFICATION LiveSpec
CONSTANTS
  Parts = {"sched", "outbox", "approval", "ledger", "wakes", "plans"}
  Messages = {1, 2, 3, 4}
  Ambient = {1, 4}
  Direct = {2, 3}
  Sender <- MCSender
  MaxInbox = 8
  MaxToken = 6
  Slots <- MCSlots
  OrderlyStop = TRUE
  Quiet = TRUE
  AmbientQuiet = TRUE
  MaxCollect = 3
  Features = {"fail", "steer"}
  OutChats = {"chat"}
  OutMessages = {1}
  ChatOf <- MCChatOf
  EffectsOf <- MCEffectsOf
  ClaimLimit = 1
  OutWorker = "worker"
  OutFaults = 2
  Turns = {"turn"}
  Calls = {"k1"}
  TurnOf <- MCTurnOf
  CardTargets = 1
  Fallback = "deny"
  MaxWaits = 1
  MaxRestarts = 1
  NoKey = NoKey
  NoContent = NoContent
  Recovery = Recovery
  Deliveries = {"a1"}
  Keys = {"ambient"}
  KeyOf <- MCKeyOf
  Kind <- MCKind
  Contents = {"c1", "quiet"}
  ContentOf <- MCContentOf
  Silent = {"quiet"}
  AllowRetry = TRUE
  MaxAttempts = 3
  MaxCrashes = 1
  WakeRequests = {"exec", "task"}
  WakeSource <- MCWakeSource
  WakePriority <- MCWakePriority
  Drains = {"d1"}
  ManualWake = "manual"
  SysEvents = {"e1"}
  EventContext <- MCEventContext
  HeartbeatOnly = {}
  MaxEvents = 1
  MaxTasks = 1
  Steps = {"s1"}
  StepDeps <- MCStepDeps
  TaskKinds <- MCTaskKinds
  MaxRunning = 1
  MaxPending = 1
  InboxLimit = 1
  LongTurns = TRUE
  MaxPlanRestarts = 1
INVARIANTS CommitMeansAdmitted AmbientYields
PROPERTIES EverySettles AdmittedEffectsRun  AmbientRowsSettle WakesAnswered
CHECK_DEADLOCK FALSE
