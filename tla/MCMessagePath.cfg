SPECIFICATION PathSpec
CONSTANTS
  Parts = {"inbox", "outbox", "approval", "ledger", "resending", "view", "gateway"}
  Messages = {"m1", "m2", "m3"}
  Ambient = {"m1", "m2"}
  Direct = {"m3"}
  Sender <- MCSender
  MaxInbox = 2
  MaxToken = 3
  Slots = {"s1", "s2"}
  OrderlyStop = TRUE
  OutChats = {"chat"}
  OutMessages = {1, 2}
  ChatOf <- MCChatOf
  EffectsOf <- MCEffectsOf
  ClaimLimit = 2
  OutWorker = "worker"
  OutFaults = 2
  Turns = {"turn"}
  Calls = {"k1", "k2"}
  TurnOf <- MCTurnOf
  CardTargets = 2
  Fallback = "allow"
  MaxWaits = 1
  MaxRestarts = 1
  NoKey = NoKey
  NoContent = NoContent
  Recovery = Recovery
  MCSecond = "c2"
  Deliveries = {"a1", "x1", "x2"}
  Keys = {"ambient", "external"}
  KeyOf <- MCKeyOf
  Kind <- MCKind
  Contents = {"c1", "c2", "quiet"}
  ContentOf <- MCContentOf
  Silent = {"quiet"}
  AllowRetry = FALSE
  MaxAttempts = 2
  MaxCrashes = 1
  ViewTurns = {"t1"}
  MaxHub = 1
  MaxSent = 3
  MaxServers = 2
  MaxViews = 1
  MaxDrops = 1
INVARIANTS PathTypeOK NoDuplicate AcceptedIsHeld CapacityHolds
INVARIANTS EffectsFollowAdmission AdmittedEffectsOwed AnswerDecides 
INVARIANTS SentWasAccepted HistoryWasAccepted SendsAreAccounted
INVARIANTS VerdictsAgree 
PROPERTIES LostSlotStaysLost FateOfMessages OutcomeIsFinal
CHECK_DEADLOCK FALSE
