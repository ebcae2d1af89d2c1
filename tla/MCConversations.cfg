SPECIFICATION ChatSpec
CONSTANTS
  Messages = {1, 2, 3, 4, 5}
  Ambient = {1, 2, 5}
  Direct = {3, 4}
  Sender <- MCSender
  MaxToken = 7
  Slots <- MCSlots
  Features = {"fail", "steer", "wait"}
  MaxInbox = 8
  OrderlyStop = TRUE
  Quiet = TRUE
  AmbientQuiet = TRUE
  MaxCollect = 3
INVARIANTS ChatTypeOK  ChatTurnsOwned ChatInOrder ChatServedByOne
PROPERTIES  ChatStaleInert
CHECK_DEADLOCK FALSE
