SPECIFICATION SchedSpec
CONSTANTS
  MCLast = 3
  Messages <- MCMessages
  Ambient = {1}
  Direct = {2, 3}
  Sender <- MCOneSender
  MaxInbox = 2
  MaxToken = 4
  Slots <- MCSlots
  OrderlyStop = TRUE
  Quiet = TRUE
  AmbientQuiet = TRUE
  MaxCollect = 3
  Features = {}
INVARIANT ExplicitNeverDiscarded
CHECK_DEADLOCK FALSE
