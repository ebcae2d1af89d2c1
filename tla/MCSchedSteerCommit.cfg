SPECIFICATION SchedSpec
CONSTANTS
  MCLast = 2
  Messages <- MCMessages
  Ambient = {}
  Direct = {1, 2}
  Sender <- MCOneSender
  MaxInbox = 4
  MaxToken = 3
  Slots <- MCSlots
  OrderlyStop = TRUE
  Quiet = TRUE
  AmbientQuiet = TRUE
  MaxCollect = 2
  Features = {"wait", "fail"}
INVARIANT CommitMeansAdmitted
CHECK_DEADLOCK FALSE
