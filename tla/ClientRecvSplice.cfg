SPECIFICATION Spec
CONSTANTS
  MaxMsgs = 3
  Sizes = {1, 2}
  MsgIDs = {1}
  CrcOutcomes = {TRUE}
  VerifyCrcs = FALSE
  NumConsSlabs = 2
  MaxWantedQueueSize = 1
  Vars = {"v"}
INVARIANT DeliveredWhole
CHECK_DEADLOCK FALSE
