SPECIFICATION Spec
CONSTANTS
  MaxMsgs = 3
  Sizes = {1, 2, 3}
  MsgIDs = {1}
  CrcOutcomes = {TRUE, FALSE}
  VerifyCrcs = TRUE
  NumConsSlabs = 2
  MaxWantedQueueSize = 1
  Vars = {"v", "w"}
INVARIANT SegmentsConserved
INVARIANT KeptWhileUsed
INVARIANT WholeUnlessDropped
PROPERTY DeliveredInOrder
PROPERTY AllDelivered
PROPERTY QueueDrains
CHECK_DEADLOCK FALSE
