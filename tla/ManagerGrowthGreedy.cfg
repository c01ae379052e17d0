SPECIFICATION Spec
CONSTANTS
  Clients = {1, 2}
  MaxClientID = 2
  Setups <- GrowthGreedySetups
  MsgIDs = {1}
  CCIMessageID = 9
  CCIBcastID = 99
  MaxWantedQueueSize = 4
  BlocksPerSlab = 1
  MaxBatch = 1
  SlabsPerBuf = 1
  InitBuffers = 5
  MaxBuffers = 6
  PctNonreservable = 0
  UIntRange = 64
  MaxLevel = 1
  UInt16Range = 8
INVARIANT GreedyIsFilled
CHECK_DEADLOCK FALSE
