SPECIFICATION Spec
CONSTANTS
  Clients = {1, 2, 3}
  MaxClientID = 3
  Setups <- GrowthSetups
  MsgIDs = {1}
  CCIMessageID = 9
  CCIBcastID = 99
  MaxWantedQueueSize = 1
  BlocksPerSlab = 2
  MaxBatch = 1
  SlabsPerBuf = 2
  InitBuffers = 1
  MaxBuffers = 2
  PctNonreservable = 0
  UIntRange = 64
  MaxLevel = 1
  UInt16Range = 8
INVARIANT ReservedIsSum
INVARIANT DeliveryInOrder
CHECK_DEADLOCK FALSE
