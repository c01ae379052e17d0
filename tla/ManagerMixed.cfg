SPECIFICATION FairSpec
CONSTANTS
  Clients = {1, 2}
  MaxClientID = 2
  Setups <- MixedSetups
  MsgIDs = {1}
  CCIMessageID = 9
  CCIBcastID = 99
  MaxWantedQueueSize = 2
  BlocksPerSlab = 1
  MaxBatch = 1
  SlabsPerBuf = 1
  InitBuffers = 4
  MaxBuffers = 5
  PctNonreservable = 0
  UIntRange = 64
  MaxLevel = 1
  UInt16Range = 8
INVARIANT NeverThrows
INVARIANT OverReturnRefused
INVARIANT GreedyIsFilled
INVARIANT PendingIsRequested
INVARIANT NoIdleFreeSlab
INVARIANT PlaybackLossless
PROPERTY RequestsServed
CHECK_DEADLOCK FALSE
