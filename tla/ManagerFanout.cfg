SPECIFICATION Spec
CONSTANTS
  Clients = {1, 2}
  MaxClientID = 2
  Setups <- FanoutSetups
  MsgIDs = {1}
  CCIMessageID = 9
  CCIBcastID = 99
  MaxWantedQueueSize = 1
  BlocksPerSlab = 2
  MaxBatch = 2
  SlabsPerBuf = 4
  InitBuffers = 1
  MaxBuffers = 1
  PctNonreservable = 0
  UIntRange = 64
  MaxLevel = 1
  UInt16Range = 8
INVARIANT RefcntConserved
INVARIANT TrackersCount
INVARIANT WantedListsAgree
INVARIANT ContentIntact
INVARIANT NoSilentLoss
CHECK_DEADLOCK FALSE
