SPECIFICATION Spec
CONSTANTS
  SlabsPerBuf = 2
  InitBuffers = 1
  MaxBuffers = 2
  PctNonreservable = 30
  UIntRange = 16
  Segments = {g1, g2}
  MaxRefcnt = 2
  AskedSlabs <- MCAskedSlabs
INVARIANT TypeOK
INVARIANT ListsMatchState
INVARIANT ReservationBound
PROPERTY FollowsLifeCycle
