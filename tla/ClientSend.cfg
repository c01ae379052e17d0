SPECIFICATION Spec
CONSTANTS
  Slabs = {0, 1}
  BlocksPerSlab = 2
  BlockSize = 2
  UIntRange = 64
  NumProdSlabs = 2
  MaxWorking = 1
  Lens = {0, 3, 6, 8, 9}
INVARIANT SlabsAccounted
INVARIANT RetiredWhenIdle
INVARIANT BlocksApart
INVARIANT PublishedBeforeReturn
INVARIANT NoNeedlessFailure
PROPERTY CallEnds
CHECK_DEADLOCK FALSE
