SPECIFICATION Spec
CONSTANTS
  Clients = {c1, c2}
  RawParams <- MCParams
  numBuffers = 1
  maxNumBuffers = 2
  allowUnlockedMemory = FALSE
  pageSize = 4
  HeaderSize = 3
  InfoSize = 3
  kDefaultSize <- MCDefault
  Word = 64
  Need = 2
  StaleNames <- MCStale
  MaxStarts = 2
  MaxConnects = 3
INVARIANT AccessesMapped
INVARIANT SameBytes
INVARIANT NoLeftovers
SYMMETRY Symmetry
CHECK_DEADLOCK FALSE
