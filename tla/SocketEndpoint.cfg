SPECIFICATION Spec
CONSTANTS
  WordSize = 2
  MaxPayloadSize = 4
  InfoWords = 1
  RecvBufCap = 7
  SockBufSize = 12
  MaxCalls = 3
  Calls <- MCCalls
INVARIANT FramedUnlessCut
INVARIANT NoFalseFailure
INVARIANT AllHandledWhenQuiet
CHECK_DEADLOCK FALSE
