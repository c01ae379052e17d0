SPECIFICATION Spec
CONSTANTS
  watcher = watcher
  other = other
  Clients = {watcher, other}
  Watchers = {watcher}
  MsgIDs = {m}
  Groups = {g}
  SockIDs <- MCSockIDs
  kMaxClientID = 1
  kMaxGroupID = 1
  maxNumClients = 2
  SockCap = 3
  MaxCalls = 2
INVARIANT SkippedIsNotified
CHECK_DEADLOCK FALSE
