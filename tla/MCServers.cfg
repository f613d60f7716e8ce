SPECIFICATION Spec
CONSTANTS
  Clients = {a, b, c}
  NoClient = NoClient
  Sender = a
  MaxSends <- MCMaxSends
  MaxTyped = 2
  _MAX_FD_NUM_ = 4
  Uninitialised = {{}, {"IN"}}
  _FD_NUM_ = 5
  Cleared = 4
  _MAX_NUM_ = 5
  Searched = 4
  Set = 4
  Garbage = {99}
  Room = 1
INVARIANTS NoDescriptorLost CountCoversArray NeverBlocked
PROPERTIES LineToAll DataRead
CHECK_DEADLOCK FALSE
