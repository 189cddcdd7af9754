SPECIFICATION FairSpec
CONSTANTS
  Peers = {john, mary}
  Incoming <- AllMessages
  MaxObjects = 2
  MaxCand = 1
INVARIANTS
  TypeOK
  CallbacksSafe
  WireOrder
  OneRole
  QuietWithoutRedial
PROPERTIES
  OneDescription
  CallResolved
CHECK_DEADLOCK FALSE
