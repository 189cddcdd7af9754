SPECIFICATION Spec
CONSTANTS
  Peers = {john, mary}
  Incoming <- Relayed
  MaxObjects = 2
  MaxCand = 1
PROPERTY NeverStopsItself
CHECK_DEADLOCK FALSE
