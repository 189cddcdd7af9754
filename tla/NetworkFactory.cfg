SPECIFICATION Spec
CONSTANTS
  Peers = {john, mary}
  Incoming <- Relayed
  MaxObjects = 2
  MaxCand = 1
INVARIANT FactoryFirst
CHECK_DEADLOCK FALSE
