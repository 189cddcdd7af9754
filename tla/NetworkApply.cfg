SPECIFICATION Spec
CONSTANTS
  Peers = {john, mary}
  Incoming <- Agreed
  MaxObjects = 2
  MaxCand = 1
PROPERTY AnswerApplied
CHECK_DEADLOCK FALSE
