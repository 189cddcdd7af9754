SPECIFICATION FairSpec
CONSTANT MaxSends = 4
INVARIANTS
  HonestFlag
  EchoInOrder
PROPERTY EchoArrives
CHECK_DEADLOCK FALSE
