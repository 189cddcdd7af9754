SPECIFICATION SysSpec
CONSTANTS
  c1 = c1
  c2 = c2
  c3 = c3
  alice = alice
  bob = bob
  carol = carol
  Conns = {c1, c2, c3}
  Names = {alice, bob, carol}
  NoConn = NoConn
  NoName = NoName
  Payloads <- MCPayloads
  MaxQueue = 2
  MaxLogins = 1
  MaxDials = 1
  MaxCands = 1
  MaxWire = 2
  Logins <- OwnNames
  Dials <- TwoCalls
INVARIANT AnswerIsOurs
CHECK_DEADLOCK FALSE
