SPECIFICATION Spec
CONSTANTS
  Conns = {c1, c2, c3}
  Names = {alice, bob}
  NoConn = NoConn
  NoName = NoName
  Payloads <- MCPayloads
  MaxQueue = 2
INVARIANT AllUsersConnected
CHECK_DEADLOCK FALSE
