SPECIFICATION Spec
CONSTANTS
  Conns = {c1, c2, c3}
  Names = {alice, bob}
  NoConn = NoConn
  NoName = NoName
  Payloads <- MCPayloads
  MaxQueue = 2
PROPERTY SurvivesExit
CHECK_DEADLOCK FALSE
