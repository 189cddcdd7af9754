SPECIFICATION Spec
CONSTANTS
  Conns = {c1, c2, c3}
  Names = {alice, bob, carol}
  NoConn = NoConn
  NoName = NoName
  Payloads <- MCPayloads
  MaxQueue = 1
SYMMETRY Symmetry
PROPERTY LinkKeptAcrossExits
CHECK_DEADLOCK FALSE
