SPECIFICATION SysSpec
CONSTANTS
  c1 = c1
  c2 = c2
  c3 = c3
  alice = alice
  bob = bob
  carol = carol
  Conns = {c1, c2}
  Names = {alice, bob}
  NoConn = NoConn
  NoName = NoName
  Payloads <- MCPayloads
  MaxQueue = 2
  MaxLogins = 2
  MaxDials = 1
  MaxCands = 0
  MaxWire = 1
  Logins <- AnyLogin
  Dials <- AnyDial
SYMMETRY Symmetry
INVARIANTS
  ClientTypeOK
  PeerReady
  AnswerReturns
PROPERTIES ServerSpec EndsWithPartner
CHECK_DEADLOCK FALSE
