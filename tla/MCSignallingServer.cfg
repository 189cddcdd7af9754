SPECIFICATION Spec
CONSTANTS
  Conns = {c1, c2, c3}
  Names = {alice, bob}
  NoConn = NoConn
  NoName = NoName
  Payloads <- MCPayloads
  MaxQueue = 1
SYMMETRY Symmetry
INVARIANTS
  TypeOK
  RegistryExact
  OfferAuthentic
PROPERTY RegistryPromise
CHECK_DEADLOCK FALSE
