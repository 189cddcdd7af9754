SPECIFICATION FairSystem
CONSTANTS
  c1 = c1
  c2 = c2
  c3 = c3
  alice = alice
  bob = bob
  carol = carol
  Conns = {c1, c2, c3}
  Names = {alice, bob}
  NoConn = NoConn
  NoName = NoName
  Payloads <- MCPayloads
  MaxQueue = 2
  MaxLogins = 1
  MaxDials = 1
  MaxCands = 1
  MaxWire = 2
  Logins <- OneCallLogins
  Dials <- OneCall
INVARIANT CandidateKept
PROPERTY CallCompleted
CHECK_DEADLOCK FALSE
