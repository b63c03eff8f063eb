SPECIFICATION QuietSpec
CONSTANTS
  c1 = c1
  c2 = c2
  ca = ca
  NoConn = NoConn
  Conns = {c1, c2}
  Clients = {ca}
  ClientOf <- OneClient
  Gap = 1
  MaxTimeouts = 2
  AgeBound = 2
  Mute = {c2}
INVARIANTS SessionsAreSound
PROPERTIES SessionsEnd
CHECK_DEADLOCK FALSE
