SPECIFICATION FairClient
CONSTANTS
  NoClientConn = NoConn
  ClientConns = {k1, k2, k3}
  Beats = {h1}
  MaxFailures = 1
  InitialBackoff = 4
  MaxBackoff = 8
  Jitter = {0}
  ErrorKinds = {"Refused"}
  MaxFaults = 2
  MaxReceivers = 2
  MaxOwed = 2
INVARIANTS ReconnectIsOwed
PROPERTIES BackoffNeverShrinks ClientGoesOn
CHECK_DEADLOCK FALSE
