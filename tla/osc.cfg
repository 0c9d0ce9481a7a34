SPECIFICATION Spec
CONSTANTS
  Vidhubs = {v1}
  Names = {n1, n2}
  Clients = {c1}
  UseDiscovery = TRUE
  MaxPackets = 2
  MaxCalls = 3
  MaxRenames = 1
  None = None
INVARIANTS TypeOK SubscribersAreCurrent
PROPERTY StopFrees
\* No server may be running, and nobody has to start one.
CHECK_DEADLOCK FALSE
