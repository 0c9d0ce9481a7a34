SPECIFICATION Spec
CONSTANTS
  Connects = {a1, a2, a3}
  Disconnects = {d1, d2}
  Sends = {s1}
  Watchers = {w1}
  Conns = {c1, c2}
  NoConn = NoConn
  Faults <- PromptUnrefused
  Overlap = TRUE
SYMMETRY Symmetry
INVARIANTS OneLink NotConnectedMeansNothing ConnectedIsUsable
PROPERTIES ConnectReturnsClient
\* All calls may be over, and a connected device may stay silent.
CHECK_DEADLOCK FALSE
