SPECIFICATION Spec
CONSTANTS
  Connects = {a1}
  Disconnects = {d1}
  Sends = {s1}
  Watchers = {}
  Conns = {c1, c2}
  NoConn = NoConn
  Faults <- AllFaults
  Overlap = TRUE
SYMMETRY Symmetry
INVARIANTS TypeOK AssertionsHold
PROPERTIES FailureSticks
\* All calls may be over, and a connected device may stay silent.
CHECK_DEADLOCK FALSE
