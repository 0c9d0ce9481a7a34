SPECIFICATION Spec
CONSTANTS
  mA = mA
  mB = mB
  Monitors <- TwoMonitors
  Values = {v1, v2}
  Commands = {k1, k2}
  MaxLinks = 2
  MaxChanges = 1
  None = None
INVARIANTS TypeOK ShowsTheMonitors
\* A read loop that an exception ended reads no more.
CHECK_DEADLOCK FALSE
