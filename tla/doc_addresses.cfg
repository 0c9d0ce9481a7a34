SPECIFICATION Spec
CONSTANTS
  A = A
  B = B
  x = x
  y = y
  Ids = {A, B}
  Temps = {t}
  Addresses = {x, y}
  Files <- TwoStored
  MaxMoves = 0
  MaxCalls = 0
  Stops = {s1}
  None = None
INVARIANT StartSucceeds
\* Nothing may be left to do.
CHECK_DEADLOCK FALSE
