SPECIFICATION Spec
CONSTANTS
  A = A
  B = B
  x = x
  y = y
  Ids = {A, B}
  Temps = {t}
  Addresses = {x, y}
  Files <- OneStored
  MaxMoves = 2
  MaxCalls = 1
  Stops = {s1, s2}
  None = None
INVARIANTS TypeOK DevicesAreReached FileIsCurrent
PROPERTIES StopCloses DiscoveredAreHandled
\* Nothing may be left to do.
CHECK_DEADLOCK FALSE
