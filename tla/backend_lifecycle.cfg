SPECIFICATION FairSpec
CONSTANTS
  Connects = {a1, a2}
  Disconnects = {d1, d2}
  Sends = {}
  Watchers = {}
  Conns = {c1, c2}
  NoConn = NoConn
  Faults <- SoundLink
  Overlap = FALSE
PROPERTIES FollowsLifecycle ConnectsReturn DisconnectsReturn
\* All calls may be over, and a connected device may stay silent.
CHECK_DEADLOCK FALSE
