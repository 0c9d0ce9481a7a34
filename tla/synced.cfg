SPECIFICATION SyncSpec
CONSTANTS
  Sources = {m1, m2}
  Callers = {k1, k2}
  Events = {e1, e2}
  SourceArgs <- UpAndDown
  Whys = {"reported"}
  None = None
  Outside = Outside
SYMMETRY Symmetry
INVARIANTS SyncTypeOK FollowsTheSource NoLockCycle
PROPERTIES NothingStale
