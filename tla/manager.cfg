SPECIFICATION FairSpec
CONSTANTS
  Setters = {s1, s2}
  Plain = {p1}
  Timed = {t1}
  SetArgs <- LifecycleStates
  Wants <- SomeWants
  NextChange = NextChange
  NoTask = NoTask
INVARIANTS TypeOK ManagerWellFormed LockIsSound NoLostWakeup ResumesSatisfied
PROPERTIES StableStateIsNoticed
