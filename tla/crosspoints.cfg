SPECIFICATION FairSpec
CONSTANTS
  Outputs = {o1, o2}
  Inputs = {i1, i2}
  Commands = {c1, c2}
  Jobs <- OwnJobs
  Foreign = {o2}
  MaxUnread = 3
  None = None
INVARIANTS TypeOK TruthfulReturn ShowsTheRouting
PROPERTIES CommandsReturn
\* All commands may have returned.
CHECK_DEADLOCK FALSE
