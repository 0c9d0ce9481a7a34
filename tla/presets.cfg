SPECIFICATION Spec
CONSTANTS
  Outputs = {o1, o2}
  Inputs = {i1, i2}
  Unrouted = i1
  Stores <- SomeOutputs
  Merging = FALSE
  Jobs <- OneOutput
  Absent = FALSE
  MaxPresets = 2
  None = None
INVARIANTS TypeOK ActiveIsExact SavedAgrees
