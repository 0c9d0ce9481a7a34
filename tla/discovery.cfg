SPECIFICATION Spec
CONSTANTS
  s1 = s1
  s2 = s2
  d1 = d1
  Services = {s1, s2}
  Devices = {d1}
  DeviceOf <- Renamed
  Addresses = {a1, a2}
  Own = {o1, o2}
  Ports = {p1, p2}
  Taken = {o2}
  MaxChanges = 4
  None = None
INVARIANTS TypeOK TablesSettle
PROPERTY StopReturns
\* A listener that was stopped does not start again.
CHECK_DEADLOCK FALSE
