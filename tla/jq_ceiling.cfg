SPECIFICATION Spec
CONSTANTS
  j1 = j1
  j2 = j2
  k1 = k1
  NoKey = NoKey
  None = None
  Jobs = {j1}
  Workers = {w1}
  Keys = {k1}
  KeyOf <- OneUnkeyed
  MaxAttempts = 5
  Faults = {"crash"}
  MaxFaults = 5
INVARIANT CeilingBoundsEveryRun
CHECK_DEADLOCK FALSE
