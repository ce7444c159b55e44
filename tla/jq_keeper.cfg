SPECIFICATION Spec
CONSTANTS
  j1 = j1
  j2 = j2
  k1 = k1
  NoKey = NoKey
  None = None
  Jobs = {j1}
  Workers = {w1, w2, w3}
  Keys = {k1}
  KeyOf <- OneKeyed
  MaxAttempts = 5
  Faults = {"conn", "stall"}
  MaxFaults = 2
INVARIANT KeeperKnowsItsClaim
CHECK_DEADLOCK FALSE
