SPECIFICATION FairSpec
CONSTANTS
  j1 = j1
  j2 = j2
  k1 = k1
  NoKey = NoKey
  None = None
  Jobs = {j1, j2}
  Workers = {w1, w2}
  Keys = {k1}
  KeyOf <- SharedKey
  MaxAttempts = 2
  Faults = {"crash", "conn"}
  MaxFaults = 2
PROPERTIES
  ImplementsLedger
  EventuallySettled
CHECK_DEADLOCK FALSE
