SPECIFICATION Spec
CONSTANTS
  j1 = j1
  j2 = j2
  k1 = k1
  NoKey = NoKey
  None = None
  Jobs = {j1, j2}
  Workers = {w1, w2, w3}
  Keys = {k1}
  KeyOf <- SharedKey
  MaxAttempts = 2
  Faults = {"crash", "conn", "keeper", "stall"}
  MaxFaults = 2
SYMMETRY WorkerSymmetry
INVARIANTS
  TypeOK
  KeyExclusion
  LockNotLeaked
  NoReplay
  DuplicateNeedsLapse
  DoneMeansLanded
  OutcomeMatchesDomain
CHECK_DEADLOCK FALSE
