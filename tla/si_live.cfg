SPECIFICATION FairSpec
CONSTANTS
    r1 = r1
    r2 = r2
    q1 = q1
    q2 = q2
    i1 = i1
    i2 = i2
    None = None
    Items = {i1}
    Labelled = {i1}
    Runs = {r1, r2}
    Requests = {q1}
    MaxRows = 2
    MaxAttempts = 2
    MaxLapses = 0
    MaxLosses = 1
    MaxCrashes = 1
CHECK_DEADLOCK FALSE
PROPERTY EventuallyIngested
