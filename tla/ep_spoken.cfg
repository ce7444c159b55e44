SPECIFICATION Spec
CONSTANTS
    r1 = r1
    r2 = r2
    None = None
    MaxJobs = 5
    Runs = {r1, r2}
    MaxSegments = 1
    MaxAttempts = 2
    MaxLapses = 1
    MaxCrashes = 0
CHECK_DEADLOCK FALSE
INVARIANT SpokenIsShown
