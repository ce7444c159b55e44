SPECIFICATION Spec
CONSTANTS
    r1 = r1
    r2 = r2
    None = None
    MaxJobs = 5
    Runs = {r1, r2}
    MaxSegments = 2
    MaxAttempts = 2
    MaxLapses = 1
    MaxCrashes = 1
SYMMETRY RunSymmetry
CHECK_DEADLOCK FALSE
INVARIANTS
    TypeOK
    SpokenIsShownUnlessLapsed
    FeedHasAudio
    NeverStranded
    OneJobPerStage
    ProgressIsThisRender
PROPERTY SettledIsFinal
