SPECIFICATION ServicesSpec
CONSTANTS
    None = None
    x = x
    y = y
    \* MailGrant
    Accounts = {x, y}
    Consents = {1, 2}
    MaxStamps = 2
    MaxRevoked = 1
    MaxPolls = 2
    MaxTries = 1
    \* MailSearch
    MaxMessages = 2
    MaxTime = 2
    Overlap = 1
    PageSize = 1
    QueueCap = 1
    MaxPages = 2
    Windows = {1, 2}
    MaxReady = 1
    MaxResyncs = 1
    \* Access
    Emails = {e1}
    Admins = {e1}
    Clients = {c1}
    MaxConsents = 2
    MaxSessions = 2
    \* Connectors
    Flows = {x, y}
    Issuers = {i1, i2}
    MaxClients = 2
    \* Requests
    Reqs = {1, 2}
    Execs = {x, y}
    MaxJobs = 1
    Addresses = {a1}
    MaxSubmissions = 2
    MaxStarts = 1
    Switch = "on"
    Webhook = "usable"
    \* Throttle
    MaxFailures = 2
    WindowTicks = 3
    MaxTicks = 7
    \* Backlog
    Words = {w1}
    MaxStories = 3
    WindowMax = 2
    \* Listening
    Stories = {1, 2}
    Fresh = {2}
    Episodes = {x, y}
    Lengths = {0, 1}
    Cap = 1
    MaxItems = 2
    MaxListen = 1
    \* Serving
    MaxBytes = 3
    MaxMs = 6
    MaxChars = 3
    MaxParts = 3
    MaxCue = 2
    Passages <- SomePassages
    \* Feed
    Owners = {x, y}
    Readers = {r1, r2}
    MaxBegun = 4
    \* Voice
    MaxPos = 1
    SpeechFrames = 1
    MaxStream = 1
    MaxTurns = 2
    MAX_LIVE_REOPENS = 1
    \* ModelGateway
    Tunable = {"dedup"}
    Images <- SomeImages
    Savers = {x, y}
    MaxSaves = 2
    MaxCalls = 2
    MaxDeploys = 1
    \* EnrichRun
    Articles = {x, y}
    MaxUsdDay = 3
    MaxUsdItem = 1
    MaxCallsRun = 1
    MaxLate = 2
    MaxEvents = 4
    \* Panels
    PolledMessages = {x, y}
    Polls = {q1, q2}
    MaxJobRows = 3
    PageLimit = 1
    \* BuildPanel
    MaxClock = 2
    SettledVisible = 0
    WorkerFresh = 1
    WorkerStarting = 0
    BuildAttempts = 2
    Samples <- SomeSamples
    TriggerEnabled = TRUE
    \* Vault
    Idents <- SomeIdents
    MaxSeals = 2
    MaxRedeploys = 1
    MaxMoves = 1
    \* Extract
    MaxTags = 4
    MinText = 2
    MaxLinks = 2
    PlainParts <- SomePlainParts
    \* McpTools
    Calls = {x, y}
    Bearers = {"admin", "grant", "feed"}
    Params <- SomeParams
    AskedTools = {"get_feed", "create_episode", "logout_everywhere", "set_llm_config"}
    MaxLifespans = 2
    \* Harness
    Seeds = {x, y}
    Deployments <- SomeDeployments
    MaxRows = 6
    \* Hearing
    MaxLevel = 9
    UpStep = 1
    DownStep = 2
    Warmup = 2
    WarmupTimes = 2
    Threshold = 5
    Consecutive = 2
    Refractory = 4
    NeedsNarration = TRUE
    Transcripts <- SomeTranscripts
SYMMETRY ServicesSymmetry
CHECK_DEADLOCK FALSE
INVARIANTS
    ServicesTypeOK
    GrantIsTheOwners
    MailArrivesWhole
    ResyncIsHonest
    AuthorityStaysNarrow
    RevocationHolds
    CredentialsHold
    ToldOnlyAfterCommit
    BacklogIsKept
    AnsweredAsAsked
    ListenerIsHeard
    SpendIsAccounted
    ShownIsTrue
    HarnessIsSafe
