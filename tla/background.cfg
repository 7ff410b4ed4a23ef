\* Streams, retention, sessions, ingestion, erasure, e-mails, table indexes and schedules.
SPECIFICATION BackgroundSpec
CONSTANTS
    Readers = {b1}
    MaxTurns = 2
    MaxDeltas = 2
    QueueSize = 2
    BatchSize = 2
    MaxLosses = 1
    MaxCrashes = 1
    MaxLapses = 1
    MaxOpens = 2
    QuotaFills = TRUE
    Scanners = {s1, s2}
    Browsers = {b1}
    Policies = {0, 1}
    MaxClock = 1
    MaxScans = 1
    MaxWork = 1
    Calls = {c1, c2, c3}
    MaxTokens = 3
    MaxCalls = 4
    Parts = {p1, p2}
    Ingesters = {i1, i2}
    MaxJobs = 2
    MaxPasses = 2
    MaxSubmits = 1
    Documents = {d1, d2}
    Owned = {d1}
    Purgers = {r1}
    Emails = {e1, e2}
    Mailers = {m1, m2}
    MaxSendAttempts = 2
    MaxUpdates = 2
    MaxMailFaults = 1
    Indexers = {w1, w2}
    ContextSurvives = TRUE
    MaxPrepares = 3
    MaxIndexFaults = 1
    Schedules = {s1, s2}
    Dispatchers = {d1, d2}
    RuleBatch = 1
    MaxDocuments = 2
    MaxTime = 1
    MaxTroubles = 1
INVARIANTS
    BackgroundTypeOK
    NoHoles
    EndsAreDurable
    WorkIsNotArchived
    OneLiveToken
    IndexedIsComplete
    ErasureExcludesPurge
    NothingIsOrphaned
    OnePass
    NoDerivativeIsLeft
    OncePerSlotAlone
    ScansEverything
    DuplicatesHaveACause
PROPERTIES
    FollowsContract
    SilencedStaysUnsent
\* The bounds on requests, time and troubles let every service come to rest.
CHECK_DEADLOCK FALSE
