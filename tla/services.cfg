\* Streams, uploads, processing and webhooks, each with its workers and faults: of the
\* streams, only those of which WatchersSeeAnEnd does not exempt the behaviour.
SPECIFICATION ServicesSpec
CONSTANTS
    Readers = {b1}
    MaxTurns = 2
    MaxDeltas = 2
    QueueSize = 2
    BatchSize = 2
    MaxLosses = 2
    MaxCrashes = 0
    MaxLapses = 0
    MaxOpens = 2
    QuotaFills = FALSE
    Uploads = {u1}
    Chunks = {1}
    Requests = {q1, q2}
    Finalizers = {f1, f2}
    Capacity = 2
    MaxRetries = 1
    MaxRequests = 3
    MaxStale = 1
    MaxFaults = 1
    Extractors = {x1, x2}
    MaxAttempts = 3
    MaxTaskRetries = 1
    MaxEnqueued = 2
    Deliveries = {d1}
    Senders = {w1, w2}
    MaxFailures = 2
    MaxResends = 1
    MaxManual = 1
    MaxStranded = 1
INVARIANTS
    ServicesTypeOK
    OrphansHaveACause
    NoLeftovers
    OneSender
PROPERTIES
    WatchersSeeAnEnd
    PublishesOnce
    UploadsSettle
    ExtractionEnds
    DeliveredIsFinal
    DeliveriesSettle
\* The bounds on requests, turns and faults let every service come to rest.
CHECK_DEADLOCK FALSE
