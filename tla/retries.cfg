SPECIFICATION Spec
CONSTANTS
    Requests = {r1, r2, r3}
    Workers = {w1}
    Dispatchers = {d1}
    Clients = {c1}
    Anon = anon
    None = none
    Ops = {"enqueue", "retry"}
    MaxTurns = 2
    MaxWakes = 1
    MaxFrames = 0
    MaxCalls = 2
    Failures = {"crash"}
    MaxFailures = 0
    MaxRedeliveries = 0
    PromptDelivery = TRUE
    PatientUsers = TRUE
SYMMETRY Symmetry
INVARIANTS
    OneLiveRetry
