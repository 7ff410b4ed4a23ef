SPECIFICATION FairSpec
CONSTANTS
    Requests = {r1, r2}
    Workers = {w1}
    Dispatchers = {d1}
    Clients = {c1}
    Anon = anon
    None = none
    Ops = {"enqueue"}
    MaxTurns = 2
    MaxWakes = 1
    MaxFrames = 0
    MaxCalls = 1
    Failures = {"crash", "exception"}
    MaxFailures = 1
    MaxRedeliveries = 0
    PromptDelivery = TRUE
    PatientUsers = TRUE
CONSTRAINT FirstComesFirst
PROPERTIES
    QueueDrains
