SPECIFICATION Spec
CONSTANTS
    Requests = {r1, r2}
    Workers = {w1, w2}
    Dispatchers = {d1}
    Clients = {c1}
    Anon = anon
    None = none
    Ops = {"enqueue"}
    MaxTurns = 2
    MaxWakes = 1
    MaxFrames = 0
    MaxCalls = 1
    Failures = {"crash"}
    MaxFailures = 1
    MaxRedeliveries = 1
    PromptDelivery = TRUE
    PatientUsers = TRUE
SYMMETRY Symmetry
INVARIANTS
    OneWorkerPerKey
    OneExecutor
    NoOvertaking
