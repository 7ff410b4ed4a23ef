SPECIFICATION Spec
CONSTANTS
    Requests = {r1, r2}
    Workers = {w1}
    Dispatchers = {d1}
    Clients = {c1}
    Anon = anon
    None = none
    Ops = {"enqueue", "answer"}
    MaxTurns = 2
    MaxWakes = 1
    MaxFrames = 1
    MaxCalls = 1
    Failures = {"crash"}
    MaxFailures = 0
    MaxRedeliveries = 0
    PromptDelivery = TRUE
    PatientUsers = FALSE
SYMMETRY Symmetry
INVARIANTS
    ResumesKeepTheirTurn
