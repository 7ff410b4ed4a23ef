SPECIFICATION Spec
CONSTANTS
    Requests = {r1, r2}
    Workers = {w1}
    Dispatchers = {d1}
    Clients = {c1}
    Anon = anon
    None = none
    Ops = {"enqueue", "cancel"}
    MaxTurns = 2
    MaxWakes = 1
    MaxFrames = 0
    MaxCalls = 1
    Failures = {}
    MaxFailures = 0
    MaxRedeliveries = 0
    PromptDelivery = TRUE
    PatientUsers = TRUE
SYMMETRY Symmetry
INVARIANTS
    ExecutedTurnIsActive
    StreamEndsOnce
PROPERTIES
    KeepsLedger
