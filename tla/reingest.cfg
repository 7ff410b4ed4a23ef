SPECIFICATION IngestionSpec
CONSTANTS
    Parts = {p1}
    Ingesters = {i1}
    MaxJobs = 2
    MaxPasses = 1
    MaxSubmits = 1
INVARIANTS
    ReprocessedIsComplete
CHECK_DEADLOCK FALSE
