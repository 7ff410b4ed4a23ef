\* A commit ends the tenant context of its session, as in production.
SPECIFICATION DatasetSpec
CONSTANTS
    Indexers = {w1, w2}
    ContextSurvives = FALSE
    MaxPrepares = 3
    MaxIndexFaults = 1
INVARIANT
    FailedPassesHaveACause
\* The bounds on requests and faults let the index come to rest.
CHECK_DEADLOCK FALSE
