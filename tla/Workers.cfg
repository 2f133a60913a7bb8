\* A deferral run that may die twice, calls of both pools, three requests.
CONSTANTS
    r1 = r1
    r2 = r2
    r3 = r3
    MaxRuns = 2
    Warmup = 1
    MaxReplicas = 2
    MaxWorkers = 3
    Requests = {r1, r2, r3}
    Endpoints <- MCEndpoints
    MaxOffset = 2
    TotalIters = 5
    Chunk = 1
    MaxTicks = 5
    MaxCalls = 3
SPECIFICATION Spec
INVARIANTS
    ResumedExactly
    PoolReached
    RequestsAccounted
PROPERTIES
    RunEnds
CHECK_DEADLOCK FALSE
