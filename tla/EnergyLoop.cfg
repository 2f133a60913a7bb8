\* Two jobs under the carbon rules: a has a deadline selector, b a pipeline.
SPECIFICATION FairSpec
CONSTANTS
    a = a
    b = b
    Jobs = {a, b}
    Policy = "rule"
    MinGpus = 1
    MaxGpus = 3
    Hysteresis = 1
    Gated = FALSE
    CurveGpus = 2
    MaxRate = 2
    Curve <- MCLinear
    Iterations = 2
    Deadlines = {0, 2}
    Context <- MCDeepB
    Selected = {a}
    Patience = 2
    MaxScore = 0
    MaxClock = 1
    MaxFaults = 1
INVARIANTS WorkersFollow NoJobTwice FloorHeld PartitionFits
PROPERTIES PoolFollowsJob
