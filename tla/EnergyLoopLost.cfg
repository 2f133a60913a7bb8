\* A job is resized in a tick that raises on a later job.
SPECIFICATION Spec
CONSTANTS
    a = a
    b = b
    Jobs = {a, b}
    Policy = "rule"
    MinGpus = 1
    MaxGpus = 3
    Hysteresis = 1
    Gated = FALSE
    CurveGpus = 2
    MaxRate = 2
    Curve <- MCLinear
    Iterations = 2
    Deadlines = {0, 1, 2}
    Context <- MCShallow
    Selected = {}
    Patience = 1
    MaxScore = 0
    MaxClock = 0
    MaxFaults = 0
INVARIANTS WorkersFollow
CHECK_DEADLOCK FALSE
