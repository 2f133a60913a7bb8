\* One job under the power policy: three ticks of hysteresis, the carbon gate,
\* a pipeline with too few layers for the largest width.
SPECIFICATION Spec
CONSTANTS
    a = a
    b = b
    Jobs = {a}
    Policy = "power"
    MinGpus = 1
    MaxGpus = 4
    Hysteresis = 3
    Gated = TRUE
    CurveGpus = 4
    MaxRate = 4
    Curve <- MCLinear
    Iterations = 4
    Deadlines = {1, 2}
    Context <- MCThreeLayers
    Selected = {}
    Patience = 2
    MaxScore = 2
    MaxClock = 0
    MaxFaults = 2
INVARIANTS StagnationEscaped
 
