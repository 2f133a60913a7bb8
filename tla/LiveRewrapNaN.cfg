CONSTANTS
    World = 2
    p = p
    b = b
    Params = {p}
    Buffers = {}
    Owner <- MCOwner
    Values = {0, NaN}
    Learned = {0, NaN}
    Momenta = {0}
    NaN = NaN
    Freed = Freed
    F32Exact = 1
    Atol = 0
    Factories = {TRUE}
    MaxFaults = 0
    MaxRaises = 0
SPECIFICATION Spec
INVARIANT CommitPreservesState
