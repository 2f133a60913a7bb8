\* Two ranks, one of which may die, with a parameter and a buffer; calls with and
\* without a module factory.
CONSTANTS
    World = 2
    p = p
    b = b
    Params = {p}
    Buffers = {b}
    Owner <- MCOwner
    Values = {0, 1, 2}
    Learned = {0, 2}
    Momenta = {0, 1}
    NaN = NaN
    Freed = Freed
    F32Exact = 2
    Atol = 1
    Factories = {TRUE, FALSE}
    MaxFaults = 1
    MaxRaises = 1
SPECIFICATION FairSpec
CHECK_DEADLOCK FALSE
INVARIANTS Agreement CollectivesMatch CommitPreservesState AbortRestoresState
PROPERTIES IsAtomic ReshardTerminates
