\* A stage of three nodes, or an energy-aware round robin over them.
SPECIFICATION Spec
CONSTANTS
    NumNodes = 3
    Turn = 60
    Fleets <- MCFleets
    Efficiencies = {0, 1}
    RefreshPeriod = 2
    MaxBatches = 5
INVARIANTS ExactlyOnce ActivationsMatched OneActivation FairShare FewMisses
CHECK_DEADLOCK FALSE
