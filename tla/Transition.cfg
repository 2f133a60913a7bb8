\* Groups of one to three ranks, in every layout, with every fault.
SPECIFICATION Spec
CONSTANTS
    NaN = NaN
    Worlds = {1, 2, 3}
    NumParams = 2
    Rows <- MCRows
    Values = {0, 1, NaN}
    Trained <- MCTrained
    Bound = 1
INVARIANTS NoDrift PiecesCertified CleanCommits FaultsAttributed
