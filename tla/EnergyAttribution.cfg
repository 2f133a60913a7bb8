\* Each kind of source under any starts, stops, polls and marks of its client.
CONSTANTS
    MaxTime = 3
    MaxStarts = 2
    MaxRange = 2
    Busy = {0, 2, 3}
    MaxMarks = 2
SPECIFICATION Spec
INVARIANTS
    NotOverbilled
    LedgersAgree
CHECK_DEADLOCK FALSE
