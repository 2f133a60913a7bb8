\* Three decisions on one job against requests that read it, or three shards
\* saved under two names.
SPECIFICATION StoresSpec
CONSTANTS
    MaxUpdates = 3
    Policy = "rule"
    MinGpus = 1
    MaxGpus = 7
    Hysteresis = 1
    Gated = FALSE
    Models <- MCModels
    Shards = {s1, s2}
    Ranges = {front, back}
    MaxSaves = 3
INVARIANTS ResponsesInOrder ShapeSuits EntriesTruthful
CHECK_DEADLOCK FALSE
