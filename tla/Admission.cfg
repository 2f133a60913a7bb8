\* Admission: curves of five shares, rates up to 2, every call with up to four
\* iterations and two seconds.  Allocation: two jobs of up to three GPUs.
SPECIFICATION SharingSpec
CONSTANTS
    CurveGpus = 5
    MaxRate = 2
    MaxIterations = 4
    MaxDeadline = 2
    MaxJobs = 2
    Profiles <- MCSmallProfiles
    MaxAvailable = 6
INVARIANTS SearchFindsMSS SmallestAffordable GreedyIsBest
PROPERTIES Returns
CHECK_DEADLOCK FALSE
