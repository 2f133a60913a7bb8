\* Repartitions of one job under either objective.
SPECIFICATION PartitionSpec
CONSTANTS
    Links <- MCLinks
    Unreachable = 100000
    Patience = 2
    MaxScore = 100
    Contexts <- MCContexts
    StageLists <- MCStageLists
    MaxCalls = 1
    Goals <- MCGoals
    Unit = 12
INVARIANTS FullIsBest JointIsBest FrontierIsBest
PROPERTIES SlideIsBest OutcomesAsInLoop
