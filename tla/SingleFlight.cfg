CONSTANTS
    Policies = {"replace", "keep", "union"}
    MaxCalls = 3
    CollectorPanics = TRUE
    ThreadDies = TRUE
    SpawnFails = TRUE
    PostFails = TRUE
    SharedMessage = TRUE
SPECIFICATION FairSpec
INVARIANTS
    Discipline
    SnapshotOfTheRightCall
PROPERTIES
    PromiseKept
    TeardownEnds
    EveryOperationSettles
