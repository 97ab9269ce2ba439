SPECIFICATION ResourcesSpec
CONSTANTS
    Processes = {"a", "b"}
    Sessions = {1, 2, 3}
    SessionLimit = 2
    RootLimit = 3
    PartLimit = 1
    MaxFaults = 1
    Processors <- SomeProcessors
    Tids = {1, 2, 3}
    MaxSpawns = 2
    Windows <- Three
    Open <- Two
    TitleOf <- Titles
    Bare <- Plain
    MaxChanges = 2
    MaxClicks = 1
    MaxCollects = 2
    WorkerCount = 2
    MaxRequests = 3
    MaxBatches = 2
    MaxPanics = 2
INVARIANTS
    OpenLogIsKept
    KeepsTheLimits
    AllOrNothing
    TasksHaveTheirIcons
    BatchIsWhole
CHECK_DEADLOCK FALSE
