SPECIFICATION ServicesSpec
CONSTANTS
    Launches = {"a", "b", "c"}
    Identities = {1, 2}
    MaxFaults = 1
    NumColumn = 2
    Found <- SomeOptions
    MaxChanges = 1
    Threads = {"a", "b"}
    MaxRecords = 2
    RegularCap = 1
    PriorityCap = 1
    ControlCap = 1
    PartLimit = 1
    MaxFlushes = 1
    CommandLines <- SomeLines
    MaxClicks = 5
    Pids = {p1, p2}
    Programs = {"debugger"}
    Templates <- SomeTemplates
    MaxBorn = 3
    Displayed = {"a", "b"}
    Hidden = {"hidden"}
    EngineReads <- SomeEngineReads
    DedicatedReads <- SomeMemoryReads
    SharedReads <- SomeSharedReads
    MaxRebuilds = 1
    MaxCollects = 2
    ProcessorCounts = {1, 2}
    MaxInstants = 4
    MaxSamplingFaults = 2
INVARIANT CrashesAreAnnounced
CHECK_DEADLOCK FALSE
