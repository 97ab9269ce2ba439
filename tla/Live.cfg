SPECIFICATION LiveSpec
CONSTANTS
    Counts <- OneOrTwo
    MaxInstants = 4
    MaxFaults = 2
    NoAdapter = NoAdapter
    Adapters = {a}
    MaxChanges = 1
    MaxRebuilds = 3
    Threads = {"a", "b"}
    MaxRecords = 1
    RegularCap = 1
    PriorityCap = 1
    ControlCap = 1
    PartLimit = 1
    MaxFlushes = 1
    WorkerCount = 2
    MaxRequests = 2
    MaxBatches = 2
    MaxPanics = 1
PROPERTIES
    SamplingComesBack
    PageCatchesUp
    DetailsSettle
    WorkersReturn
CHECK_DEADLOCK FALSE
