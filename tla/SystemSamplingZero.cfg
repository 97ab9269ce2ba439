CONSTANTS
    Counts = {2}
    MaxInstants = 4
    MaxFaults = 1
SPECIFICATION FairSpec
PROPERTY KeepsLastUsage
