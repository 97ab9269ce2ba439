SPECIFICATION ListsSpec
CONSTANTS
    Ids <- TwoIds
    Logons <- ThreeLogons
    UserOf <- Names
    MaxFaults = 1
    MaxClicks = 2
    MaxChanges = 2
    Processes <- SomeProcesses
    Running <- AtFirst
    PidOf <- Pids
    ImageOf <- Images
    AccountOf <- Accounts
    MaxCollects = 3
    MaxUserSteps = 1
    Rows <- ThreeRows
    Connected <- TwoRows
    IndexOf <- Indexes
    RankOf <- Ranks
    Heights <- SomeHeights
    MaxSamples = 3
INVARIANT SelectionStaysWithItsSessions
CHECK_DEADLOCK FALSE
