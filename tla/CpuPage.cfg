CONSTANTS
    Keys = {k1, k2}
    NoKey = NoKey
    MaxEvents = 4
    MaxFaults = 1
SPECIFICATION FairSpec
INVARIANTS
    DetailsOfTheKey
    UserRefreshNotLost
PROPERTIES
    KeepsLastValid
    DetailsSettle
