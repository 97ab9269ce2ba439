CONSTANTS
    PageCount = 2
    AlwaysNormal <- LastPage
    Processes = 1
    Intervals <- TwoSpeeds
    Usages <- TwoUsages
    MaxFaults = 1
SPECIFICATION Spec
INVARIANT TimerFollowsOptions
CHECK_DEADLOCK FALSE
