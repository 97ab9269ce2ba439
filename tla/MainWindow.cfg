CONSTANTS
    PageCount = 2
    AlwaysNormal <- LastPage
    Processes = 1
    Intervals <- OneSpeed
    Usages <- TwoUsages
    MaxFaults = 2
SPECIFICATION Spec
INVARIANTS
    ShownPageIsReady
    ScreenTellsTheState
    AllReleased
CHECK_DEADLOCK FALSE
