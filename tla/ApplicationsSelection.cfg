CONSTANTS
    Windows <- W
    Open <- Two
    TitleOf <- Titles
    Bare <- Plain
    MaxChanges = 1
    MaxClicks = 3
    MaxCollects = 2
    MaxFaults = 0
SPECIFICATION Spec
INVARIANT ActsOnTheChosen
CHECK_DEADLOCK FALSE
