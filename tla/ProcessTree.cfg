SPECIFICATION Spec
CONSTANTS
    p1 = p1
    p2 = p2
    p3 = p3
    p4 = p4
    Pids = {p1, p2, p3, p4}
    Root = p1
    NoPid = NoPid
    MaxTime = 3
    MaxBorn = 3
    MaxRefusals = 1
SYMMETRY Symmetry
INVARIANTS
    OnlyTheTree
    EndsWhatItReports
\* One command is followed to its end.
CHECK_DEADLOCK FALSE
