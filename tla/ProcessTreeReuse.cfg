SPECIFICATION Spec
CONSTANTS
    p1 = p1
    p2 = p2
    p3 = p3
    Pids = {p1, p2, p3}
    Root = p1
    NoPid = NoPid
    MaxTime = 3
    MaxBorn = 2
    MaxRefusals = 0
SYMMETRY Symmetry
INVARIANTS
    SparesTheOthers
\* One command is followed to its end.
CHECK_DEADLOCK FALSE
