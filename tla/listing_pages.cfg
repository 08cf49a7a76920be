SPECIFICATION Spec
SYMMETRY Symmetry
CONSTANTS
    ProjectIds = {1, 2, 3}
    Owners = {o1, o2}
    Limits = {1, 2}
    MaxTime = 1
    None = None
    Malformed = Malformed
CHECK_DEADLOCK FALSE
INVARIANTS
    NewestFirst
    NothingMissed
