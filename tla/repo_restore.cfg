SPECIFICATION Spec
SYMMETRY RestoreSymmetry
CONSTANTS
    Requests = {r1, r2, r3, r4}
    ProjectIds = {p1, p2}
    Owners = {o1}
    Names <- MCSharedNames
    NameKeys <- MCSharedKeys
    NameKeyOf <- MCSharedKeyOf
    Absent = Absent
    MaxAttempts = 1
    ReusableIds = {p1}
    RestoreAllowed = TRUE
    nLower = nLower
    nUpper = nUpper
    nOther = nOther
    kShared = kShared
    kOther = kOther
CHECK_DEADLOCK FALSE
PROPERTIES
    OnlyOwnNameIsReleased
    NoOverwrite
