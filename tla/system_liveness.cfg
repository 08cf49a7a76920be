SPECIFICATION SysFairSpec

CONSTANTS
    Requests = {r1, r2}
    ProjectIds = {p1}
    Owners = {o1}
    Names <- MCOneName
    NameKeys <- MCNameKeys
    NameKeyOf <- MCOneKeyOf
    Absent = Absent
    MaxAttempts = 2
    ReusableIds = {}
    RestoreAllowed = FALSE
    Workers = {w1, w2}
    BatchSize = 2
    MaxRetries = 1
    MaxLate = 0
    Faults = {"abandoned"}
    nLower = nLower
    nUpper = nUpper
    kShared = kShared
CHECK_DEADLOCK FALSE
PROPERTIES
    AckedProjectSettles
    EveryRequestIsAnswered
