SPECIFICATION SysSpec
SYMMETRY Symmetry
CONSTANTS
    Requests = {r1, r2, r3}
    ProjectIds = {p1, p2}
    Owners = {o1}
    Names <- MCNames
    NameKeys <- MCNameKeys
    NameKeyOf <- MCNameKeyOf
    Absent = Absent
    MaxAttempts = 1
    ReusableIds = {}
    RestoreAllowed = FALSE
    Workers = {w1}
    BatchSize = 2
    MaxRetries = 0
    MaxLate = 1
    Faults = {"refused", "answerLost", "crash"}
    nLower = nLower
    nUpper = nUpper
    kShared = kShared
CHECK_DEADLOCK FALSE
INVARIANTS
    DeletedIsGone
    NewProjectsAreNoticed
PROPERTIES
    ProvisionerIsImplemented
    ImplementsRegistry
