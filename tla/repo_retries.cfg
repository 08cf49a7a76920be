SPECIFICATION Spec
SYMMETRY FullSymmetry
CONSTANTS
    Requests = {r1, r2, r3}
    ProjectIds = {p1, p2}
    Owners = {o1, o2}
    Names <- MCNames
    NameKeys <- MCNameKeys
    NameKeyOf <- MCNameKeyOf
    Absent = Absent
    MaxAttempts = 2
    ReusableIds = {}
    RestoreAllowed = FALSE
    nLower = nLower
    nUpper = nUpper
    nOther = nOther
    kShared = kShared
    kOther = kOther
CHECK_DEADLOCK FALSE
INVARIANTS
    TypeOK
    NamesConsistent
    AnswersAreTrue
    AckedCreateIsDurable
    DeletedOnce
    MismatchNeverSeen
PROPERTIES
    OnlyItsOwnerRemovesAProject
    RefusedByAnother
    ReadYourCreate
    ImplementsRegistry
