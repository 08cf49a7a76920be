SPECIFICATION FairSpec
CONSTANTS
    ProjectIds = {p1, p2}
    Owners = {o1}
    Names <- MCNames
    NameKeys <- MCNameKeys
    NameKeyOf <- MCNameKeyOf
    Absent = Absent
    Workers = {w1, w2}
    BatchSize = 2
    MaxRetries = 1
    MaxLate = 1
    Faults = {"refused", "answerLost", "crash", "abandoned"}
    theName = theName
    theKey = theKey
CHECK_DEADLOCK FALSE
INVARIANTS
    TypeOK
    NothingSkipped
    StatusIsTruthful
PROPERTIES
    ProvisionedOnce
    StatusMovesForward
    DeletedStaysDeleted
    StuckOnlyByFailure
    NoneWaitsUnnoticed

