SPECIFICATION Spec

CONSTANTS
    ProjectIds = {p1, p2}
    Owners = {o1}
    Names <- MCNames
    NameKeys <- MCNameKeys
    NameKeyOf <- MCNameKeyOf
    Absent = Absent
    Workers = {w1}
    BatchSize = 2
    MaxRetries = 1
    MaxLate = 0
    Faults = {"answerLost"}
    theName = theName
    theKey = theKey
CHECK_DEADLOCK FALSE
PROPERTIES
    SkippedWasHandled
