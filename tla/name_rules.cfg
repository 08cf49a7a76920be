SPECIFICATION Spec
CONSTANTS
    MinLength = 3
    MaxLength = 5
    MaxRaw = 6
CHECK_DEADLOCK FALSE
INVARIANTS
    NameIsCanonical
    KeyIsWordsInLowerCase
