SPECIFICATION Spec
CONSTANTS
    Operators = {ann, ben}
    MaxVersion = 4
    ann = ann
    ben = ben
INVARIANT NothingInBetween
PROPERTY ForwardOnlyAfterAnother
CHECK_DEADLOCK FALSE
