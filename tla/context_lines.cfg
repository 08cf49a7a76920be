SPECIFICATION Spec
CONSTANTS
    Requests = {r1, r2}
    KeyIds = {key}
    HeaderKeys = {typed}
    HeaderIds = {hid}
    None = None
    r1 = r1
    r2 = r2
    key = key
    typed = typed
    hid = hid
INVARIANTS
    OneIdPerRequest
    LinesCarryOwnId
    LoggedStatusIsAnswered
    OwnerLoggedIsOwnerActing
CHECK_DEADLOCK FALSE
