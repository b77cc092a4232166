CONSTANTS
    r1 = r1
    r2 = r2
    d1 = d1
    d2 = d2
    a1 = a1
    a2 = a2
    Requests = {r1, r2}
    Devices = {d1, d2}
    Approvals = {a1, a2}
    Chained = {a1}
    ApprovalDevice <- MCApprovalDevice
    NoApproval = NoApproval
    Free = Free
SPECIFICATION FairSpec
INVARIANTS
    SingleUse
    IntentBeforeDispatch
    ReplyIsTrue
PROPERTIES
    LostCloserStopsDispatch
    RequestsAnswered
CHECK_DEADLOCK FALSE
