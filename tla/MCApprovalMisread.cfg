SPECIFICATION ApprovalSpec
CONSTANTS
    Proposals = {p1}
    Workers = {w1}
    Keys = {k1, k2}
    Enabled = {k1, k2}
    None = None
    TTL = 0
    MaxTime = 1
    MaxEntries = 2
INVARIANT ApprovedExecutesOnce
CHECK_DEADLOCK FALSE
