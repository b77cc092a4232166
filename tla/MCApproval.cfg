SPECIFICATION FairApprovalSpec
CONSTANTS
    Proposals = {p1}
    Workers = {w1, w2}
    Keys = {k1, k2, k3}
    Enabled = {k1, k2}
    None = None
    TTL = 0
    MaxTime = 1
    MaxEntries = 2
INVARIANTS
    OneExecutionPerProposal
    ApproverOfRecord
    RecordIsSigned
PROPERTIES
    LockReleased
CHECK_DEADLOCK FALSE
