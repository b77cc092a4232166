SPECIFICATION Spec
CONSTANTS
    Sessions = {s1}
    Kinds = {"observation", "comparator_verdict"}
    Ids = {i1}
    Versions = {1}
    Approvals = {}
    NoRef = NoRef
    MaxRows = 3
    Faults = {"damage"}
INVARIANT ValidIsAuthentic
INVARIANT DamageIsReported
