SPECIFICATION Spec
CONSTANTS
    Sessions = {s1, s2}
    Kinds = {"observation", "fed_observation"}
    Ids = {i1}
    Versions = {1, 2}
    Approvals = {a1}
    NoRef = NoRef
    MaxRows = 3
    Faults = {"power"}
INVARIANT AlwaysVerifies
INVARIANT OneHashPerFederationId
INVARIANT AckedIsCommitted
PROPERTY ImplementsLog
