SPECIFICATION Spec
CONSTANTS
    Sessions = {s1}
    Kinds = {"observation"}
    Ids = {i1}
    Versions = {1}
    Approvals = {}
    NoRef = NoRef
    MaxRows = 2
    Faults = {"damage"}
INVARIANT HeadlessNeverVerifies
