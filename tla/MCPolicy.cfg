SPECIFICATION Spec
CONSTANTS
    Workers = {w1, w2}
    Actions <- MCActions
    Protected <- MCProtected
    Expires <- MCExpires
    Observers = {"watch"}
    max_calls = 2
    max_disruptive = 1
    max_inflight = 2
    Idle = Idle
    MaxTime = 1
SYMMETRY Symmetry
INVARIANTS
    NoRepeatWhileOpen
    DoneIsSettled
    BudgetsHold
    ExpiredStaysExpired
