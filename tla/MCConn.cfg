SPECIFICATION FairSpec
CONSTANTS
    Workers = {w1, w2}
    Watchdog = Watchdog
    None = None
    MaxConn = 2
    MaxGen = 2
INVARIANTS
    ChannelExclusive
    NothingLeaks
    VerifiedIsCurrent
PROPERTY ShutdownEnds
CHECK_DEADLOCK FALSE
