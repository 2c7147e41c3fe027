SPECIFICATION FairSpec
CONSTANTS
    r1 = r1
    r2 = r2
    r3 = r3
    Requests = {r1, r2, r3}
    SlowRequests = {r1}
    MayFail = TRUE
PROPERTY SignalEndsServer
CHECK_DEADLOCK FALSE
