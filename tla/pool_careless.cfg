SPECIFICATION Spec
CONSTANTS
    Slave = {s1, s2, s3}
    FirstSlaves = {s1, s2}
    UserReq = {u1}
    StopReq = {p1, p2}
    CleanReq <- MCCleanReq
    CleanOf <- MCCleanOf
    NoReq = NoReq
    Priority <- MCPriority
    DefaultPrioReq = {u1}
    SMALL_POOL_SZ = 2
    MAX_THRPOOL_SZ = 3
    ResizeArgs = {0, 5}
    MaxResizes = 2
    CallerRules = {}
SYMMETRY MCSymmetry
INVARIANTS NoLostWakeup FinalOnce
CHECK_DEADLOCK FALSE
