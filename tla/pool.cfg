SPECIFICATION FairSpec
CONSTANTS
    Slave = {s1, s2, s3}
    FirstSlaves = {s1, s2}
    UserReq = {u1}
    StopReq = {p1}
    CleanReq <- MCCleanReq
    CleanOf <- MCCleanOf
    NoReq = NoReq
    Priority <- MCPriority
    DefaultPrioReq = {u1}
    SMALL_POOL_SZ = 1
    MAX_THRPOOL_SZ = 3
    ResizeArgs = {0, 5}
    MaxResizes = 1
    CallerRules = {"startedBeforeStop", "settledBeforeStop", "settledBeforeResize", "settledBeforeClear"}
INVARIANTS TypeOK DeletedOnceDead RunningHasThread SingleOwner ActiveCountExact
PROPERTIES ImplementsLifecycle UrgentFirst EventuallyFinal StopCompletes ResizeConverges
