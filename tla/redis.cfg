SPECIFICATION FairSpec
CONSTANTS
    Cmd = {g1, x1}
    NoCmd = NoCmd
    Dels = {x1}
    Dispatcher = {d1, d2}
    NoDispatcher = NoDispatcher
    MaxPending = 2
    MaxSendErrors = 0
    MaxConn = 3
    Faults = {"refuse", "unreachable", "drop", "send", "expire", "disconnect"}
INVARIANTS ReplyIsOwn
PROPERTIES EventuallyReported
CHECK_DEADLOCK FALSE
