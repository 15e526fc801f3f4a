SPECIFICATION Spec
CONSTANTS
    Cmd = {g1, x1}
    NoCmd = NoCmd
    Dels = {x1}
    Dispatcher = {d1, d2}
    NoDispatcher = NoDispatcher
    MaxPending = 2
    MaxSendErrors = 1
    MaxConn = 3
    Faults = {"refuse", "unreachable", "drop", "send", "partial", "expire",
              "disconnect", "crlf", "overtaken", "errno"}
INVARIANTS TypeOK ReportedOnce PendingMeansConnecting
CHECK_DEADLOCK FALSE
