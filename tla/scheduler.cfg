SPECIFICATION FairSpec
CONSTANTS
    Task = {t1, t2}
    NULL = NULL
    MAX_SCHD_POLLTIME = 4
    MAX_TASK_PRESTARTTIME = 1
    MIN_TASK_UPDATETIME = 2
    WRAPPED_SLEEP = 3
    WaitTimes = {0, 3}
    MaxBookings = 3
    MaxLag = 1
INVARIANTS TypeOK OneStartPerBooking ListedAreAlive 
PROPERTIES EventuallyStarted
