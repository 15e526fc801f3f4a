SPECIFICATION FairSpec
CONSTANTS
    Call = {r1, r2}
    NoCall = NoCall
    MaxCSeq = 4
    SendBurst = 1
    MaxConn = 2
    Faults = {"refuse", "crash", "quit", "split", "send", "disconnect"}
INVARIANTS TypeOK ReportedOnce AnswerIsOwn
PROPERTIES EventuallyReported OutgoingLeaves
CHECK_DEADLOCK FALSE
