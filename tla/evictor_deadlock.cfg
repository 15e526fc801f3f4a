SPECIFICATION FairSpec
CONSTANTS
    Ident = {x}
    Caller = {c1}
    MaxItems = 4
    MaxOps = 2
    EvictorSize = 1
    BatchSize = 1
    CompletedOnly = FALSE
    Faults = {}
    CallerRules = {}
PROPERTIES PollComesBack
CHECK_DEADLOCK FALSE
