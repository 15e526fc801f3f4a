SPECIFICATION Spec
CONSTANTS
    Ident = {x}
    Caller = {c1}
    MaxItems = 4
    MaxOps = 4
    EvictorSize = 1
    BatchSize = 1
    CompletedOnly = FALSE
    Faults = {}
    CallerRules = {}
INVARIANTS CleanIsStored
CHECK_DEADLOCK FALSE
