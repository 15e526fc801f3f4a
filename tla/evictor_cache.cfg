SPECIFICATION Spec
CONSTANTS
    Ident = {x, y}
    Caller = {c1, c2}
    MaxItems = 5
    MaxOps = 3
    EvictorSize = 1
    BatchSize = 1
    CompletedOnly = TRUE
    Faults = {"load", "unmarshal", "marshal", "save"}
    CallerRules = {}
INVARIANTS ListMatchesCache LocatedStaysCached
SYMMETRY MCSymmetry
CHECK_DEADLOCK FALSE
