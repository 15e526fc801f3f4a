SPECIFICATION Spec
CONSTANTS
    Ident = {x, y}
    Caller = {c1, c2}
    MaxItems = 5
    MaxOps = 3
    EvictorSize = 1
    BatchSize = 1
    CompletedOnly = FALSE
    Faults = {"load", "unmarshal", "marshal", "save"}
    CallerRules = {"onePerIdent"}
INVARIANTS TypeOK DirtyIsQueued
SYMMETRY MCSymmetry
CHECK_DEADLOCK FALSE
