SPECIFICATION FairSpec
CONSTANTS
    Ident = {x, y}
    Caller = {c1}
    MaxItems = 4
    MaxOps = 4
    EvictorSize = 1
    BatchSize = 1
    CompletedOnly = FALSE
    Faults = {}
    CallerRules = {"serialised"}
INVARIANTS CleanIsStored
PROPERTIES ImplementsPromised EventuallySaved
