SPECIFICATION FairSpec
CONSTANTS
    good = good
    bad = bad
    e1 = e1
    e2 = e2
    None = None
    Hooks <- TwoHooks
    BadHooks <- OneBadHook
    Events <- TwoEvents
    MaxRetries = 1
    MaxCrashes = 1
INVARIANTS
    TypeOK
    Accounted
    DeliveriesReal
PROPERTIES
    DispatchEnds
CHECK_DEADLOCK FALSE
