SPECIFICATION FairSpec
CONSTANTS
    c1 = c1
    c2 = c2
    c3 = c3
    None = None
    Calls <- ThreeCalls
    MaxRetries = 2
    Threshold = 2
    Cooldown = 2
INVARIANTS
    TypeOK
    OpenAtThreshold
    FailuresBounded
    OpenTrafficBounded
PROPERTIES
    ClosedEarlyByAnswer
    OpenEnds
    CallsEnd
