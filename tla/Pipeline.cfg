SPECIFICATION FairSpec
CONSTANTS
    MaxAttempts <- ThreeAttempts
    MaxRetries = 2
    Deadline = 2
INVARIANTS
    TypeOK
    OneJobPerRequest
    UsageOfResult
PROPERTIES
    AttemptEnds
CHECK_DEADLOCK FALSE
