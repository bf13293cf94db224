SPECIFICATION Spec
CONSTANTS
    MaxAttempts <- ThreeAttempts
    MaxRetries = 1
    Deadline = 2
INVARIANTS
    ResultOfLatestRequest
CHECK_DEADLOCK FALSE
