SPECIFICATION FairSpec
CONSTANTS
    api1 = api1
    api2 = api2
    w1 = w1
    e1 = e1
    e2 = e2
    q1 = q1
    q2 = q2
    None = None
    MaxRuns = 1
    Workspaces = {acme}
    Keys = {k1}
    Requests = {q1, q2}
    PersonOf <- TwoPersons
    MaxCostOf <- TwoMaxCosts
    Budget = 3
    Charges = {0, 2}
    ApiProcs = {api1}
    Workers = {}
    Executors = {e1, e2}
    Host <- LocalHost
    AutoExecute = TRUE
    BatchLimit = 1
    MaxCrashes = 1
    MaxFaults = 1
    MaxDays = 1
    MaxMonths = 0
INVARIANTS TypeOK AttemptExclusive ResultOfRequest AuditTrail Attended
PROPERTIES ImplementsLifecycle QueuedServed AttemptsEnd
CHECK_DEADLOCK FALSE
