SPECIFICATION Spec
CONSTANTS
    api1 = api1
    api2 = api2
    w1 = w1
    e1 = e1
    e2 = e2
    q1 = q1
    q2 = q2
    None = None
    MaxRuns = 3
    Workspaces = {acme}
    Keys = {}
    Requests = {q1}
    PersonOf <- OnePerson
    MaxCostOf <- OneMaxCost
    Budget = 1
    Charges = {1}
    ApiProcs = {api1}
    Workers = {}
    Executors = {e1, e2}
    Host <- LocalHost
    AutoExecute = TRUE
    BatchLimit = 1
    MaxCrashes = 0
    MaxFaults = 0
    MaxDays = 0
    MaxMonths = 0
INVARIANTS OvershootBounded
CHECK_DEADLOCK FALSE
