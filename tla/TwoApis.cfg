SPECIFICATION Spec
CONSTANTS
    api1 = api1
    api2 = api2
    w1 = w1
    e1 = e1
    e2 = e2
    q1 = q1
    q2 = q2
    None = None
    MaxRuns = 2
    Workspaces = {acme}
    Keys = {k1}
    Requests = {q1, q2}
    PersonOf <- TwoPersons
    MaxCostOf <- TwoMaxCosts
    Budget = 3
    Charges = {0}
    ApiProcs = {api1, api2}
    Workers = {}
    Executors = {}
    Host <- NoHost
    AutoExecute = FALSE
    BatchLimit = 1
    MaxCrashes = 1
    MaxFaults = 0
    MaxDays = 0
    MaxMonths = 1
INVARIANTS OneRunPerKey
CHECK_DEADLOCK FALSE
