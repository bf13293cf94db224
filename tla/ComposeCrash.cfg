SPECIFICATION FairSpec
CONSTANTS
    api1 = api1
    api2 = api2
    w1 = w1
    e1 = e1
    e2 = e2
    q1 = q1
    q2 = q2
    None = None
    MaxRuns = 1
    Workspaces = {acme}
    Keys = {}
    Requests = {q1}
    PersonOf <- OnePerson
    MaxCostOf <- OneMaxCost
    Budget = 2
    Charges = {0, 2}
    ApiProcs = {api1}
    Workers = {w1}
    Executors = {e1}
    Host <- ComposeHost
    AutoExecute = FALSE
    BatchLimit = 1
    MaxCrashes = 1
    MaxFaults = 0
    MaxDays = 0
    MaxMonths = 0
PROPERTIES AttemptsResumed
CHECK_DEADLOCK FALSE
