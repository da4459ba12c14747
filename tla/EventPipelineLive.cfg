SPECIFICATION FairSpec
CONSTANTS
    c1 = c1
    c2 = c2
    s1 = s1
    p1 = p1
    p2 = p2
    Calls = {c1, c2}
    Sessions = {s1}
    SessionOf <- OneSession
    Successful = {c1}
    Processes = {p1, p2}
    DefaultTitle = DefaultTitle
    MaxRetry = 1
    BatchSize = 2
    SlowWorkers = FALSE
    Faults <- AllFaults
    MaxFaults = 2
PROPERTIES
    WorkedOff
