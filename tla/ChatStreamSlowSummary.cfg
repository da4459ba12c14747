SPECIFICATION Spec
CONSTANTS
    r1 = r1
    r2 = r2
    r3 = r3
    s1 = s1
    s2 = s2
    Requests = {r1, r2}
    Sessions = {s1}
    SessionOf <- OneSession
    NoRequest = NoRequest
    MaxRetries = 0
    MaxChunks = 1
    LockTTL = 3
    CallTimeout = 2
    SlowSteps <- CallsAndSummary
    Faults <- NoFaults
INVARIANT
    SingleGenerator
