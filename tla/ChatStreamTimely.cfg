SPECIFICATION Spec
CONSTANTS
    r1 = r1
    r2 = r2
    r3 = r3
    s1 = s1
    s2 = s2
    Requests = {r1, r2, r3}
    Sessions = {s1, s2}
    SessionOf <- TwoSessions
    NoRequest = NoRequest
    MaxRetries = 0
    MaxChunks = 0
    LockTTL = 2
    CallTimeout = 1
    SlowSteps <- OnlyCalls
    Faults <- NoFaults
SYMMETRY PairSymmetry
INVARIANTS
    SingleGenerator
    LockFreedOnExit
    SettledOnExit
PROPERTIES
    KeepsPromise
