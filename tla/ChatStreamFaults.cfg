SPECIFICATION Spec
CONSTANTS
    r1 = r1
    r2 = r2
    r3 = r3
    s1 = s1
    s2 = s2
    Requests = {r1, r2}
    Sessions = {s1}
    SessionOf <- OneSession
    NoRequest = NoRequest
    MaxRetries = 1
    MaxChunks = 1
    LockTTL = 2
    CallTimeout = 1
    SlowSteps <- AllSlow
    Faults <- AllFaults
SYMMETRY RequestSymmetry
INVARIANTS
    TypeOK
    ExclusiveUntilLapse
    EventAgreesWithMessage
PROPERTIES
    OnlyHolderReleases
    OutcomeFinal
