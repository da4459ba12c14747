SPECIFICATION Spec
CONSTANTS
    r1 = r1
    r2 = r2
    c1 = c1
    Requests = {r1, r2}
    Pagers = {c1}
    MaxContextMessages = 1
    Compression = TRUE
    MaxMessagesBeforeCompress = 1
    Limit = 2
    MaxMessages = 6
SYMMETRY RequestSymmetry
INVARIANTS
    TypeOK
    NothingForgotten
    EndsWithQuestion
    HalfSummaryUnused
    WalkComplete
    WalkOnce
PROPERTIES
    SummaryAdvances
