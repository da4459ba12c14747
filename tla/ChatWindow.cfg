SPECIFICATION FairSpec
CONSTANTS
    Sessions = {1, 2}
    MaxSends = 2
    MaxMounts = 2
INVARIANTS
    TypeOK
    BlockedWhileAnswering
    TextOfOne
    ShowsOwnSession
PROPERTIES
    InputComesBack
