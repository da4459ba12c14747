SPECIFICATION FairSpec
CONSTANTS
    Capacity = 2
    MaxContents = 4
INVARIANTS
    TypeOK
    WholeAnswer
    ClosedMeansDone
    FailureHasCause
PROPERTIES
    CallFinishes
