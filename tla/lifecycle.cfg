SPECIFICATION FairSpec
CONSTANTS
    Requests = {r1, r2}
    MaxStarts = 1
CHECK_DEADLOCK FALSE
INVARIANTS
    TypeOK
    NothingUsesClosed
    ExitIsHonest
    ServesMigrated
PROPERTIES
    Ends
