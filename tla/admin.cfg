SPECIFICATION FairSpec
CONSTANTS
    Pollers = {p1}
    TTL = 2
    MaxClock = 2
    MaxAtOnce = 2
    MaxStray = 1
INVARIANTS
    TypeOK
    OnlyExpiryEndsSession
    OkMeansDoneOrBusy
PROPERTIES
    PanelEnds
