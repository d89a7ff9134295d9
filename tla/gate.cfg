SPECIFICATION PageFairSpec
CONSTANTS
    Requests = {r1, r2}
    Limit = 1
    Interval = 2
    MaxClock = 5
CHECK_DEADLOCK FALSE
INVARIANTS
    PageTypeOK
    RateIsKept
    WaitMeansDown
PROPERTIES
    ImplementsGateway
    Drains
