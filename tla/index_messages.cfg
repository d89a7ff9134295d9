SPECIFICATION ScheduledSpec
CONSTANTS
    MaxVersion = 3
    MaxRestarts = 1
INVARIANTS
    TypeOK
    NoLostWakeup
PROPERTIES
    NoRegressAlone
    HeardIsBuilt
    EventuallyFresh
