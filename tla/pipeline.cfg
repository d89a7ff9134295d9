SPECIFICATION SystemSpec
CONSTANTS
    Callers = {c1}
    Workers = {w1}
    MaxID = 1
    NotFound = {}
    MaxVersion = 2
    MaxRestarts = 1
INVARIANTS
    AnnouncedIsIndexed
PROPERTIES
    ImplementsPipeline
VIEW Seen
CONSTRAINT Few
