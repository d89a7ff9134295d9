SPECIFICATION FairSpec
CONSTANTS
    Callers = {c1, c2}
    Workers = {w1, w2}
    MaxID = 3
    NotFound = {1, 2}
PROPERTIES
    JobEnds
    ImplementsCatalogue
