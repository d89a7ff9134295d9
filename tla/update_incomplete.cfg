SPECIFICATION Spec
CONSTANTS
    Callers = {c1}
    Workers = {w1}
    MaxID = 2
    NotFound = {1}
INVARIANTS
    UpdateFetchesAll
