SPECIFICATION Spec
CONSTANTS
    Callers = {c1, c2}
    Workers = {w1, w2}
    MaxID = 3
    NotFound = {2}
SYMMETRY Symmetry
INVARIANTS
    TypeOK
    OneJob
    NoDuplicateInsert
    AllAttempted
    DropIsClean
    AnnouncedUnlessSilent
