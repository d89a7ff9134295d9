SPECIFICATION StatsSpec
CONSTANTS
    Callers = {c1}
    Workers = {w1}
    NotFound = {}
    k1 = k1
    k2 = k2
    MaxID = 2
    Words <- MCWords
    WordsOf <- MCWordsOf
INVARIANTS
    StatsTypeOK
    FetchedWithinTotal
    StatsAreCurrent
