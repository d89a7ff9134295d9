SPECIFICATION Spec
CONSTANTS
    c1 = c1
    c2 = c2
    c3 = c3
    c4 = c4
    k1 = k1
    k2 = k2
    Comics <- MCComics
    Keywords <- MCKeywords
    WordsOf <- MCWordsOf
    Limits = {0, 1, 2}
INVARIANTS
    TypeOK
    AnswerIsSound
    BestFirst
    GoneOnlyByDrop
