SPECIFICATION FairSpec
CONSTANTS
    c1 = c1
    k1 = k1
    k2 = k2
    Comics <- MCComics
    Keywords <- MCKeywords
    WordsOf <- MCWordsOf
    Builders = {b1, b2}
    Readers = {r1, r2}
    NoBuilder = NoBuilder
    Limits = {0}
INVARIANTS
    TypeOK
PROPERTIES
    AnswersAtOnce
    BuildSwaps
    SearchAnswers
