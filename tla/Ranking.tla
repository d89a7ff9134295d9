------------------------------ MODULE Ranking ------------------------------
(***************************************************************************)
(* The pure part of Search and ISearch of search/core/service.go: scores   *)
(* of comics against a set of keywords, the order of the comics by score,  *)
(* and the cut to the limit of the request.  Both operations run the same  *)
(* lines of code, over the table (Search) or over the index (ISearch).     *)
(***************************************************************************)
EXTENDS Naturals, Sequences, FiniteSets, Functions

CONSTANTS
    Comics,         \* ids of comics
    Keywords,       \* normal forms of words
    WordsOf         \* the keywords of each comic; the same whenever it is
                    \* fetched, as xkcd does not change a comic

ASSUME ComicsAssumption ==
    /\ IsFiniteSet(Comics)
    /\ IsFiniteSet(Keywords)
    /\ WordsOf \in [Comics -> SUBSET Keywords]

\* What the table, or the index, answers for one keyword when it holds the
\* comics of T.
Matching(T, k) == {i \in T : k \in WordsOf[i]}

\* scores[id]++ for every id of an answer.
Count(scores, ids) ==
    [i \in Comics |-> IF i \in ids THEN scores[i] + 1 ELSE scores[i]]

Zero == [i \in Comics |-> 0]

\* The map of scores has a key for every comic some answer named.
Found(scores) == {i \in Comics : scores[i] > 0}

\* All the results the sort may give.  It compares scores only, it is not
\* stable, and the keys of a map come in any order: comics of one score may
\* end up in any order.
Sorts(scores) ==
    LET F == Found(scores) IN
    {s \in Bijection(1..Cardinality(F), F) :
        \A a, b \in DOMAIN s : a < b => scores[s[a]] >= scores[s[b]]}

\* sorted[:limit], with the limit lowered to the length first.
Cut(s, limit) == SubSeq(s, 1, IF Len(s) < limit THEN Len(s) ELSE limit)

\* The limit of a request: 0 stands for a request that names none.
DefaultLimit == 10
Effective(limit) == IF limit = 0 THEN DefaultLimit ELSE limit

-----------------------------------------------------------------------------
(* The reference: what a search over a table that holds T should answer *)

Relevance(q, i) == Cardinality(q \cap WordsOf[i])

Relevant(T, q) == {i \in T : Relevance(q, i) > 0}

\* s lists, best first, comics of T that match, and leaves out none that is
\* better than one it lists, or any at all before the limit is reached.
IsAnswer(s, T, q, limit) ==
    LET R == Relevant(T, q) IN
    /\ s \in [1..Len(s) -> R]
    /\ IsInjective(s)
    /\ \A a, b \in 1..Len(s) :
        a < b => Relevance(q, s[a]) >= Relevance(q, s[b])
    /\ Len(s) <= limit
    /\ \A i \in R \ Range(s) :
        /\ Len(s) = limit
        /\ \A a \in 1..Len(s) : Relevance(q, s[a]) >= Relevance(q, i)

=============================================================================
