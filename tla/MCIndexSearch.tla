--------------------------- MODULE MCIndexSearch ---------------------------
(* Small instances of IndexSearch for TLC. *)
EXTENDS IndexSearch, TLC

CONSTANTS c1, k1, k2

\* One comic with both keywords: two keywords are two reads of the index, and
\* a comic that comes and goes makes every two builds differ.
MCComics == {c1}
MCKeywords == {k1, k2}
MCWordsOf == c1 :> {k1, k2}

=============================================================================
