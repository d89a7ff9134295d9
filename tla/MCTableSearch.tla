--------------------------- MODULE MCTableSearch ---------------------------
(* A small instance of TableSearch for TLC. *)
EXTENDS TableSearch, TLC

CONSTANTS c1, c2, c3, c4, k1, k2

MCComics == {c1, c2, c3, c4}
MCKeywords == {k1, k2}

\* Two comics with both keywords, and one with each.
MCWordsOf ==
    (c1 :> {k1, k2}) @@ (c4 :> {k1, k2}) @@ (c2 :> {k1}) @@ (c3 :> {k2})

=============================================================================
