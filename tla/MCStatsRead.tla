---------------------------- MODULE MCStatsRead ----------------------------
(* A small instance of StatsRead for TLC. *)
EXTENDS StatsRead

CONSTANTS k1, k2

MCWords == {k1, k2}

\* Two comics that share a keyword.
MCWordsOf == <<{k1, k2}, {k1}>>

=============================================================================
