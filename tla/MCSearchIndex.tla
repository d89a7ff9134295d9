--------------------------- MODULE MCSearchIndex ---------------------------
(* Small instances of SearchIndex for TLC: the bounds are in the cfg files. *)
EXTENDS SearchIndex

=============================================================================
