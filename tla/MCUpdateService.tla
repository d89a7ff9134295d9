-------------------------- MODULE MCUpdateService --------------------------
(* Small instances of UpdateService for TLC. *)
EXTENDS UpdateService, TLC

\* Callers and workers are interchangeable in every safety property.
Symmetry == Permutations(Callers) \cup Permutations(Workers)

=============================================================================
