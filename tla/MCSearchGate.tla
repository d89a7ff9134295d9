---------------------------- MODULE MCSearchGate ---------------------------
(* Small instances of SearchGate and of the search page on top of it, for  *)
(* TLC: the bounds are in the cfg file.                                    *)
EXTENDS SearchPage

=============================================================================
