---------------------------- MODULE MCLifecycle ----------------------------
(* Small instances of Lifecycle for TLC: the bounds are in the cfg file. *)
EXTENDS Lifecycle

=============================================================================
