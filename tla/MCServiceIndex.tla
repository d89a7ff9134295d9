--------------------------- MODULE MCServiceIndex ---------------------------
(* Small instances of ServiceIndex for TLC: the bounds are in the cfg. *)
EXTENDS ServiceIndex

\* The variables that a step or a property of ServiceIndex reads: all but
\* what the handlers return, what the workers log and what late statements
\* have touched.
Seen == <<running, pc, cancelled, lastID, todo, wpc, wid, db, orphans, latest,
          announced, silent, version, net, trigger, builder, snap, index,
          restarts, heard, newest, missed, lost, contents>>

\* One message on its way and one late statement at a time.
Few == Cardinality(net) <= 1 /\ Cardinality(orphans) <= 1

=============================================================================
