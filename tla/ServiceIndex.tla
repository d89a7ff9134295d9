---------------------------- MODULE ServiceIndex ----------------------------
(***************************************************************************)
(* The two services as they are: UpdateService, with its callers, workers, *)
(* cancellations and crashes, feeds the table whose versions SearchIndex   *)
(* builds its index from.  IndexPipeline puts Catalogue in the place of    *)
(* the update service; what it promises is to hold here too.               *)
(***************************************************************************)
EXTENDS UpdateService

CONSTANTS
    MaxVersion,     \* bound: changes of the comics table
    MaxRestarts     \* bound: restarts of the search service

ASSUME BoundsAssumption == MaxVersion \in Nat /\ MaxRestarts \in Nat

VARIABLES
    version,        \* version of the comics table: how often db has changed
    builder,        \* where each builder of the index is
    net, trigger, snap, index, restarts,
    heard, newest, missed, raced,           \* those of SearchIndex
    lost,                                   \* that of IndexPipeline
    contents        \* history: the rows of each version of the table

P == INSTANCE IndexPipeline WITH
        db <- version, pc <- builder,
        job <- Phase, rows <- db, owed <- orphans

indexVars  == <<version, net, trigger, builder, snap, index, restarts, heard,
                newest, missed, raced>>
systemVars == <<vars, indexVars, lost, contents>>

SystemInit ==
    /\ Init /\ P!Init
    /\ lost = FALSE
    /\ contents = [v \in 0..MaxVersion |-> {}]

-----------------------------------------------------------------------------
\* The message of a job reaches NATS; nobody keeps it for a subscriber that
\* is not there.
Announce ==
    /\ IF P!Subscribed
         THEN P!Publish /\ lost' = FALSE
         ELSE UNCHANGED indexVars /\ lost' = TRUE
    /\ UNCHANGED contents

\* A step that publishes nothing: the rows may have become another version.
Quiet ==
    /\ IF db' = db
         THEN UNCHANGED <<indexVars, contents>>
         ELSE P!Change /\ contents' = [contents EXCEPT ![version'] = db']
    /\ UNCHANGED lost

Update ==
    /\ Next
    /\ IF \E c \in Callers : NotifyOk(c) THEN Announce ELSE Quiet

\* NATS and the search service go on by themselves.
Search ==
    /\ UNCHANGED <<vars, contents>>
    /\ P!Drop \/ P!Serve \/ P!Die

SystemNext == Update \/ Search

SystemSpec == SystemInit /\ [][SystemNext]_systemVars

-----------------------------------------------------------------------------
(* Properties *)

\* The detailed service is as good as the catalogue to the pipeline: every
\* notification it publishes ends a job, and every other step of it that
\* changes the rows is one a job or a late statement may take
\* (update/core/service.go:38-66, 173-188).
ImplementsPipeline == P!PipelineSpec

\* From the handlers of Update and Drop to the index: with no job running,
\* no job or late statement silent, and the last notification neither lost
\* nor followed by a restart, an index that has caught up was built from the
\* very rows of the table.  Every premise is one that the code can break, and
\* breaks alone
\* (update/core/service.go:48-64, 173-188, update_subscriber.go:39-64).
AnnouncedIsIndexed ==
    Phase = "none" /\ ~silent /\ ~lost /\ P!Caught => contents[index] = db

=============================================================================
