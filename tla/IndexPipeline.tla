--------------------------- MODULE IndexPipeline ---------------------------
(***************************************************************************)
(* From the table to the answers: the update service, as Catalogue         *)
(* promises it, and the index of the search service, as SearchIndex has    *)
(* it, joined by the table they share and by the notifications on NATS.    *)
(* A statement that changes the rows is a new version of the table, and a  *)
(* job that notifies publishes it, if anybody is subscribed.               *)
(***************************************************************************)
EXTENDS SearchIndex

CONSTANT MaxID      \* bound: the last comic xkcd publishes

VARIABLES
    job, rows, owed, announced, silent,     \* those of Catalogue
    lost        \* history: the last notification cannot reach the
                \* subscriber any more

C == INSTANCE Catalogue WITH db <- rows

tableVars    == <<job, rows, owed, announced, silent>>
pipelineVars == <<vars, tableVars, lost>>

PipelineInit == Init /\ C!Init /\ lost = FALSE

-----------------------------------------------------------------------------
\* A job begins, gives up on a statement, or ends without a notification.
Work ==
    /\ C!Begin \/ C!Owe \/ C!Stop
    /\ UNCHANGED <<vars, lost>>

Write ==
    /\ C!Insert \/ C!Clear \/ C!LateStatement
    /\ IF rows' = rows THEN UNCHANGED vars ELSE Change
    /\ UNCHANGED lost

Tell ==
    /\ C!Tell
    /\ IF Subscribed
         THEN Publish /\ lost' = FALSE
         ELSE UNCHANGED vars /\ lost' = TRUE

\* It matters only if it was the announcement of the table as it is.
Drop ==
    /\ Lose
    /\ lost' = (lost \/ db \in net \ net')
    /\ UNCHANGED tableVars

Serve ==
    /\ \/ Connect \/ (\E v \in Versions : Deliver(v)) \/ TakeTrigger
       \/ Tick
       \/ \E b \in Builders : Build(b)
    /\ UNCHANGED <<tableVars, lost>>

Die ==
    /\ Restart
    /\ lost' = TRUE
    /\ UNCHANGED tableVars

PipelineNext == Work \/ Write \/ Tell \/ Drop \/ Serve \/ Die

PipelineSpec == PipelineInit /\ [][PipelineNext]_pipelineVars

-----------------------------------------------------------------------------
(* Properties *)

\* The subscriber has nothing more to do for what it has heard, its last
\* build succeeded, and no older index has taken the place of its own.
Caught ==
    /\ net = {} /\ ~trigger /\ ~missed
    /\ pc["subscriber"] \notin {"list", "swap"}
    /\ index = newest

\* The two services together keep the promise of the notifications: with no
\* job running, no job or late statement silent, and the last notification
\* neither lost nor followed by a restart, an index that has caught up is
\* the table.  Every premise is one that the code can break, and breaks
\* alone (update/core/service.go:48-64, 173-188, update_subscriber.go:39-64).
AnnouncedIsIndexed ==
    job = "none" /\ ~silent /\ ~lost /\ Caught => index = db

=============================================================================
