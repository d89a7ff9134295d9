----------------------------- MODULE Catalogue -----------------------------
(***************************************************************************)
(* What the update service promises to the rest of the system: one table   *)
(* of comics, changed by one job at a time, and a record of whether the    *)
(* subscribers have been told of the table as it is.  How a job finds the  *)
(* missing comics, its workers and its flag are not visible here.          *)
(***************************************************************************)
EXTENDS Naturals

CONSTANT MaxID      \* bound: the last comic xkcd publishes

VARIABLES
    job,        \* the job that runs: "none", "update" or "drop"
    db,         \* ids of the rows of the comics table
    owed,       \* statements given up by their job but not by the database:
                \* the id of an INSERT, or 0 for a TRUNCATE
    announced,  \* the table at the last notification
    silent      \* the table may have changed since, with no notification due

vars == <<job, db, owed, announced, silent>>

Init ==
    /\ job = "none"
    /\ db = {}
    /\ owed = {}
    /\ announced = {}
    /\ silent = FALSE

Begin ==
    /\ job = "none"
    /\ job' \in {"update", "drop"}
    /\ UNCHANGED <<db, owed, announced, silent>>

\* An update only adds rows, a drop removes all of them.
Insert ==
    /\ job = "update"
    /\ \E i \in (1..MaxID) \ db : db' = db \cup {i}
    /\ UNCHANGED <<job, owed, announced, silent>>

Clear ==
    /\ job = "drop"
    /\ db' = {}
    /\ UNCHANGED <<job, owed, announced, silent>>

\* A job gives up on a statement.
Owe ==
    /\ job # "none"
    /\ \E s \in 0..MaxID : owed' = owed \cup {s}
    /\ UNCHANGED <<job, db, announced, silent>>

\* A job ends: the subscribers are told, or they are not and it counts as
\* silent, or there is nothing they have not been told.
Tell ==
    /\ job # "none"
    /\ job' = "none"
    /\ announced' = db
    /\ silent' = FALSE
    /\ UNCHANGED <<db, owed>>

Stop ==
    /\ job # "none"
    /\ job' = "none"
    /\ \E S \in SUBSET (0..MaxID) : owed' = owed \cup S
    /\ silent' = TRUE \/ (silent' = silent /\ db = announced)
    /\ UNCHANGED <<db, announced>>

\* A statement nobody waits for is executed.
LateStatement ==
    /\ \E s \in owed :
        /\ owed' = owed \ {s}
        /\ \/ s # 0 /\ s \in db /\ UNCHANGED <<db, silent>>
           \/ s # 0 /\ s \notin db /\ db' = db \cup {s} /\ silent' = TRUE
           \/ s = 0 /\ db' = {} /\ silent' = TRUE
    /\ UNCHANGED <<job, announced>>

Next == Begin \/ Insert \/ Clear \/ Owe \/ Tell \/ Stop \/ LateStatement

Spec == Init /\ [][Next]_vars

=============================================================================
