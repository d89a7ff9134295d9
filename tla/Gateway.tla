------------------------------ MODULE Gateway ------------------------------
(***************************************************************************)
(* What the API server promises of its two searches.  A request is refused *)
(* as busy only if Limit searches run, and then at once; an index search   *)
(* waits for the rate and is never refused while its client is there and   *)
(* the server serves.  The channel of Concurrency, the next token of the   *)
(* limiter and the tokens that are held are not visible here.              *)
(***************************************************************************)
EXTENDS Naturals, FiniteSets

CONSTANTS
    Requests,   \* connections, each with one request at a time
    Limit,      \* searches that may run at the same time
    Interval    \* ticks for each index search after the first

VARIABLES
    phase,      \* of the server: "serving", "draining" or "stopped"
    state,      \* of each request: "off", "asked" or "inside"
    route,      \* what it asks for, "search" or "isearch"
    gone,       \* its client has left
    status,     \* the last reply on the connection
    clock,
    passed      \* index searches let in

vars == <<phase, state, route, gone, status, clock, passed>>

Searching == {r \in Requests : state[r] = "inside" /\ route[r] = "search"}
Done(r)   == gone[r] \/ phase # "serving"

Init ==
    /\ phase = "serving"
    /\ state = [r \in Requests |-> "off"]
    /\ route = [r \in Requests |-> "search"]
    /\ gone = [r \in Requests |-> FALSE]
    /\ status = [r \in Requests |-> "none"]
    /\ clock = 0 /\ passed = 0

Come(r, rt) ==
    /\ phase = "serving" /\ state[r] = "off"
    /\ state' = [state EXCEPT ![r] = "asked"]
    /\ route' = [route EXCEPT ![r] = rt]
    /\ gone' = [gone EXCEPT ![r] = FALSE]
    /\ status' = [status EXCEPT ![r] = "none"]
    /\ UNCHANGED <<phase, clock, passed>>

Go(r) ==
    /\ state[r] # "off" /\ ~gone[r]
    /\ gone' = [gone EXCEPT ![r] = TRUE]
    /\ UNCHANGED <<phase, state, route, status, clock, passed>>

Tick ==
    /\ clock' = clock + 1
    /\ UNCHANGED <<phase, state, route, gone, status, passed>>

Asks(r, rt) == state[r] = "asked" /\ route[r] = rt

Enters(r) ==
    /\ state' = [state EXCEPT ![r] = "inside"]
    /\ UNCHANGED <<phase, route, gone, status, clock>>

Ends(r, s) ==
    /\ state' = [state EXCEPT ![r] = "off"]
    /\ status' = [status EXCEPT ![r] = s]
    /\ UNCHANGED <<phase, route, gone, clock, passed>>

Admit(r) ==
    /\ Asks(r, "search") /\ Cardinality(Searching) < Limit
    /\ Enters(r) /\ UNCHANGED passed

Decline(r) ==
    /\ Asks(r, "search") /\ Cardinality(Searching) = Limit
    /\ Ends(r, "busy")

\* The index searches let in before have each had their interval.
Let(r) ==
    /\ Asks(r, "isearch") /\ passed * Interval <= clock
    /\ Enters(r) /\ passed' = passed + 1

Dismiss(r) == Asks(r, "isearch") /\ Done(r) /\ Ends(r, "down")

Answer(r, s) ==
    /\ state[r] = "inside"
    /\ s = "ok" => ~Done(r)
    /\ Ends(r, s)

Signal ==
    /\ phase = "serving"
    /\ phase' = "draining"
    /\ UNCHANGED <<state, route, gone, status, clock, passed>>

\* Whoever still waits for an answer loses it.
Stop ==
    /\ phase = "draining"
    /\ phase' = "stopped"
    /\ state' = [r \in Requests |-> "off"]
    /\ status' = [r \in Requests |->
                    IF state[r] = "off" THEN status[r] ELSE "lost"]
    /\ UNCHANGED <<route, gone, clock, passed>>

Next ==
    \/ \E r \in Requests :
        \/ \E rt \in {"search", "isearch"} : Come(r, rt)
        \/ Go(r) \/ Admit(r) \/ Decline(r) \/ Let(r) \/ Dismiss(r)
        \/ \E s \in {"ok", "bad", "error"} : Answer(r, s)
    \/ Tick \/ Signal \/ Stop

Spec == Init /\ [][Next]_vars

=============================================================================
