---------------------------- MODULE SearchGate -----------------------------
(***************************************************************************)
(* The way of a search through the API server: api/main.go, the middleware *)
(* Concurrency in front of /api/search and Rate in front of /api/isearch,  *)
(* and the two handlers of api/adapters/rest/api.go.  A slot of a channel  *)
(* admits a search or it is refused at once; a limiter lets index searches *)
(* in one by one.  A signal cancels the context of every request and the   *)
(* server waits for the handlers that run.                                 *)
(*                                                                         *)
(* Time is counted in ticks.  The search service is a call that answers,   *)
(* fails or hangs, and fails once its context is done.                     *)
(***************************************************************************)
EXTENDS Naturals, FiniteSets

CONSTANTS
    Requests,   \* connections, each with one request at a time
    Limit,      \* SEARCH_CONCURRENCY
    Interval,   \* ticks between two tokens of the limiter, 1/SEARCH_RATE
    MaxClock    \* bound: ticks

\* config.go refuses negative values.  A rate of 0, which it accepts, lets
\* one request in and no other, and is left out.
ASSUME RequestsAssumption == IsFiniteSet(Requests)
ASSUME LimitAssumption == Limit \in Nat
ASSUME IntervalAssumption == Interval \in Nat \ {0} /\ MaxClock \in Nat

VARIABLES
    phase,      \* of the server: "serving", "draining" or "stopped"
    pc,         \* where the handler of each request is
    route,      \* the pattern each request matches
    gone,       \* the client of each request has left
    status,     \* the status of the last reply on each connection
    sema,       \* elements in the channel of Concurrency
    clock,
    due,        \* when the limiter has its next token
    slot,       \* the time for which each waiting request holds a token
    passed      \* history: index searches the limiter let in

vars == <<phase, pc, route, gone, status, sema, clock, due, slot, passed>>
limiterVars == <<due, slot, passed>>

Routes   == {"search", "isearch"}
Statuses == {"none", "ok", "bad", "busy", "down", "error", "lost"}

Later(a, b) == IF a < b THEN b ELSE a

\* The context of a request is done: BaseContext makes it a child of the
\* context that the signal cancels.
DoneClientOnly(r) == gone[r]
Done(r) == gone[r] \/ phase # "serving"

Searching == {r \in Requests : pc[r] = "inside" /\ route[r] = "search"}
Waiting   == {r \in Requests : pc[r] = "wait"}

Init ==
    /\ phase = "serving"
    /\ pc = [r \in Requests |-> "off"]
    /\ route = [r \in Requests |-> "search"]
    /\ gone = [r \in Requests |-> FALSE]
    /\ status = [r \in Requests |-> "none"]
    /\ sema = 0
    /\ clock = 0 /\ due = 0
    /\ slot = [r \in Requests |-> 0]
    /\ passed = 0

-----------------------------------------------------------------------------
(* The server and its clients *)

Accept(r, rt) ==
    /\ phase = "serving"
    /\ pc[r] = "off"
    /\ pc' = [pc EXCEPT ![r] = "accepted"]
    /\ route' = [route EXCEPT ![r] = rt]
    /\ gone' = [gone EXCEPT ![r] = FALSE]
    /\ status' = [status EXCEPT ![r] = "none"]
    /\ UNCHANGED <<phase, sema, clock, limiterVars>>

Disconnect(r) ==
    /\ pc[r] # "off"
    /\ ~gone[r]
    /\ gone' = [gone EXCEPT ![r] = TRUE]
    /\ UNCHANGED <<phase, pc, route, status, sema, clock, limiterVars>>

Tick ==
    /\ clock < MaxClock
    /\ clock' = clock + 1
    /\ UNCHANGED <<phase, pc, route, gone, status, sema, limiterVars>>

\* The handler of r returns with status s.
ReplyWith(r, s) ==
    /\ pc' = [pc EXCEPT ![r] = "off"]
    /\ status' = [status EXCEPT ![r] = s]

-----------------------------------------------------------------------------
(* Concurrency *)

Arrives(r, rt) == pc[r] = "accepted" /\ route[r] = rt

\* Slip: the channel has room for one more.
EnterOneMore(r) ==
    /\ Arrives(r, "search")
    /\ sema <= Limit
    /\ sema' = sema + 1
    /\ pc' = [pc EXCEPT ![r] = "inside"]
    /\ UNCHANGED <<phase, route, gone, status, clock, limiterVars>>

Enter(r) ==
    /\ Arrives(r, "search")
    /\ sema < Limit
    /\ sema' = sema + 1
    /\ pc' = [pc EXCEPT ![r] = "inside"]
    /\ UNCHANGED <<phase, route, gone, status, clock, limiterVars>>

\* The channel is full and the select takes its default.
Busy(r) ==
    /\ Arrives(r, "search")
    /\ sema >= Limit
    /\ ReplyWith(r, "busy")
    /\ UNCHANGED <<phase, route, gone, sema, clock, limiterVars>>

-----------------------------------------------------------------------------
(* Rate: Wait of the limiter *)

\* Slip: every request has a limiter of its own.
PassFresh(r) ==
    /\ Arrives(r, "isearch")
    /\ ~Done(r)
    /\ due' = clock + Interval
    /\ passed' = passed + 1
    /\ pc' = [pc EXCEPT ![r] = "inside"]
    /\ UNCHANGED <<phase, route, gone, status, sema, clock, slot>>

\* There is a token.
Pass(r) ==
    /\ Arrives(r, "isearch")
    /\ ~Done(r)
    /\ due <= clock
    /\ due' = clock + Interval
    /\ passed' = passed + 1
    /\ pc' = [pc EXCEPT ![r] = "inside"]
    /\ UNCHANGED <<phase, route, gone, status, sema, clock, slot>>

\* There is none: the request takes the next that is free, and waits.
Reserve(r) ==
    /\ Arrives(r, "isearch")
    /\ ~Done(r)
    /\ clock < due /\ due <= MaxClock
    /\ slot' = [slot EXCEPT ![r] = due]
    /\ due' = due + Interval
    /\ pc' = [pc EXCEPT ![r] = "wait"]
    /\ UNCHANGED <<phase, route, gone, status, sema, clock, passed>>

TurnComes(r) ==
    /\ pc[r] = "wait"
    /\ slot[r] <= clock
    /\ slot' = [slot EXCEPT ![r] = 0]
    /\ passed' = passed + 1
    /\ pc' = [pc EXCEPT ![r] = "inside"]
    /\ UNCHANGED <<phase, route, gone, status, sema, clock, due>>

\* The context is done before Wait, or in it; then the token goes back if
\* it is still to come and is the last one taken.
Refuse(r) ==
    /\ Arrives(r, "isearch")
    /\ Done(r)
    /\ ReplyWith(r, "down")
    /\ UNCHANGED <<phase, route, gone, sema, clock, limiterVars>>

Leave(r) ==
    /\ pc[r] = "wait"
    /\ Done(r)
    /\ due' = IF slot[r] + Interval = due /\ clock <= slot[r]
              THEN slot[r] ELSE due
    /\ slot' = [slot EXCEPT ![r] = 0]
    /\ ReplyWith(r, "down")
    /\ UNCHANGED <<phase, route, gone, sema, clock, passed>>

-----------------------------------------------------------------------------
(* The handlers *)

\* Slip: the slot is not given back when the client has left.
ReleaseUnlessGone(r) ==
    IF route[r] = "search" /\ ~gone[r] THEN sema - 1 ELSE sema

\* The deferred receive of Concurrency; Rate has none.
Release(r) == IF route[r] = "search" THEN sema - 1 ELSE sema

\* What Search and ISearch of the client come back with: comics, NotFound,
\* or any other error of the call, a context that is done among them.  A
\* phrase or a limit that is wrong is answered like NotFound, with a 4xx.
Answers == {"ok", "bad", "error"}

Answer(r, s) ==
    /\ pc[r] = "inside"
    /\ s = "ok" => ~Done(r)
    /\ ReplyWith(r, s)
    /\ sema' = Release(r)
    /\ UNCHANGED <<phase, route, gone, clock, limiterVars>>

-----------------------------------------------------------------------------
(* The end of the server *)

Signal ==
    /\ phase = "serving"
    /\ phase' = "draining"
    /\ UNCHANGED <<pc, route, gone, status, sema, clock, limiterVars>>

\* Shutdown returns when no handler runs, or after its timeout; then the
\* process ends, and takes the handlers that still run with it.
Drained ==
    /\ phase = "draining"
    /\ \A r \in Requests : pc[r] = "off"
    /\ phase' = "stopped"
    /\ UNCHANGED <<pc, route, gone, status, sema, clock, limiterVars>>

DrainTimeout ==
    /\ phase = "draining"
    /\ \E r \in Requests : pc[r] # "off"
    /\ phase' = "stopped"
    /\ pc' = [r \in Requests |-> "off"]
    /\ status' = [r \in Requests |->
                    IF pc[r] = "off" THEN status[r] ELSE "lost"]
    /\ sema' = 0
    /\ slot' = [r \in Requests |-> 0]
    /\ UNCHANGED <<route, gone, clock, due, passed>>

-----------------------------------------------------------------------------
Begin(r) == Enter(r) \/ Busy(r) \/ Pass(r) \/ Reserve(r) \/ Refuse(r)

Handle(r) ==
    Begin(r) \/ TurnComes(r) \/ Leave(r) \/ \E s \in Answers : Answer(r, s)

Next ==
    \/ \E r \in Requests :
        (\E rt \in Routes : Accept(r, rt)) \/ Disconnect(r) \/ Handle(r)
    \/ Tick \/ Signal \/ Drained \/ DrainTimeout

Spec == Init /\ [][Next]_vars

\* Handlers are scheduled, the wait in the limiter ends with its context,
\* and so does a call of the search service.  Nothing is assumed of a call
\* whose context is alive, of the clients, or of the timeout.
Fairness ==
    /\ \A r \in Requests :
        /\ WF_vars(Begin(r))
        /\ WF_vars(Leave(r))
        /\ WF_vars(Done(r) /\ Answer(r, "error"))
    /\ WF_vars(Drained)

FairSpec == Spec /\ Fairness

-----------------------------------------------------------------------------
(* Properties *)

\* Types; the channel never holds more than it has room for, and no token of
\* the limiter is held by two requests.
TypeOK ==
    /\ phase \in {"serving", "draining", "stopped"}
    /\ pc \in [Requests -> {"off", "accepted", "wait", "inside"}]
    /\ route \in [Requests -> Routes]
    /\ gone \in [Requests -> BOOLEAN]
    /\ status \in [Requests -> Statuses]
    /\ sema \in 0..Limit
    /\ clock \in 0..MaxClock
    /\ due \in Nat
    /\ slot \in [Requests -> Nat]
    /\ \A r, q \in Waiting : slot[r] = slot[q] => r = q
    /\ passed \in Nat

\* A request that waits for the limiter is like one that has just come.
States ==
    [r \in Requests |-> IF pc[r] \in {"accepted", "wait"} THEN "asked"
                                                          ELSE pc[r]]

Promise == INSTANCE Gateway WITH state <- States

\* Seen from outside the server is the gateway of Gateway: a search is refused
\* for want of a slot only while Limit others are in their handlers, whatever
\* way a handler ends, and an index search that finds no token, or returns
\* one, is only late (concurrency.go:10-16, rate.go:11-19).
ImplementsGateway == Promise!Spec

\* However the clients come, wait and leave, the limiter has never let more
\* index searches in than one at the start and one per interval
\* (rate.go:11-19).
RateIsKept == passed * Interval <= clock + Interval

\* After the signal the server ends although the search service hangs and
\* whatever the timeout of Shutdown is: every handler that waits, for the
\* limiter or for an answer, sees its context done (main.go:86-110).
Drains == phase = "draining" ~> phase = "stopped"

=============================================================================
