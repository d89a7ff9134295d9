---------------------------- MODULE AdminSession ---------------------------
(***************************************************************************)
(* The admin page: one browser document, the handlers of the frontend      *)
(* (adapters/handlers/admin.go) and their client (adapters/client), the    *)
(* Auth middleware of the API server with its tokens (adapters/aaa), and   *)
(* the one job the update service runs at a time.                          *)
(*                                                                         *)
(* Each element of the page that sends requests has at most one in flight. *)
(* A handler makes its calls one by one with the token of the cookie its   *)
(* request came with, and any of them can fail or exceed the timeout of    *)
(* the client.  A token is a JWT and stands here for the time it expires.  *)
(* Answers arrive in any order.  A redirect makes the browser leave the    *)
(* document: it drops every request in flight, which cancels the calls     *)
(* made for it down to the job.  The API server checks the token of a      *)
(* command and then calls the update service, which takes the call some    *)
(* time later, also when the token has expired or nobody waits any more.   *)
(***************************************************************************)
EXTENDS Naturals, FiniteSets

CONSTANTS
    Pollers,    \* regions of the panel that refresh themselves
    TTL,        \* TOKEN_TTL in ticks
    MaxClock,   \* bound: ticks
    MaxAtOnce,  \* bound: requests of the user in flight
    MaxStray    \* bound: calls of the update service that nobody waits for

ASSUME PollersAssumption ==
    /\ IsFiniteSet(Pollers)
    /\ Pollers \cap {"view", "login", "update", "drop", "idle", "orphan"} = {}
\* config.go refuses a negative TOKEN_TTL; with 0, which it accepts, no token
\* is ever valid, and that is left out.
ASSUME TTLAssumption == TTL \in Nat \ {0}
ASSUME BoundsAssumption ==
    MaxClock \in Nat /\ MaxAtOnce \in Nat /\ MaxStray \in Nat

VARIABLES
    clock,
    cookie,     \* admin_token of the browser
    page,       \* what the browser shows
    pc,         \* per element: where the handler of its request is
    token,      \* per element: the token of that request
    draft,      \* per element: the response so far
    fate,       \* history, per element: what became of the job it asked for
    job,        \* the element that waits for the running job, if any
    stray,      \* calls that still may reach the update service, of callers
                \* that have gone
    issued      \* history: the last token Login signed

vars == <<clock, cookie, page, pc, token, draft, fate, job, stray, issued>>

None     == 0
Tokens   == 1..(MaxClock + TTL)
Elements == {"view", "login", "update", "drop"} \cup Pollers
Pages    == {"home", "login", "panel", "loading"}
Jobs     == {"idle", "orphan", "update", "drop"}

Reads == {"stats", "ping", "status"}
Calls == Reads \cup {"poll", "update", "drop"}

\* "sent" is a command that Auth has let through, on its way to the service.
Places == Calls \cup {"off", "login", "sent", "job", "reply"}

\* Calls of loadAdminInfo in their order; a partial makes one.
After == [stats |-> "ping", ping |-> "status",
          status |-> "reply", poll |-> "reply"]

\* aaa.Verify accepts a token before it expires.
Valid(t) == clock < t

\* "same" replaces an element and not the page; "redirect" is HX-Redirect.
Blank == [page |-> "login", cookies |-> {}, err |-> FALSE]

Drafts == [page : {"login", "panel", "same", "redirect"},
           cookies : SUBSET ({None} \cup Tokens), err : BOOLEAN]

\* The cookie once the browser has read the Set-Cookie headers of d.
Stored(d) == IF d.cookies = {} THEN cookie ELSE CHOOSE c \in d.cookies : TRUE

\* The requests of the elements S are gone: their context is cancelled, and
\* the job one of them waited for runs on, to its end, for nobody.
Abandon(S) == IF job \in S THEN "orphan" ELSE job

\* A cancellation may overtake a call of the update service or not; a
\* command that Auth has not seen yet may have passed it by then.
MayStray(e) ==
    pc[e] = "sent" \/ (pc[e] \in {"update", "drop"} /\ Valid(token[e]))

Strays(S) ==
    {n \in 0..MaxStray :
        stray <= n /\ n <= stray + Cardinality({e \in S : MayStray(e)})}

Init ==
    /\ clock = 0 /\ cookie = None /\ page = "home"
    /\ pc = [e \in Elements |-> "off"]
    /\ token = [e \in Elements |-> None]
    /\ draft = [e \in Elements |-> Blank]
    /\ fate = [e \in Elements |-> "none"]
    /\ job = "idle" /\ stray = 0 /\ issued = None

-----------------------------------------------------------------------------
(* The browser *)

\* e sends a request with the cookie c, whose handler goes to at, or answers
\* with d when there is no cookie.
Send(e, at, d) ==
    /\ pc[e] = "off"
    /\ pc' = [pc EXCEPT ![e] = IF cookie = None THEN "reply" ELSE at]
    /\ token' = [token EXCEPT ![e] = cookie]
    /\ draft' = [draft EXCEPT ![e] = d]
    /\ fate' = [fate EXCEPT ![e] = "none"]
    /\ UNCHANGED <<clock, cookie, page, job, stray, issued>>

ToLogin == [Blank EXCEPT !.page = "redirect"]

UserHasRoom ==
    Cardinality({e \in Elements \ Pollers : pc[e] # "off"}) < MaxAtOnce

View ==
    /\ page # "loading"
    /\ UserHasRoom
    /\ Send("view", "stats", Blank)

Command(e) ==
    /\ page = "panel"
    /\ UserHasRoom
    /\ Send(e, e, IF cookie = None THEN ToLogin ELSE Blank)

Poll(p) ==
    /\ page = "panel"
    /\ Send(p, "poll", IF cookie = None THEN ToLogin ELSE Blank)

Login ==
    /\ page = "login"
    /\ UserHasRoom
    /\ pc["login"] = "off"
    /\ pc' = [pc EXCEPT !["login"] = "login"]
    /\ token' = [token EXCEPT !["login"] = None]
    /\ draft' = [draft EXCEPT !["login"] = Blank]
    /\ UNCHANGED <<clock, cookie, page, fate, job, stray, issued>>

\* The browser leaves the document for GET /admin, with the cookie c.
Navigate(c) ==
    /\ page' = "loading"
    /\ pc' = [e \in Elements |->
                IF e # "view" THEN "off"
                ELSE IF c = None THEN "reply" ELSE "stats"]
    /\ token' = [e \in Elements |-> IF e = "view" THEN c ELSE None]
    /\ draft' = [e \in Elements |-> Blank]
    /\ fate' = [e \in Elements |-> "none"]
    /\ job' = Abandon(Elements) /\ stray' \in Strays(Elements)

Reload ==
    /\ page # "loading"
    /\ Navigate(cookie)
    /\ UNCHANGED <<clock, cookie, issued>>

\* An answer arrives: the cookie first, then the redirect or the new page.
Deliver(e) ==
    /\ pc[e] = "reply"
    /\ cookie' = Stored(draft[e])
    /\ \/ /\ draft[e].page = "redirect"
          /\ Navigate(cookie')
       \/ /\ draft[e].page # "redirect"
          /\ page' = IF draft[e].page = "same" THEN page ELSE draft[e].page
          /\ pc' = [pc EXCEPT ![e] = "off"]
          /\ token' = [token EXCEPT ![e] = None]
          /\ draft' = [draft EXCEPT ![e] = Blank]
          /\ fate' = [fate EXCEPT ![e] = "none"]
          /\ UNCHANGED <<job, stray>>
    /\ UNCHANGED <<clock, issued>>

-----------------------------------------------------------------------------
(* The handlers of the frontend and what the API server answers them *)

\* The right password: the cookie is set whatever the calls that follow do.
Sign ==
    /\ pc["login"] = "login"
    /\ issued' = clock + TTL
    /\ token' = [token EXCEPT !["login"] = issued']
    /\ draft' = [draft EXCEPT !["login"].cookies = {issued'}]
    /\ pc' = [pc EXCEPT !["login"] = "stats"]
    /\ UNCHANGED <<clock, cookie, page, fate, job, stray>>

\* The wrong password, or no answer.
LoginFails ==
    /\ pc["login"] = "login"
    /\ pc' = [pc EXCEPT !["login"] = "reply"]
    /\ draft' = [draft EXCEPT !["login"].err = TRUE]
    /\ UNCHANGED <<clock, cookie, page, token, fate, job, stray, issued>>

\* A read the API server lets through and answers.
Read(e) ==
    /\ pc[e] \in Reads \cup {"poll"}
    /\ Valid(token[e])
    /\ pc' = [pc EXCEPT ![e] = After[pc[e]]]
    /\ draft' = [draft EXCEPT ![e].page =
                    CASE pc[e] = "status" -> "panel"
                      [] pc[e] = "poll"   -> "same"
                      [] OTHER            -> @]
    /\ UNCHANGED <<clock, cookie, page, token, fate, job, stray, issued>>

\* Auth lets a command through, and the handler calls the update service.
Admit(e) ==
    /\ pc[e] \in {"update", "drop"}
    /\ Valid(token[e])
    /\ pc' = [pc EXCEPT ![e] = "sent"]
    /\ UNCHANGED <<clock, cookie, page, token, draft, fate, job, stray, issued>>

\* Slip: 401 is shown like every other error.
UnauthorizedKept(e) ==
    IF pc[e] \in Reads THEN [draft[e] EXCEPT !.err = TRUE]
    ELSE [page |-> "same", cookies |-> {}, err |-> TRUE]

\* 401 to a call of e.  After a login the cookie stays.
Unauthorized(e) ==
    IF pc[e] \notin Reads THEN [ToLogin EXCEPT !.cookies = {None}]
    ELSE IF e = "login" THEN [draft[e] EXCEPT !.err = TRUE]
    ELSE [page |-> "login", cookies |-> {None}, err |-> TRUE]

Refuse(e) ==
    /\ pc[e] \in Calls
    /\ ~Valid(token[e])
    /\ draft' = [draft EXCEPT ![e] = Unauthorized(e)]
    /\ pc' = [pc EXCEPT ![e] = "reply"]
    /\ UNCHANGED <<clock, cookie, page, token, fate, job, stray, issued>>

\* Slip: every error clears the cookie.
FailedClears(e) == [draft[e] EXCEPT !.err = TRUE, !.cookies = {None}]

\* Slip: the client takes every other status of a command for a success.
FailedSilently(e) == [draft[e] EXCEPT !.err = pc[e] \notin {"update", "drop"}]

\* Another error, or the timeout of the client.  The error of a command is
\* kept while resolveAdminView goes on to the reads, an error of a read
\* yields the login form, and the cookie stays.
Failed(e) == [draft[e] EXCEPT !.err = TRUE,
                              !.page = IF pc[e] = "poll" THEN "same" ELSE @]

Fail(e) ==
    /\ pc[e] \in Calls \cup {"sent", "job"}
    /\ pc' = [pc EXCEPT ![e] = IF @ \in Reads \cup {"poll"} THEN "reply"
                                                          ELSE "stats"]
    /\ draft' = [draft EXCEPT ![e] = Failed(e)]
    /\ job' = Abandon({e}) /\ stray' \in Strays({e})
    /\ UNCHANGED <<clock, cookie, page, token, fate, issued>>

-----------------------------------------------------------------------------
(* The update service *)

\* Slip: the flag is set without a look at what it was.
BeginUnchecked(e) ==
    /\ pc[e] = "sent"
    /\ job' = e
    /\ pc' = [pc EXCEPT ![e] = "job"]
    /\ UNCHANGED <<clock, cookie, page, token, draft, fate, stray, issued>>

\* The call arrives and sets the flag.  Nobody looks at the token again.
Begin(e) ==
    /\ pc[e] = "sent"
    /\ job = "idle"
    /\ job' = e
    /\ pc' = [pc EXCEPT ![e] = "job"]
    /\ UNCHANGED <<clock, cookie, page, token, draft, fate, stray, issued>>

\* The flag is set already: 202 for an update and 409 for a drop, which the
\* client takes both for a success.
Conflict(e) ==
    /\ pc[e] = "sent"
    /\ job # "idle"
    /\ fate' = [fate EXCEPT ![e] = "busy"]
    /\ pc' = [pc EXCEPT ![e] = "stats"]
    /\ UNCHANGED <<clock, cookie, page, token, draft, job, stray, issued>>

\* A call that nobody waits for arrives: it sets the flag like any other, and
\* the job meets a context that is done, or finds the flag set.
StrayArrives ==
    /\ stray > 0
    /\ stray' = stray - 1
    /\ job' = IF job = "idle" THEN "orphan" ELSE job
    /\ UNCHANGED <<clock, cookie, page, pc, token, draft, fate, issued>>

\* The job of e ends and the call of e returns with it, or without its work.
JobDone(e) ==
    /\ job = e
    /\ job' = "idle"
    /\ fate' = [fate EXCEPT ![e] = "done"]
    /\ pc' = [pc EXCEPT ![e] = "stats"]
    /\ UNCHANGED <<clock, cookie, page, token, draft, stray, issued>>

JobFails(e) ==
    /\ job = e
    /\ job' = "idle"
    /\ draft' = [draft EXCEPT ![e].err = TRUE]
    /\ pc' = [pc EXCEPT ![e] = "stats"]
    /\ UNCHANGED <<clock, cookie, page, token, fate, stray, issued>>

\* The flag is given back a while after the caller has gone.
OrphanEnds ==
    /\ job = "orphan"
    /\ job' = "idle"
    /\ UNCHANGED <<clock, cookie, page, pc, token, draft, fate, stray, issued>>

Tick ==
    /\ clock < MaxClock
    /\ clock' = clock + 1
    /\ UNCHANGED <<cookie, page, pc, token, draft, fate, job, stray, issued>>

Next ==
    \/ View \/ Login \/ Reload
    \/ \E e \in {"update", "drop"} :
          \/ Command(e) \/ Admit(e) \/ Begin(e) \/ Conflict(e)
          \/ JobDone(e) \/ JobFails(e)
    \/ \E p \in Pollers : Poll(p)
    \/ Sign \/ LoginFails
    \/ \E e \in Elements : Read(e) \/ Refuse(e) \/ Fail(e) \/ Deliver(e)
    \/ StrayArrives \/ OrphanEnds \/ Tick

\* Fairness.  htmx polls on a timer and handles every answer it gets.  The
\* timeout of the client ends every call.  The API server refuses a poller
\* from time to time, however often its calls fail in between.
Fairness ==
    /\ \A p \in Pollers : WF_vars(Poll(p)) /\ SF_vars(Refuse(p))
    /\ \A e \in Elements :
          WF_vars(Read(e) \/ Refuse(e) \/ Fail(e)) /\ WF_vars(Deliver(e))

Spec == Init /\ [][Next]_vars
FairSpec == Spec /\ Fairness

-----------------------------------------------------------------------------
(* Properties *)

\* Every variable has its type, and a handler waits for a job exactly while
\* that job is its own (the context of admin.go reaches service.go).
TypeOK ==
    /\ clock \in 0..MaxClock /\ cookie \in {None} \cup Tokens
    /\ page \in Pages /\ job \in Jobs
    /\ pc \in [Elements -> Places]
    /\ token \in [Elements -> {None} \cup Tokens]
    /\ draft \in [Elements -> Drafts]
    /\ fate \in [Elements -> {"none", "busy", "done"}]
    /\ stray \in 0..MaxStray /\ issued \in {None} \cup Tokens
    /\ \A e \in Elements : pc[e] = "job" <=> job = e

\* Commands that Auth has let through and the service has not seen.
Admitted == {e \in Elements : pc[e] = "sent"}
Cleared  == Cardinality(Admitted) + stray

\* middleware/auth.go 21-26 and service.go 38-42: the token is checked before
\* the call and not where the flag is set, so a job can start after its token
\* has expired.  Once the last token has, only the commands that were let
\* through before can, each of them once, whoever waits for them, however
\* long they take and through whichever handler.
JobsAreAuthorised ==
    [][issued <= clock =>
        /\ Cleared' <= Cleared
        /\ job = "idle" /\ job' # "idle" => Cleared' < Cleared]_vars

Ends(d) == d.page = "redirect" \/ None \in d.cookies

\* admin.go 80-88, 98-107 and 197-206: an answer that ends the session, by
\* clearing the cookie or by the redirect that aborts whatever is in flight,
\* an update among it, is the answer to a request that carried no token, or
\* one that has expired since: never the consequence of a failed call.
OnlyExpiryEndsSession ==
    \A e \in Elements :
        pc[e] = "reply" /\ Ends(draft[e]) => token[e] <= clock

\* client.go 241-289 with admin.go 90-140: the panel without an error after
\* Update or Drop means that the job was done to its end, or that another was
\* running when it was asked for.
OkMeansDoneOrBusy ==
    \A e \in {"update", "drop"} :
        pc[e] = "reply" /\ draft[e].page = "panel" /\ ~draft[e].err
            => fate[e] \in {"done", "busy"}

\* admin.go 71-88: a panel left open after its token has expired, or whose
\* cookie another answer has cleared, ends at the login form.
PanelEnds ==
    page = "panel" /\ cookie <= clock ~> page = "login" \/ clock < cookie
=============================================================================
