----------------------------- MODULE SearchPage -----------------------------
(***************************************************************************)
(* The search page of the frontend on top of SearchGate: the handler of    *)
(* GET /search in frontend/adapters/handlers/search.go and Search of       *)
(* frontend/adapters/client/client.go, the only client of /api/isearch in  *)
(* the repository.  Each visit is one request to the API server, given up  *)
(* after the timeout of the client or when the visitor leaves, and its     *)
(* status becomes what the page shows.  /api/search keeps its own clients. *)
(***************************************************************************)
EXTENDS SearchGate

VARIABLE page   \* what each visitor sees: "none", "asked", or the outcome

allVars == <<vars, page>>

Messages == {"found", "limited", "error"}

PageInit == Init /\ page = [r \in Requests |-> "none"]

Shows(r, m) == page' = [page EXCEPT ![r] = m]

-----------------------------------------------------------------------------
\* Search sends the request; one that finds no server is an error at once.
Ask(r) ==
    /\ page[r] # "asked"
    /\ \/ Accept(r, "isearch") /\ Shows(r, "asked")
       \/ phase # "serving" /\ Shows(r, "error") /\ UNCHANGED vars

\* Slip: every 5xx is taken for the refusal of the limiter.
MessageOfAny5xx(s) ==
    CASE s = "ok" -> "found"
      [] s \in {"down", "error"} -> "limited"
      [] OTHER -> "error"

\* 503 is ErrRateLimited to the client, and errorMessage asks the visitor to
\* wait; everything else but 200 is an error.
Message(s) ==
    CASE s = "ok" -> "found"
      [] s \in {"down", "busy"} -> "limited"
      [] OTHER -> "error"

Receive(r) ==
    /\ page[r] = "asked"
    /\ pc[r] = "off"
    /\ Shows(r, Message(status[r]))
    /\ UNCHANGED vars

\* The timeout of the client, or the context of the visitor's own request.
GiveUp(r, m) ==
    /\ page[r] = "asked"
    /\ Disconnect(r)
    /\ Shows(r, m)

-----------------------------------------------------------------------------
\* The requests of visitors come and leave by Ask and GiveUp only.
Elsewhere(r) == page[r] # "asked" /\ (Accept(r, "search") \/ Disconnect(r))

PageNext ==
    \/ \E r \in Requests :
        \/ Ask(r) \/ Receive(r)
        \/ GiveUp(r, "error") \/ GiveUp(r, "none")
    \/ /\ \/ \E r \in Requests : Elsewhere(r) \/ Handle(r)
          \/ Tick \/ Signal \/ Drained \/ DrainTimeout
       /\ UNCHANGED page

PageSpec     == PageInit /\ [][PageNext]_allVars
PageFairSpec == PageSpec /\ Fairness

-----------------------------------------------------------------------------
(* Properties *)

\* Types, those of the gate included; a page that is asked for has a
\* connection of its own to the API, which no page has left
\* (client.go:53-69).
PageTypeOK ==
    /\ TypeOK
    /\ page \in [Requests -> Messages \cup {"none", "asked"}]
    /\ \A r \in Requests : page[r] = "asked" =>
        route[r] = "isearch" /\ ~gone[r]
            /\ (pc[r] = "off" => status[r] # "none")

\* A visitor is asked to wait because of too many requests only when the API
\* server is going down: the rate delays a visit and never refuses it, the
\* refusals that the limiter does write go to nobody, and a failure of the
\* search service is not taken for one (client.go:71-77, rate.go:13-18).
WaitMeansDown ==
    \A r \in Requests : page[r] = "limited" => phase # "serving"

=============================================================================
