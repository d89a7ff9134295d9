---------------------------- MODULE AtomicSearch ----------------------------
(***************************************************************************)
(* What the search service promises of ISearch: the index is replaced as a *)
(* whole by the rows of one List, and a call is answered in one instant    *)
(* from the index as it is then.  The lock, the two maps and the order in  *)
(* which a call reads them are not visible here.                           *)
(***************************************************************************)
EXTENDS Ranking

CONSTANTS
    Builders,       \* goroutines that call BuildIndex
    Readers,        \* calls of ISearch that may run at the same time
    Limits          \* the limits requests carry, 0 for none

VARIABLES
    table,      \* ids of the rows of the comics table
    rows,       \* ids that the last List of each builder returned
    building,   \* the builders that have listed and not yet replaced
    comics,     \* the comics of the index
    call,       \* where each call is
    limit,      \* the limit of its request
    query,      \* the keywords it was answered for
    answer      \* the ids it was answered with

tableVars == <<table, rows, building, comics>>
callVars == <<call, limit, query, answer>>
vars == <<tableVars, callVars>>

Init ==
    /\ table \in SUBSET Comics
    /\ rows = [b \in Builders |-> {}]
    /\ building = {}
    /\ comics = {}
    /\ call = [r \in Readers |-> "idle"]
    /\ limit = [r \in Readers |-> 0]
    /\ query = [r \in Readers |-> {}]
    /\ answer = [r \in Readers |-> <<>>]

Change ==
    /\ table' = {} \/ \E i \in Comics \ table : table' = table \cup {i}
    /\ UNCHANGED <<rows, building, comics, callVars>>

List(b) ==
    /\ b \notin building
    /\ building' = building \cup {b}
    /\ rows' = [rows EXCEPT ![b] = table]
    /\ UNCHANGED <<table, comics, callVars>>

Replace(b) ==
    /\ b \in building
    /\ building' = building \ {b}
    /\ comics' = rows[b]
    /\ UNCHANGED <<table, rows, callVars>>

Ask(r, l) ==
    /\ call[r] # "asked"
    /\ call' = [call EXCEPT ![r] = "asked"]
    /\ limit' = [limit EXCEPT ![r] = Effective(l)]
    /\ query' = [query EXCEPT ![r] = {}]
    /\ answer' = [answer EXCEPT ![r] = <<>>]
    /\ UNCHANGED tableVars

\* Any answer the reference allows over the index as it is.
Answer(r, q) ==
    /\ call[r] = "asked"
    /\ call' = [call EXCEPT ![r] = "answered"]
    /\ query' = [query EXCEPT ![r] = q]
    /\ answer' = [answer EXCEPT ![r] = answer'[r]]
    /\ IsAnswer(answer'[r], comics, q, limit[r])
    /\ UNCHANGED <<tableVars, limit>>

Fail(r) ==
    /\ call[r] = "asked"
    /\ call' = [call EXCEPT ![r] = "failed"]
    /\ UNCHANGED <<tableVars, limit, query, answer>>

Next ==
    \/ Change
    \/ \E b \in Builders : List(b) \/ Replace(b)
    \/ \E r \in Readers :
        \/ \E l \in Limits : Ask(r, l)
        \/ \E q \in SUBSET Keywords : Answer(r, q)
        \/ Fail(r)

Spec == Init /\ [][Next]_vars

=============================================================================
