---------------------------- MODULE TableSearch ----------------------------
(***************************************************************************)
(* Search of search/core/service.go: a phrase is normalised by the words   *)
(* service, the table is asked for every keyword in a statement of its     *)
(* own, the ids are ranked, and each comic of the answer is read in a      *)
(* statement of its own.  The update service inserts rows and truncates    *)
(* the table between any two statements.                                   *)
(***************************************************************************)
EXTENDS Ranking

CONSTANT Limits     \* the limits requests carry, 0 for none

\* The REST handler refuses a negative limit.
ASSUME LimitsAssumption == Limits \subseteq Nat

VARIABLES
    table,      \* ids of the rows of the comics table
    pc,         \* where the call is
    limit,      \* its limit
    query,      \* its keywords
    left,       \* those the table has not been asked for
    scores,
    sorted,     \* ids still to read
    result,     \* comics read
    stayed,     \* history: ids in the table all the time since the call began
    seen,       \* history: ids in the table some time since then
    dropped     \* history: the table was truncated since then

callVars == <<pc, limit, query, left, scores, sorted, result>>
tableVars == <<table, stayed, seen, dropped>>
vars == <<callVars, tableVars>>

Resting == {"idle", "done", "gone", "failed"}
Pcs == Resting \cup {"norm", "ask", "get"}

Init ==
    /\ table = {}
    /\ pc = "idle"
    /\ limit = 0
    /\ query = {} /\ left = {}
    /\ scores = Zero
    /\ sorted = <<>> /\ result = <<>>
    /\ stayed = {} /\ seen = {} /\ dropped = FALSE

-----------------------------------------------------------------------------
(* The update service, as the table sees it *)

Insert(i) ==
    /\ i \notin table
    /\ table' = table \cup {i}
    /\ seen' = seen \cup {i}
    /\ UNCHANGED <<stayed, dropped, callVars>>

Truncate ==
    /\ table' = {}
    /\ stayed' = {}
    /\ dropped' = TRUE
    /\ UNCHANGED <<seen, callVars>>

-----------------------------------------------------------------------------
(* A call of Search *)

\* Slip: the map of scores belongs to the service, not to the call.
BeginScoresKept(l) ==
    /\ pc \in Resting
    /\ pc' = "norm"
    /\ limit' = Effective(l)
    /\ query' = {} /\ left' = {}
    /\ sorted' = <<>> /\ result' = <<>>
    /\ stayed' = table /\ seen' = table /\ dropped' = FALSE
    /\ UNCHANGED <<table, scores>>

Begin(l) ==
    /\ pc \in Resting
    /\ pc' = "norm"
    /\ limit' = Effective(l)
    /\ query' = {} /\ left' = {}
    /\ scores' = Zero
    /\ sorted' = <<>> /\ result' = <<>>
    /\ stayed' = table /\ seen' = table /\ dropped' = FALSE
    /\ UNCHANGED table

\* The words service names each keyword of the phrase once, in any order.
NormOk(q) ==
    /\ pc = "norm"
    /\ pc' = "ask"
    /\ query' = q /\ left' = q
    /\ UNCHANGED <<limit, scores, sorted, result, tableVars>>

\* Slip: the keyword is asked for again.
AskAgain(k) ==
    /\ pc = "ask"
    /\ k \in left
    /\ scores' = Count(scores, Matching(table, k))
    /\ left' \in {left, left \ {k}}
    /\ UNCHANGED <<pc, limit, query, sorted, result, tableVars>>

Ask(k) ==
    /\ pc = "ask"
    /\ k \in left
    /\ scores' = Count(scores, Matching(table, k))
    /\ left' = left \ {k}
    /\ UNCHANGED <<pc, limit, query, sorted, result, tableVars>>

\* Slip: ids are cut to the limit before they are sorted.
RankCutFirst ==
    /\ pc = "ask"
    /\ left = {}
    /\ pc' = "get"
    /\ \E F \in SUBSET Found(scores) :
        /\ Cardinality(F) <= limit
        /\ Cardinality(F) = limit \/ F = Found(scores)
        /\ sorted' \in Sorts([i \in Comics |->
                                IF i \in F THEN scores[i] ELSE 0])
    /\ UNCHANGED <<limit, query, left, scores, result, tableVars>>

\* Slip: the limit is one too high.
RankOneMore ==
    /\ pc = "ask"
    /\ left = {}
    /\ pc' = "get"
    /\ \E s \in Sorts(scores) : sorted' = Cut(s, limit + 1)
    /\ UNCHANGED <<limit, query, left, scores, result, tableVars>>

Rank ==
    /\ pc = "ask"
    /\ left = {}
    /\ pc' = "get"
    /\ \E s \in Sorts(scores) : sorted' = Cut(s, limit)
    /\ UNCHANGED <<limit, query, left, scores, result, tableVars>>

GetOk ==
    /\ pc = "get"
    /\ sorted # <<>>
    /\ Head(sorted) \in table
    /\ result' = Append(result, Head(sorted))
    /\ sorted' = Tail(sorted)
    /\ UNCHANGED <<pc, limit, query, left, scores, tableVars>>

\* The row is no longer there: an error like any other for the caller.
GetGone ==
    /\ pc = "get"
    /\ sorted # <<>>
    /\ Head(sorted) \notin table
    /\ pc' = "gone"
    /\ UNCHANGED <<limit, query, left, scores, sorted, result, tableVars>>

\* The words service or the database fails, or the context is cancelled.
CallFail ==
    /\ \/ pc = "norm"
       \/ pc = "ask" /\ left # {}
       \/ pc = "get" /\ sorted # <<>>
    /\ pc' = "failed"
    /\ UNCHANGED <<limit, query, left, scores, sorted, result, tableVars>>

Return ==
    /\ pc = "get"
    /\ sorted = <<>>
    /\ pc' = "done"
    /\ UNCHANGED <<limit, query, left, scores, sorted, result, tableVars>>

Next ==
    \/ (\E i \in Comics : Insert(i)) \/ Truncate
    \/ \E l \in Limits : Begin(l)
    \/ \E q \in SUBSET Keywords : NormOk(q)
    \/ \E k \in Keywords : Ask(k)
    \/ Rank \/ GetOk \/ GetGone \/ CallFail \/ Return

Spec == Init /\ [][Next]_vars

-----------------------------------------------------------------------------
(* Properties *)

\* Types; no comic is counted more often than keywords have been asked for,
\* and what stayed is in the table, and was seen.
TypeOK ==
    /\ table \in SUBSET seen /\ seen \in SUBSET Comics
    /\ stayed \in SUBSET table
    /\ dropped \in BOOLEAN
    /\ pc \in Pcs
    /\ limit \in Nat
    /\ query \in SUBSET Keywords /\ left \in SUBSET query
    /\ scores \in [Comics -> 0..Cardinality(query \ left)]
    /\ sorted \in Seq(Comics) /\ result \in Seq(Comics)

\* An answer holds at most as many comics as the request allows, none of
\* them twice, and each of them was in the table some time during the call
\* and has a keyword of the phrase (search/core/service.go:115-148).
AnswerIsSound ==
    pc = "done" =>
        /\ Len(result) <= limit
        /\ IsInjective(result)
        /\ Range(result) \subseteq Relevant(seen, query)

\* The statements of one search see different tables, and yet no comic that
\* was in the table all the time is passed over for a worse one, in the
\* answer or by the cut to the limit (search/core/service.go:116-135).
BestFirst ==
    pc = "done" =>
        /\ \A a, b \in DOMAIN result :
            a < b /\ result[b] \in stayed =>
                Relevance(query, result[a]) >= Relevance(query, result[b])
        /\ \A i \in Relevant(stayed, query) \ Range(result) :
            /\ Len(result) = limit
            /\ \A a \in DOMAIN result :
                Relevance(query, result[a]) >= Relevance(query, i)

\* A search meets a row that is gone only if the table was truncated while
\* it ran: the ids it ranks are of this call, and nothing else removes a row
\* (search/core/service.go:139-143).
GoneOnlyByDrop == pc = "gone" => dropped

=============================================================================
