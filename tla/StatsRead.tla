----------------------------- MODULE StatsRead -----------------------------
(***************************************************************************)
(* Stats of update/core/service.go and of update/adapters/db/storage.go,   *)
(* on top of UpdateService: three statements over the comics table and a   *)
(* question to xkcd, one after the other, while jobs of the same service   *)
(* change the table, late statements are executed and xkcd publishes.      *)
(* Stats does not look at the running flag.                                *)
(***************************************************************************)
EXTENDS UpdateService

CONSTANTS
    Words,      \* normal forms of words
    WordsOf     \* the keywords of each comic

ASSUME WordsAssumption ==
    IsFiniteSet(Words) /\ WordsOf \in [IDs -> SUBSET Words]

VARIABLES
    asking,         \* the statement the call is about to make
    stats,          \* the ServiceStats the call fills
    stayed,         \* history: rows in the table since the call began
    seen            \* history: rows in the table some time since then

statsVars == <<vars, asking, stats, stayed, seen>>

NoStats == [comicsFetched |-> 0, wordsTotal |-> 0, wordsUnique |-> 0,
            comicsTotal |-> 0]

Resting == {"idle", "done", "failed"}
Reads   == {"count", "sum", "distinct", "total"}

\* What the statements over a table of the rows T return.  Norm names each
\* keyword of a comic once, so the lengths of the arrays add up to the
\* number of pairs of a row and a keyword of it; over no rows coalesce
\* makes that 0.
WordsTotal(T)  == Cardinality({p \in T \X Words : p[2] \in WordsOf[p[1]]})
WordsUnique(T) == Cardinality(UNION {WordsOf[i] : i \in T})

StatsInit ==
    /\ Init
    /\ asking = "idle"
    /\ stats = NoStats
    /\ stayed = {} /\ seen = {}

-----------------------------------------------------------------------------
(* The rest of the service, and xkcd *)

\* A call that is under way when the process dies has failed.
Serve ==
    /\ Next
    /\ stayed' = stayed \cap db' /\ seen' = seen \cup db'
    /\ asking' = IF Crash /\ asking \in Reads THEN "failed" ELSE asking
    /\ UNCHANGED stats

-----------------------------------------------------------------------------
(* A call of Stats *)

\* Slip: xkcd is asked before the table is.
OrderTotalFirst ==
    [idle |-> "total", total |-> "count", count |-> "sum",
     sum |-> "distinct", distinct |-> "done"]

\* What the call does after each of its reads.
Order ==
    [idle |-> "count", count |-> "sum", sum |-> "distinct",
     distinct |-> "total", total |-> "done"]

Begin ==
    /\ asking \in Resting
    /\ asking' = Order["idle"]
    /\ stats' = NoStats
    /\ stayed' = db /\ seen' = db

\* A read that takes effect now and sets one of the numbers.
Read(what) ==
    /\ asking = what
    /\ asking' = Order[what]
    /\ UNCHANGED <<stayed, seen>>

CountRows ==
    /\ Read("count")
    /\ stats' = [stats EXCEPT !.comicsFetched = Cardinality(db)]

SumWords ==
    /\ Read("sum")
    /\ stats' = [stats EXCEPT !.wordsTotal = WordsTotal(db)]

CountWords ==
    /\ Read("distinct")
    /\ stats' = [stats EXCEPT !.wordsUnique = WordsUnique(db)]

\* Slip: the first id that is not published yet.
TotalReplyOffByOne ==
    /\ Read("total")
    /\ stats' = [stats EXCEPT !.comicsTotal = latest + 1]

TotalReply ==
    /\ Read("total")
    /\ stats' = [stats EXCEPT !.comicsTotal = latest]

\* Slip: the error of a statement is not looked at.
FailIgnored ==
    /\ asking \in Reads
    /\ asking' = Order[asking]
    /\ UNCHANGED <<stats, stayed, seen>>

\* Any of the four fails, and with it the call.
Fail ==
    /\ asking \in Reads
    /\ asking' = "failed"
    /\ UNCHANGED <<stats, stayed, seen>>

StatsStep ==
    Begin \/ CountRows \/ SumWords \/ CountWords \/ TotalReply \/ Fail

StatsNext == Serve \/ (StatsStep /\ UNCHANGED vars)

StatsSpec == StatsInit /\ [][StatsNext]_statsVars

-----------------------------------------------------------------------------
(* Properties *)

\* Types; and nothing is stored or counted that is not published.
StatsTypeOK ==
    /\ seen \in SUBSET (1..latest)
    /\ db \in SUBSET seen
    /\ stayed \in SUBSET db
    /\ asking \in Resting \cup Reads
    /\ stats \in [comicsFetched : 0..latest, comicsTotal : 0..latest,
                  wordsTotal : 0..(MaxID * Cardinality(Words)),
                  wordsUnique : 0..Cardinality(Words)]

\* The reply never shows more comics stored than comics there are, whatever
\* is published and stored between its reads: the table is counted before
\* xkcd is asked (service.go:149-164).
FetchedWithinTotal ==
    asking = "done" => stats.comicsFetched <= stats.comicsTotal

\* Each number of a reply is one the table justified during the call: it
\* lies between its value over the rows that stayed and its value over all
\* that were there, and no number is left at zero by a failure
\* (storage.go:43-67).
StatsAreCurrent ==
    asking = "done" =>
        /\ Cardinality(stayed) <= stats.comicsFetched
        /\ stats.comicsFetched <= Cardinality(seen)
        /\ WordsTotal(stayed) <= stats.wordsTotal
        /\ stats.wordsTotal <= WordsTotal(seen)
        /\ WordsUnique(stayed) <= stats.wordsUnique
        /\ stats.wordsUnique <= WordsUnique(seen)

=============================================================================
