--------------------------- MODULE UpdateService ---------------------------
(***************************************************************************)
(* The update service: update/core/service.go with the storage and the     *)
(* notifier it calls.  Several callers (gRPC handlers) call Update and     *)
(* Drop at the same time; an atomic flag admits one job; a job of Update   *)
(* feeds the ids missing from the comics table to a pool of workers over   *)
(* an unbuffered channel, and publishes a notification at its end.         *)
(*                                                                         *)
(* A comic is its id: the url and the words of a row are left out.  A      *)
(* call to a port (xkcd, words, the database, NATS) is one action at the   *)
(* moment it takes effect, and may succeed or fail at any time, whether    *)
(* or not the context of the call is cancelled.                            *)
(***************************************************************************)
EXTENDS Naturals, FiniteSets

CONSTANTS
    Callers,    \* concurrent calls of Update or Drop, one handler each
    Workers,    \* the goroutines of one runWorkers, s.concurrency of them
    MaxID,      \* bound: the last comic xkcd publishes
    NotFound    \* ids for which xkcd answers 404 although later ids exist

ASSUME MaxIDAssumption == MaxID \in Nat
ASSUME NotFoundAssumption == NotFound \subseteq 1..MaxID
\* NewService refuses a concurrency below one (service.go:25-27).
ASSUME WorkersAssumption == Workers # {} /\ IsFiniteSet(Workers)

IDs == 1..MaxID

VARIABLES
    running,    \* Service.running, the atomic flag
    pc,         \* where each caller is in Update or Drop
    cancelled,  \* ctx.Err() # nil for the context of the call
    lastID,     \* the last comic id the job was told
    todo,       \* the missing ids the feeder has not sent yet
    wpc,        \* where each worker of each caller is
    wid,        \* the id each worker is processing
    result,     \* the return path the call took
    db,         \* ids of the rows of the comics table
    orphans,    \* statements whose call has failed or died but which the
                \* database may still execute: the id of an INSERT, or
                \* TruncateStmt
    latest,     \* the last comic xkcd has published
    failed,     \* history: ids whose error a worker logged, per call
    late,       \* history: ids that an orphan has put into or taken out of
                \* the table since the last job began
    announced,  \* history: the table at the last published notification
    silent      \* history: since then a job that may have changed the table
                \* has ended without publishing one, or an orphan has

vars == <<running, pc, cancelled, lastID, todo, wpc, wid, result, db,
          orphans, latest, failed, late, announced, silent>>

callVars == <<running, pc, cancelled, lastID, todo, result>>
poolVars == <<wpc, wid, failed>>
tellVars == <<announced, silent>>
lateVars == <<orphans, late>>

UpdatePcs == {"lastID", "ids", "feed", "wait", "notify"}
DropPcs   == {"drop", "dropNotify"}
\* Where a job may have changed the table and has not said so yet.
WritingPcs == {"feed", "wait", "notify", "dropNotify"}
JobPcs    == UpdatePcs \cup DropPcs \cup {"release"}
Results   == {"none", "updated", "upToDate", "dropped", "alreadyExists",
              "ctxErr", "error", "lost"}

TruncateStmt == 0

Busy == {"get", "norm", "add"}

\* The ids the workers of c are processing, and those they are inserting.
Held(c)      == {wid[c][w] : w \in {v \in Workers : wpc[c][v] \in Busy}}
Inserting(c) == {wid[c][w] : w \in {v \in Workers : wpc[c][v] = "add"}}

\* The feeder sends the ids in increasing order.
Next1(S) == CHOOSE i \in S : \A j \in S : i <= j

-----------------------------------------------------------------------------
Init ==
    /\ running = FALSE
    /\ pc = [c \in Callers |-> "idle"]
    /\ cancelled = [c \in Callers |-> FALSE]
    /\ lastID = [c \in Callers |-> 0]
    /\ todo = [c \in Callers |-> {}]
    /\ wpc = [c \in Callers |-> [w \in Workers |-> "done"]]
    /\ wid = [c \in Callers |-> [w \in Workers |-> 0]]
    /\ result = [c \in Callers |-> "none"]
    /\ db = {}
    /\ orphans = {}
    /\ late = {}
    /\ latest \in 0..MaxID
    /\ failed = [c \in Callers |-> {}]
    /\ announced = {}
    /\ silent = FALSE

\* Slip: the flag is set without looking at it.
NewCallUnchecked(c, first) ==
    /\ pc[c] = "idle"
    /\ running' = TRUE
    /\ pc' = [pc EXCEPT ![c] = first]
    /\ result' = [result EXCEPT ![c] = "none"]
    /\ late' = {}
    /\ UNCHANGED <<cancelled, lastID, todo, poolVars, db, orphans, latest,
                   tellVars>>

\* A fresh call.  Between calls a caller has no context and no variables:
\* Release and Crash put theirs back to the initial value.
NewCall(c, first) ==
    /\ pc[c] = "idle"
    /\ ~running
    /\ running' = TRUE
    /\ pc' = [pc EXCEPT ![c] = first]
    /\ result' = [result EXCEPT ![c] = "none"]
    /\ late' = {}
    /\ UNCHANGED <<cancelled, lastID, todo, poolVars, db, orphans, latest,
                   tellVars>>

\* Slip: Drop does not respect a running update.
DropStartUnchecked(c) == NewCallUnchecked(c, "drop")

\* The CompareAndSwap that admits the call.
UpdateStart(c) == NewCall(c, "lastID")
DropStart(c)   == NewCall(c, "drop")

\* The CompareAndSwap of either call that finds the flag set.
Reject(c) ==
    /\ pc[c] = "idle"
    /\ running
    /\ result' = [result EXCEPT ![c] = "alreadyExists"]
    /\ UNCHANGED <<running, pc, cancelled, lastID, todo, poolVars, db,
                   latest, tellVars, lateVars>>

\* The client goes away or the server is stopped: the context is done.
Cancel(c) ==
    /\ pc[c] # "idle"
    /\ ~cancelled[c]
    /\ cancelled' = [cancelled EXCEPT ![c] = TRUE]
    /\ UNCHANGED <<running, pc, lastID, todo, result, poolVars, db, latest,
                   tellVars, lateVars>>

\* The call of c returns along path r; the deferred Store is still to come.
ReturnWith(c, r) ==
    /\ pc' = [pc EXCEPT ![c] = "release"]
    /\ result' = [result EXCEPT ![c] = r]

-----------------------------------------------------------------------------
(* missingIDs *)

\* Slip: the range of ids is one too long.
LastIDReplyOffByOne(c) ==
    /\ pc[c] = "lastID"
    /\ lastID' = [lastID EXCEPT ![c] = latest + 1]
    /\ pc' = [pc EXCEPT ![c] = "ids"]
    /\ UNCHANGED <<running, cancelled, todo, result, poolVars, db, latest,
                   tellVars, lateVars>>

LastIDReply(c) ==
    /\ pc[c] = "lastID"
    /\ lastID' = [lastID EXCEPT ![c] = latest]
    /\ pc' = [pc EXCEPT ![c] = "ids"]
    /\ UNCHANGED <<running, cancelled, todo, result, poolVars, db, latest,
                   tellVars, lateVars>>

Missing(c) == (1..lastID[c]) \ db

\* The reply of db.IDs: nothing is missing and Update returns, or the
\* workers start and the feeder has all of the missing ids to send.
IDsReplyUpToDate(c) ==
    /\ pc[c] = "ids"
    /\ Missing(c) = {}
    /\ ReturnWith(c, "upToDate")
    /\ UNCHANGED <<running, cancelled, lastID, todo, poolVars, db, latest,
                   tellVars, lateVars>>

\* Slip: the ids that are stored already are not left out.
IDsReplyAll(c) ==
    /\ pc[c] = "ids"
    /\ Missing(c) # {}
    /\ todo' = [todo EXCEPT ![c] = 1..lastID[c]]
    /\ wpc' = [wpc EXCEPT ![c] = [w \in Workers |-> "recv"]]
    /\ pc' = [pc EXCEPT ![c] = "feed"]
    /\ UNCHANGED <<running, cancelled, lastID, result, wid, failed, db,
                   latest, tellVars, lateVars>>

IDsReplyMissing(c) ==
    /\ pc[c] = "ids"
    /\ Missing(c) # {}
    /\ todo' = [todo EXCEPT ![c] = Missing(c)]
    /\ wpc' = [wpc EXCEPT ![c] = [w \in Workers |-> "recv"]]
    /\ pc' = [pc EXCEPT ![c] = "feed"]
    /\ UNCHANGED <<running, cancelled, lastID, result, wid, failed, db,
                   latest, tellVars, lateVars>>

\* xkcd.LastID or db.IDs fails and Update returns the error.
MissingIDsFail(c) ==
    /\ pc[c] \in {"lastID", "ids"}
    /\ ReturnWith(c, "error")
    /\ UNCHANGED <<running, cancelled, lastID, todo, poolVars, db, latest,
                   tellVars, lateVars>>

-----------------------------------------------------------------------------
(* runWorkers: the feeder *)

\* The rendezvous on the unbuffered channel: the feeder's first id goes to
\* a worker that is receiving.
Send(c, w) ==
    /\ pc[c] = "feed"
    /\ todo[c] # {}
    /\ wpc[c][w] = "recv"
    /\ todo' = [todo EXCEPT ![c] = @ \ {Next1(todo[c])}]
    /\ wid' = [wid EXCEPT ![c][w] = Next1(todo[c])]
    /\ wpc' = [wpc EXCEPT ![c][w] = "get"]
    /\ UNCHANGED <<running, pc, cancelled, lastID, result, failed, db,
                   latest, tellVars, lateVars>>

\* close(ch) after the last id.
Close(c) ==
    /\ pc[c] = "feed"
    /\ todo[c] = {}
    /\ pc' = [pc EXCEPT ![c] = "wait"]
    /\ UNCHANGED <<running, cancelled, lastID, todo, result, poolVars, db,
                   latest, tellVars, lateVars>>

\* ctx.Done() is chosen by the select: the ids left are dropped.
Abort(c) ==
    /\ pc[c] = "feed"
    /\ todo[c] # {}
    /\ cancelled[c]
    /\ todo' = [todo EXCEPT ![c] = {}]
    /\ pc' = [pc EXCEPT ![c] = "wait"]
    /\ UNCHANGED <<running, cancelled, lastID, result, poolVars, db, latest,
                   tellVars, lateVars>>

\* Slip: the context is not looked at after an aborted feed.
WaitDoneCtxIgnored(c) ==
    /\ pc[c] = "wait"
    /\ \A w \in Workers : wpc[c][w] = "done"
    /\ pc' = [pc EXCEPT ![c] = "notify"]
    /\ UNCHANGED <<running, cancelled, lastID, todo, result, poolVars, db,
                   latest, tellVars, lateVars>>

\* Slip: no wg.Wait() before the notification.
WaitDoneEarly(c) ==
    /\ pc[c] = "wait"
    /\ ~cancelled[c]
    /\ pc' = [pc EXCEPT ![c] = "notify"]
    /\ UNCHANGED <<running, cancelled, lastID, todo, result, poolVars, db,
                   latest, tellVars, lateVars>>

\* wg.Wait() returns once every worker is done; then the context decides
\* whether Update notifies.
WaitDone(c) ==
    /\ pc[c] = "wait"
    /\ \A w \in Workers : wpc[c][w] = "done"
    /\ IF cancelled[c]
       THEN ReturnWith(c, "ctxErr") /\ silent' = TRUE
       ELSE /\ pc' = [pc EXCEPT ![c] = "notify"]
            /\ UNCHANGED <<result, silent>>
    /\ UNCHANGED <<running, cancelled, lastID, todo, poolVars, db, latest,
                   announced, lateVars>>

-----------------------------------------------------------------------------
(* runWorkers: a worker, one pass of processComicAdd per id *)

WorkerGoes(c, w, at, to) ==
    /\ wpc[c][w] = at
    /\ wpc' = [wpc EXCEPT ![c][w] = to]
    /\ wid' = IF to \in Busy THEN wid ELSE [wid EXCEPT ![c][w] = 0]
    /\ UNCHANGED <<callVars, latest, tellVars, late>>

GetOk(c, w) ==
    /\ wid[c][w] \notin NotFound
    /\ WorkerGoes(c, w, "get", "norm")
    /\ UNCHANGED <<failed, db, orphans>>

\* Slip: the worker returns on a comic that is not found.
GetSkipReturn(c, w) ==
    /\ wid[c][w] \in NotFound
    /\ WorkerGoes(c, w, "get", "done")
    /\ UNCHANGED <<failed, db, orphans>>

\* ErrNotFound: the worker skips the id and receives the next one.
GetSkip(c, w) ==
    /\ wid[c][w] \in NotFound
    /\ WorkerGoes(c, w, "get", "recv")
    /\ UNCHANGED <<failed, db, orphans>>

NormOk(c, w) ==
    /\ WorkerGoes(c, w, "norm", "add")
    /\ UNCHANGED <<failed, db, orphans>>

\* The error of a worker is logged; nothing else remembers it.
Logged(c, w) == failed' = [failed EXCEPT ![c] = @ \cup {wid[c][w]}]

CallFail(c, w) ==
    /\ \E at \in {"get", "norm"} : WorkerGoes(c, w, at, "recv")
    /\ Logged(c, w)
    /\ UNCHANGED <<db, orphans>>

\* INSERT of a new row.
AddOk(c, w) ==
    /\ WorkerGoes(c, w, "add", "recv")
    /\ wid[c][w] \notin db
    /\ db' = db \cup {wid[c][w]}
    /\ UNCHANGED <<failed, orphans>>

\* INSERT reports an error: the row is there, the statement was refused,
\* or the context or the connection died while the statement was on its way.
AddFail(c, w) ==
    /\ WorkerGoes(c, w, "add", "recv")
    /\ orphans' \in {orphans, orphans \cup {wid[c][w]}}
    /\ Logged(c, w)
    /\ UNCHANGED db

\* The range over the closed channel ends.
WorkerExit(c, w) ==
    /\ pc[c] = "wait"
    /\ WorkerGoes(c, w, "recv", "done")
    /\ UNCHANGED <<failed, db, orphans>>

-----------------------------------------------------------------------------
(* Drop, the notification and the return *)

\* Slip: Drop returns without a notification.
DropOkQuiet(c) ==
    /\ pc[c] = "drop"
    /\ db' = {}
    /\ ReturnWith(c, "dropped")
    /\ UNCHANGED <<running, cancelled, lastID, todo, poolVars, latest,
                   tellVars, lateVars>>

DropOk(c) ==
    /\ pc[c] = "drop"
    /\ db' = {}
    /\ pc' = [pc EXCEPT ![c] = "dropNotify"]
    /\ UNCHANGED <<running, cancelled, lastID, todo, result, poolVars,
                   latest, tellVars, lateVars>>

\* TRUNCATE reports an error: it was refused, or it is still on its way.
DropFail(c) ==
    /\ pc[c] = "drop"
    /\ orphans' \in {orphans, orphans \cup {TruncateStmt}}
    /\ ReturnWith(c, "error")
    /\ UNCHANGED <<running, cancelled, lastID, todo, poolVars, db, latest,
                   tellVars, late>>

NotifyReturn(c) ==
    /\ \/ pc[c] = "notify" /\ ReturnWith(c, "updated")
       \/ pc[c] = "dropNotify" /\ ReturnWith(c, "dropped")
    /\ UNCHANGED <<running, cancelled, lastID, todo, poolVars, db, latest,
                   lateVars>>

NotifyOk(c) ==
    /\ NotifyReturn(c)
    /\ announced' = db
    /\ silent' = FALSE

\* The error of Notify is logged and the call still succeeds.
NotifyFail(c) ==
    /\ NotifyReturn(c)
    /\ silent' = TRUE
    /\ UNCHANGED announced

\* defer s.running.Store(false)
Release(c) ==
    /\ pc[c] = "release"
    /\ running' = FALSE
    /\ pc' = [pc EXCEPT ![c] = "idle"]
    /\ cancelled' = [cancelled EXCEPT ![c] = FALSE]
    /\ lastID' = [lastID EXCEPT ![c] = 0]
    /\ failed' = [failed EXCEPT ![c] = {}]
    /\ UNCHANGED <<todo, result, wpc, wid, db, latest, tellVars, lateVars>>

-----------------------------------------------------------------------------
(* The environment *)

\* xkcd publishes the next comic.
Publish ==
    /\ latest < MaxID
    /\ latest' = latest + 1
    /\ UNCHANGED <<callVars, poolVars, db, tellVars, lateVars>>

\* The database executes a statement that nobody waits for any more.
LateInsert(i) ==
    /\ i \in orphans \ {TruncateStmt}
    /\ orphans' = orphans \ {i}
    /\ IF i \in db
       THEN UNCHANGED <<db, late, silent>>
       ELSE /\ db' = db \cup {i}
            /\ late' = late \cup {i}
            /\ silent' = TRUE
    /\ UNCHANGED <<callVars, poolVars, latest, announced>>

LateTruncate ==
    /\ TruncateStmt \in orphans
    /\ orphans' = orphans \ {TruncateStmt}
    /\ db' = {}
    /\ late' = late \cup db
    /\ silent' = TRUE
    /\ UNCHANGED <<callVars, poolVars, latest, announced>>

\* The statements in the hands of the database.
Sent == (UNION {Inserting(c) : c \in Callers})
            \cup {TruncateStmt : c \in {d \in Callers : pc[d] = "drop"}}

\* The process dies and starts again; the callers see their calls fail.
Crash ==
    /\ running
    /\ running' = FALSE
    /\ \E S \in SUBSET Sent : orphans' = orphans \cup S
    /\ pc' = [c \in Callers |-> "idle"]
    /\ result' = [c \in Callers |->
                    IF pc[c] = "idle" THEN result[c] ELSE "lost"]
    /\ cancelled' = [c \in Callers |-> FALSE]
    /\ lastID' = [c \in Callers |-> 0]
    /\ todo' = [c \in Callers |-> {}]
    /\ wpc' = [c \in Callers |-> [w \in Workers |-> "done"]]
    /\ wid' = [c \in Callers |-> [w \in Workers |-> 0]]
    /\ failed' = [c \in Callers |-> {}]
    /\ silent' = (silent \/ \E c \in Callers : pc[c] \in WritingPcs)
    /\ UNCHANGED <<db, latest, announced, late>>

-----------------------------------------------------------------------------
CallerStep(c) ==
    \/ LastIDReply(c) \/ IDsReplyUpToDate(c) \/ IDsReplyMissing(c)
    \/ MissingIDsFail(c)
    \/ Close(c) \/ Abort(c) \/ WaitDone(c)
    \/ DropOk(c) \/ DropFail(c)
    \/ NotifyOk(c) \/ NotifyFail(c) \/ Release(c)

WorkerStep(c, w) ==
    \/ Send(c, w) \/ GetOk(c, w) \/ GetSkip(c, w) \/ NormOk(c, w)
    \/ CallFail(c, w) \/ AddOk(c, w) \/ AddFail(c, w) \/ WorkerExit(c, w)

CallStart(c) == UpdateStart(c) \/ DropStart(c) \/ Reject(c) \/ Cancel(c)

Next ==
    \/ \E c \in Callers : CallStart(c) \/ CallerStep(c)
    \/ \E c \in Callers, w \in Workers : WorkerStep(c, w)
    \/ \E i \in IDs : LateInsert(i)
    \/ LateTruncate
    \/ Publish
    \/ Crash

Spec == Init /\ [][Next]_vars

\* Goroutines are scheduled, and every port call returns or fails.
Fairness ==
    \A c \in Callers :
        /\ WF_vars(CallerStep(c))
        /\ \A w \in Workers : WF_vars(WorkerStep(c, w))

FairSpec == Spec /\ Fairness

-----------------------------------------------------------------------------
(* Properties *)

CallTypes ==
    /\ running \in BOOLEAN
    /\ pc \in [Callers -> JobPcs \cup {"idle"}]
    /\ cancelled \in [Callers -> BOOLEAN]
    /\ lastID \in [Callers -> 0..MaxID]
    /\ todo \in [Callers -> SUBSET IDs]
    /\ result \in [Callers -> Results]

PoolTypes ==
    /\ wpc \in [Callers -> [Workers -> Busy \cup {"recv", "done"}]]
    /\ wid \in [Callers -> [Workers -> 0..MaxID]]
    /\ failed \in [Callers -> SUBSET IDs]

TableTypes ==
    /\ latest \in 0..MaxID
    /\ db \in SUBSET IDs
    /\ orphans \in SUBSET (IDs \cup {TruncateStmt})
    /\ late \in SUBSET IDs
    /\ announced \in SUBSET IDs
    /\ silent \in BOOLEAN

\* The state variables keep their types: in particular the table, the channel
\* and the workers only ever hold ids of comics.
TypeOK == CallTypes /\ PoolTypes /\ TableTypes

\* A call that has goroutines of its own: the handler or its workers.
Active(c) == pc[c] # "idle" \/ \E w \in Workers : wpc[c][w] # "done"

\* The flag admits one job at a time, whoever calls, and no worker outlives
\* the call that started it (service.go:39-42, 174-177, 114-121).
OneJob ==
    /\ \A c, d \in Callers : Active(c) /\ Active(d) => c = d
    /\ running = (\E c \in Callers : pc[c] # "idle")

\* No INSERT meets its own row, late statements apart: an id that is queued
\* or in a worker's hands is not in the table, and no two workers hold the
\* same id, although the list of missing ids was read long before
\* (service.go:74-90, 141; storage.go:34-38).
NoDuplicateInsert ==
    \A c \in Callers :
        /\ (todo[c] \cup Held(c)) \cap db \subseteq late
        /\ todo[c] \cap Held(c) = {}
        /\ \A v, w \in Workers :
            wpc[c][v] \in Busy /\ wpc[c][w] \in Busy /\ wid[c][v] = wid[c][w]
                => v = w

\* When an update is about to notify, every id up to the last one it was
\* told is stored, answers 404, or has had its error logged: the pool and
\* the feeder lose none, and nobody else takes rows away but a late TRUNCATE
\* (service.go:93-122).
AllAttempted ==
    \A c \in Callers :
        pc[c] = "notify" =>
            1..lastID[c] \subseteq db \cup failed[c] \cup NotFound \cup late

\* The notification of a Drop is sent while the table holds nothing but late
\* rows: no worker inserts between TRUNCATE and Notify (service.go:179-183).
DropIsClean == \A c \in Callers : pc[c] = "dropNotify" => db \subseteq late

\* With no job running, the subscribers have been told of the table as it is,
\* unless since the last notification a job that may have written has ended
\* without one (cancelled, Notify failed, crashed) or a late statement has
\* been executed (service.go:56-62, 179-185).
AnnouncedUnlessSilent == announced # db => running \/ silent

\* Every call that was admitted returns and gives the flag back: no feeder
\* waits for workers that have ended, no worker for a channel that is never
\* closed (service.go:97-121).
JobEnds == \A c \in Callers : pc[c] # "idle" ~> pc[c] = "idle"

\* What the service promises to the rest of the system.
Phase ==
    IF \E c \in Callers : pc[c] \in UpdatePcs THEN "update"
    ELSE IF \E c \in Callers : pc[c] \in DropPcs THEN "drop" ELSE "none"

Abstract == INSTANCE Catalogue WITH job <- Phase, owed <- orphans

\* Seen from outside, the service is the catalogue that Catalogue specifies:
\* jobs one at a time, rows added only by an update, the table emptied only
\* by a drop, and no job that ends while the subscribers are out of date
\* without being counted as silent (service.go:38-66, 173-188).
ImplementsCatalogue == Abstract!Spec

\* What tests/update_test.go:64 expects: an update that reports success
\* leaves in the table all comics but those that answer 404.
UpdateFetchesAll ==
    \A c \in Callers :
        pc[c] = "release" /\ result[c] = "updated"
            => (1..lastID[c]) \ NotFound \subseteq db

=============================================================================
