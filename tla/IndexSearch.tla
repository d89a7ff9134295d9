---------------------------- MODULE IndexSearch ----------------------------
(***************************************************************************)
(* ISearch and BuildIndex of search/core/service.go at the grain of their  *)
(* accesses to the two maps they share, under a sync.RWMutex.  A build     *)
(* reads the table without the lock, then replaces the maps one after the  *)
(* other; a search reads the index once for every keyword and the comics   *)
(* once for every id.                                                      *)
(*                                                                         *)
(* The RWMutex is modelled as Go documents it: a Lock that waits keeps     *)
(* later RLocks waiting, and an Unlock lets those in before the next Lock. *)
(***************************************************************************)
EXTENDS Ranking

CONSTANTS
    Builders,       \* goroutines that call BuildIndex
    Readers,        \* calls of ISearch that may run at the same time
    Limits,         \* the limits requests carry, 0 for none
    NoBuilder       \* the lock has no writer

ASSUME IndexAssumption ==
    /\ Limits \subseteq Nat
    /\ NoBuilder \notin Builders

VARIABLES
    table,      \* ids of the rows of the comics table
    index,      \* Service.index: the ids of each keyword
    comics,     \* Service.comics: the ids the map has a comic for
    writer,     \* RWMutex: the builder that waits for readers or writes
    active,     \* RWMutex: the readers that hold it
    parked,     \* RWMutex: the readers that wait for the writer
    bpc,        \* where each builder is
    rows,       \* ids its List returned
    rpc,        \* where each reader is
    limit, query, left, scores, sorted, result,     \* of each reader
    base        \* history: the comics at the RLock of each reader

lockVars == <<writer, active, parked>>
mapVars == <<index, comics>>
buildVars == <<bpc, rows>>
callVars == <<rpc, limit, query, left, scores, sorted, result, base>>
vars == <<table, lockVars, mapVars, buildVars, callVars>>

\* The index of BuildIndex: a keyword has an entry for each comic that has it.
IndexOf(T) == [k \in Keywords |-> Matching(T, k)]

Resting == {"idle", "done", "failed"}

Init ==
    /\ table \in SUBSET Comics
    /\ index = IndexOf({}) /\ comics = {}
    /\ writer = NoBuilder /\ active = {} /\ parked = {}
    /\ bpc = [b \in Builders |-> "wait"]
    /\ rows = [b \in Builders |-> {}]
    /\ rpc = [r \in Readers |-> "idle"]
    /\ limit = [r \in Readers |-> 0]
    /\ query = [r \in Readers |-> {}]
    /\ left = [r \in Readers |-> {}]
    /\ scores = [r \in Readers |-> Zero]
    /\ sorted = [r \in Readers |-> <<>>]
    /\ result = [r \in Readers |-> <<>>]
    /\ base = [r \in Readers |-> {}]

-----------------------------------------------------------------------------
(* The table *)

Insert(i) ==
    /\ i \notin table
    /\ table' = table \cup {i}
    /\ UNCHANGED <<lockVars, mapVars, buildVars, callVars>>

Truncate ==
    /\ table' = {}
    /\ UNCHANGED <<lockVars, mapVars, buildVars, callVars>>

-----------------------------------------------------------------------------
(* BuildIndex *)

At(b, from, to) == bpc[b] = from /\ bpc' = [bpc EXCEPT ![b] = to]

Start(b) ==
    /\ At(b, "wait", "list")
    /\ UNCHANGED <<table, lockVars, mapVars, rows, callVars>>

ListOk(b) ==
    /\ At(b, "list", "lock")
    /\ rows' = [rows EXCEPT ![b] = table]
    /\ UNCHANGED <<table, lockVars, mapVars, callVars>>

ListFail(b) ==
    /\ At(b, "list", "wait")
    /\ UNCHANGED <<table, lockVars, mapVars, rows, callVars>>

\* Lock, first half: no other writer, and readers that come now wait.
LockAsk(b) ==
    /\ At(b, "lock", "drain")
    /\ writer = NoBuilder
    /\ writer' = b
    /\ UNCHANGED <<table, active, parked, mapVars, rows, callVars>>

\* Lock, second half: the readers that hold the lock have left.
Locked(b) ==
    /\ At(b, "drain", "index")
    /\ active = {}
    /\ UNCHANGED <<table, lockVars, mapVars, rows, callVars>>

SetIndex(b) ==
    /\ At(b, "index", "comics")
    /\ index' = IndexOf(rows[b])
    /\ UNCHANGED <<table, comics, lockVars, rows, callVars>>

SetComics(b) ==
    /\ At(b, "comics", "unlock")
    /\ comics' = rows[b]
    /\ UNCHANGED <<table, index, lockVars, rows, callVars>>

\* Slip: a build of an empty table returns at once, with the lock.
UnlockForgotten(b) ==
    /\ At(b, "unlock", "wait")
    /\ IF rows[b] = {}
         THEN UNCHANGED lockVars
         ELSE writer' = NoBuilder /\ active' = parked /\ parked' = {}
    /\ UNCHANGED <<table, mapVars, rows, callVars>>

\* The readers that were kept waiting hold the lock now.
Unlock(b) ==
    /\ At(b, "unlock", "wait")
    /\ writer' = NoBuilder
    /\ active' = parked /\ parked' = {}
    /\ UNCHANGED <<table, mapVars, rows, callVars>>

-----------------------------------------------------------------------------
(* ISearch *)

Goes(r, from, to) == rpc[r] = from /\ rpc' = [rpc EXCEPT ![r] = to]

Begin(r, l) ==
    /\ rpc[r] \in Resting
    /\ rpc' = [rpc EXCEPT ![r] = "norm"]
    /\ limit' = [limit EXCEPT ![r] = Effective(l)]
    /\ query' = [query EXCEPT ![r] = {}]
    /\ left' = [left EXCEPT ![r] = {}]
    /\ scores' = [scores EXCEPT ![r] = Zero]
    /\ sorted' = [sorted EXCEPT ![r] = <<>>]
    /\ result' = [result EXCEPT ![r] = <<>>]
    /\ base' = [base EXCEPT ![r] = {}]
    /\ UNCHANGED <<table, lockVars, mapVars, buildVars>>

\* Norm answers with the keywords and the call asks for the lock.
NormOk(r, q) ==
    /\ Goes(r, "norm", "rlock")
    /\ query' = [query EXCEPT ![r] = q]
    /\ left' = [left EXCEPT ![r] = q]
    /\ IF writer = NoBuilder
         THEN active' = active \cup {r} /\ UNCHANGED parked
         ELSE parked' = parked \cup {r} /\ UNCHANGED active
    /\ UNCHANGED <<table, writer, mapVars, buildVars, limit, scores, sorted,
                   result, base>>

NormFail(r) ==
    /\ Goes(r, "norm", "failed")
    /\ UNCHANGED <<table, lockVars, mapVars, buildVars, limit, query, left,
                   scores, sorted, result, base>>

\* RLock returns.
RLocked(r) ==
    /\ r \in active
    /\ Goes(r, "rlock", "scan")
    /\ base' = [base EXCEPT ![r] = comics]
    /\ UNCHANGED <<table, lockVars, mapVars, buildVars, limit, query, left,
                   scores, sorted, result>>

Scan(r, k) ==
    /\ rpc[r] = "scan"
    /\ k \in left[r]
    /\ left' = [left EXCEPT ![r] = @ \ {k}]
    /\ scores' = [scores EXCEPT ![r] = Count(@, index[k])]
    /\ UNCHANGED <<table, lockVars, mapVars, buildVars, rpc, limit, query,
                   sorted, result, base>>

\* Slip: the lock is given back once the ids are known.
RankUnlocked(r) ==
    /\ Goes(r, "scan", "fetch")
    /\ left[r] = {}
    /\ \E s \in Sorts(scores[r]) :
        sorted' = [sorted EXCEPT ![r] = Cut(s, limit[r])]
    /\ active' = active \ {r}
    /\ UNCHANGED <<table, writer, parked, mapVars, buildVars, limit, query,
                   left, scores, result, base>>

Rank(r) ==
    /\ Goes(r, "scan", "fetch")
    /\ left[r] = {}
    /\ \E s \in Sorts(scores[r]) :
        sorted' = [sorted EXCEPT ![r] = Cut(s, limit[r])]
    /\ UNCHANGED <<table, lockVars, mapVars, buildVars, limit, query, left,
                   scores, result, base>>

\* An id the map has no comic for is passed over.
Fetch(r) ==
    /\ rpc[r] = "fetch"
    /\ sorted[r] # <<>>
    /\ sorted' = [sorted EXCEPT ![r] = Tail(@)]
    /\ result' = [result EXCEPT ![r] =
                    IF Head(sorted[r]) \in comics
                      THEN Append(@, Head(sorted[r])) ELSE @]
    /\ UNCHANGED <<table, lockVars, mapVars, buildVars, rpc, limit, query,
                   left, scores, base>>

\* Slip: an empty answer returns at once, with the lock.
RUnlockForgotten(r) ==
    /\ Goes(r, "fetch", "done")
    /\ sorted[r] = <<>>
    /\ active' = IF result[r] = <<>> THEN active ELSE active \ {r}
    /\ UNCHANGED <<table, writer, parked, mapVars, buildVars, limit, query,
                   left, scores, sorted, result, base>>

RUnlock(r) ==
    /\ Goes(r, "fetch", "done")
    /\ sorted[r] = <<>>
    /\ active' = active \ {r}
    /\ UNCHANGED <<table, writer, parked, mapVars, buildVars, limit, query,
                   left, scores, sorted, result, base>>

-----------------------------------------------------------------------------
\* The steps a builder takes by itself once it has been started.
BuildStep(b) ==
    ListOk(b) \/ ListFail(b) \/ LockAsk(b) \/ Locked(b) \/ SetIndex(b)
    \/ SetComics(b) \/ Unlock(b)

\* The steps a reader takes by itself once it holds the lock.
ReadStep(r) ==
    RLocked(r) \/ (\E k \in Keywords : Scan(r, k)) \/ Rank(r) \/ Fetch(r)
    \/ RUnlock(r)

Next ==
    \/ (\E i \in Comics : Insert(i)) \/ Truncate
    \/ \E b \in Builders : Start(b) \/ BuildStep(b)
    \/ \E r \in Readers :
        \/ \E l \in Limits : Begin(r, l)
        \/ \E q \in SUBSET Keywords : NormOk(r, q)
        \/ NormFail(r) \/ ReadStep(r)

Spec == Init /\ [][Next]_vars

\* The goroutines are scheduled.  Which of two builders gets the lock is up
\* to the mutex, which hands it to one that has waited long.
Fairness ==
    /\ \A b \in Builders : WF_vars(BuildStep(b)) /\ SF_vars(LockAsk(b))
    /\ \A r \in Readers : WF_vars(ReadStep(r))

FairSpec == Spec /\ Fairness

-----------------------------------------------------------------------------
(* Properties *)

Reading(r) == rpc[r] \in {"scan", "fetch"}
Writing(b) == bpc[b] \in {"index", "comics", "unlock"}

BuilderPcs ==
    {"wait", "list", "lock", "drain", "index", "comics", "unlock"}
ReaderPcs == Resting \cup {"norm", "rlock", "scan", "fetch"}

\* Types; the readers that hold the lock or wait for it are those that asked
\* and have not given it back.
TypeOK ==
    /\ table \in SUBSET Comics
    /\ index \in [Keywords -> SUBSET Comics] /\ comics \in SUBSET Comics
    /\ writer \in Builders \cup {NoBuilder}
    /\ active \cap parked = {}
    /\ active \cup parked =
        {r \in Readers : Reading(r) \/ rpc[r] = "rlock"}
    /\ bpc \in [Builders -> BuilderPcs]
    /\ rows \in [Builders -> SUBSET Comics]
    /\ rpc \in [Readers -> ReaderPcs]
    /\ limit \in [Readers -> Nat]
    /\ query \in [Readers -> SUBSET Keywords]
    /\ left \in [Readers -> SUBSET Keywords]
    /\ scores \in [Readers -> [Comics -> Nat]]
    /\ sorted \in [Readers -> Seq(Comics)]
    /\ result \in [Readers -> Seq(Comics)]
    /\ base \in [Readers -> SUBSET Comics]

\* Whoever reads finds the two maps of one build, and the same from its
\* RLock to its RUnlock (search/core/service.go:40-66, 97-100).
OneBuild ==
    \A r \in Readers : Reading(r) =>
        /\ base[r] = comics
        /\ index = IndexOf(comics)

\* An answer is the reference's for the comics of one build: no comic of it
\* is passed over because the map of comics is another build's.
AnswerOfOneBuild ==
    \A r \in Readers : rpc[r] = "done" =>
        IsAnswer(result[r], base[r], query[r], limit[r])

\* What shows from outside: the builders that have rows to install, and
\* where a call is, with its keywords and its ids once it is answered.
Building == {b \in Builders : bpc[b] \in {"lock", "drain", "index", "comics"}}

Shown(r) ==
    IF rpc[r] = "done" THEN "answered"
    ELSE IF rpc[r] \in Resting THEN rpc[r] ELSE "asked"

Calls   == [r \in Readers |-> Shown(r)]
Queries == [r \in Readers |-> IF rpc[r] = "done" THEN query[r] ELSE {}]
Answers == [r \in Readers |-> IF rpc[r] = "done" THEN result[r] ELSE <<>>]

Atomic == INSTANCE AtomicSearch WITH
    building <- Building, call <- Calls, query <- Queries, answer <- Answers

\* Searches and builds run at the same time, and it is as if each search read
\* the whole index at the moment it is answered: all its reads find one
\* build, the one installed then, every build is what one List returned, and
\* the answer is the reference's over it (search/core/service.go:40-66,
\* 97-100).
AnswersAtOnce == Atomic!Spec

\* Searches keep coming, and a build that has its rows still gets to replace
\* the maps: no search keeps the lock (search/core/service.go:66, 97).
BuildSwaps == \A b \in Builders : bpc[b] = "lock" ~> bpc[b] = "wait"

\* Builds keep coming, and a search that asked for the lock still answers: no
\* build keeps the lock (search/core/service.go:40, 100).
SearchAnswers == \A r \in Readers : rpc[r] = "rlock" ~> rpc[r] = "done"

=============================================================================
