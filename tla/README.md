# Verification of xkcd-search

TLA+ models of the services in `src/search-services`, the TLC runs that check
them on small instances, and TLAPS proofs of their safety properties for every
value of the constants. Paths below are relative to `src/search-services`
unless they begin with `src/`.

Check a run with `tlc -config <name>.cfg <MC module>`; check proofs with
`tlapm <module>.tla`. `PROJECT.json` maps every definition to the lines it
models, and lists the runs, the hazards and the mutated definitions (comments
"Slip:" in the modules) that each property must catch. A hazard that the code does
not avoid names no property: its note says what the code does, and which property
limits it.

## 1. The system

A browser talks to **frontend** (HTMX pages). The frontend calls **api** (REST),
which calls **update**, **search** and **words** over gRPC. **update** fetches
comics from xkcd.com, has their text normalised by **words**, stores them in
PostgreSQL and publishes a notification on NATS. **search** answers searches
from the table or from an index in memory that it rebuilds on a notification
and on a ticker.

| Part | State it keeps | Operations | What is hard |
|---|---|---|---|
| update/core | the flag `running` | Update, Drop, Stats, Status | one job at a time; feeder and worker pool; cancellation; errors that are only logged |
| update/adapters/db | table `comics` | Add, IDs, Drop, Stats | statements that go on after their call has failed; reads of different moments |
| update/adapters/xkcd, words | none | LastID, Get; Norm | 404 for a comic in the middle |
| update/adapters/notifier | connection | Notify | an error is only logged |
| search/core | `index`, `comics`, an RWMutex | BuildIndex, Search, ISearch | two builders; two maps under one lock; statements of different moments |
| search/adapters/subscriber | channel of capacity one | connect, callback, loop | lost and merged messages |
| search/adapters/initiator | ticker | first build, tick | the only repair of a lost message |
| api/adapters/rest, middleware | semaphore, limiter | search, isearch, admin routes | slots on every path; reservations that are given back; shutdown |
| api/adapters/aaa | none (signed tokens) | Login, Verify | expiry between two calls |
| frontend/adapters | none (a cookie) | search page; admin page, partials, commands | several calls per page; answers out of order; redirects that abort others; a 503 that stands for two things |
| words/words, words/grpc | none | Norm, Ping | nothing: a pure function over a stemmer library |
| the five `main.go`, shared/closers | open connections, the server, a signal context, an exit code | set-up, serve, graceful and forced stop, close, exit | who waits for whom at the end; a failure in the middle of the set-up; calls that hang |
| update/adapters/db/migrations.go | the schema and its dirty mark | Migrate | a crash in the middle |

Interactions with shared state: callers of Update and Drop meet in the flag;
workers and feeder in an unbuffered channel; update and search in the table and
in the notifications; builders and readers of the index in the RWMutex;
requests at the API in a semaphore and a limiter; elements of the admin page in
the cookie and in the browser document.

## 2. Modules

| Module | Models | State ↔ code |
|---|---|---|
| `UpdateService` | `update/core/service.go`, its ports, the gRPC handlers as callers | `running` the flag; `pc`, `lastID`, `todo`, `result` the locals of a call; `wpc`, `wid` the workers; `db` the table; `orphans` statements whose call has failed and which the database may still execute |
| `Catalogue` | what the service promises (abstract) | the job that runs, the table, what has been announced, whether something was silent |
| `StatsRead` | `Service.Stats` and `DB.Stats` read by read, on top of `UpdateService` | `asking` the next statement of the call; `stats` the ServiceStats it fills |
| `SearchIndex` | `BuildIndex` over its life, initiator, subscriber, NATS | the table as a version number; `net` messages on their way; `trigger` the channel; `snap`, `index` per builder |
| `IndexSearch` | `BuildIndex` against `ISearch`, lock step by lock step | the two maps, the RWMutex with waiting writers, readers keyword by keyword |
| `AtomicSearch` | what the search service promises of `ISearch` (abstract) | the comics of the index, the builds that have listed, the answer of each call |
| `TableSearch` | `Service.Search` against a live table | scores, the ids still to read, the result |
| `Ranking` | the sort and the cut both searches end with | pure operators |
| `SearchGate` | `middleware/concurrency.go`, `rate.go`, the search handlers, the shutdown of `api/main.go` | `sema` the channel; `due`, `slot` the limiter; `pc` the handlers; `phase` the server |
| `Gateway` | what the API server promises of its two searches (abstract) | the place of each request, its reply, the clock, the index searches let in |
| `SearchPage` | `handlers/search.go` and `Client.Search` of the frontend, on top of `SearchGate` | `page`: what each visitor sees |
| `IndexPipeline` | the update service, as `Catalogue` promises it, and `SearchIndex`, joined by the table and the notifications (abstract) | the variables of both; `lost`, whether the last notification is gone |
| `ServiceIndex` | `UpdateService` itself and `SearchIndex`, joined in the same way | the variables of both; `version` counts the changes of `db`; `contents` the rows of each version |
| `Lifecycle` | `run` and `main` of the five `main.go`, `closer.go`, `migrations.go` | `kind` which process; `opened` the deferred closers; `stop` the drain; `failed` what failed; `schema` the migration |
| `AdminSession` | `handlers/admin.go`, `client/client.go`, `middleware/auth.go`, `aaa/auth.go`, the admin handlers of `api.go` | `cookie`, `page` of the browser; `pc`, `token`, `draft` of each request, `pc` being "sent" while a command is on its way from Auth to the update service; `stray` such calls whose caller has gone; `job` at the update service |

`UpdateService` implements `Catalogue` (a refinement, checked by `update_ends`
and proved). `IndexPipeline` composes `Catalogue`, by INSTANCE, with
`SearchIndex`, by EXTENDS: a statement that changes the rows is `Change`, a job
that notifies is `Publish`. So what it says of the index holds of every update
service that keeps the promise of `Catalogue`. `ServiceIndex` puts the detailed
service in that place: its `Update` is any step of `UpdateService`, which
publishes if it is a `NotifyOk` and makes a new version if it changes `db`; that
it implements `IndexPipeline` is checked by `pipeline` and proved.

`StatsRead` composes in the same way: its `Serve` is any step of `UpdateService`,
and between two of them a call of Stats takes one of its reads. `SearchPage`
composes with `SearchGate`: a visit is an `Accept` of an index search, a visitor
who leaves is a `Disconnect`, and the status of the reply becomes what the page
shows. `SearchGate` implements `Gateway` (checked by `gate` and proved): the
channel, the reservations and the drain that finds nothing to wait for are
invisible, and a request that waits for a token has only just come. `TableSearch` and `IndexSearch` share `Ranking`. `IndexSearch` implements
`AtomicSearch` (checked by `isearch` and proved), where the two maps are replaced
at once and a search is one instant: so `SearchIndex` may take the swap as one
step. `job` of `AdminSession` is the flag of `UpdateService` with its caller.
`Lifecycle` is one module for five programs, as they differ only in who waits for
what at the end; its initial states choose the program.

`MC*` modules give constants their values for TLC. `*Proofs` and
`RankingTheorems` hold the theorems; `UpdateServiceProofs` holds those of
`StatsRead` and `ServiceIndex` too, `SearchIndexProofs` the theorem of
`IndexPipeline`, and `SearchGateProofs` those of `SearchPage`.

Conventions. One action per step that another actor can observe: a call of a
port, an atomic operation, a lock, a send on a channel. Local computation
between two of them belongs to the earlier or later one. Rows are ids with the
keywords that matter; wording, rendering, logs and metrics are left out.
Variables called "history" in a declaration exist only in the model; they record
what a property needs and no guard reads them.

## 3. Runs

| Run | Question | Bounds and why they are enough |
|---|---|---|
| `update_safety` | Is there one job, is no id lost or inserted twice, is a change of the table announced unless something was silent? | two callers, two workers (the least that contend), three comics of which the middle one answers 404; symmetry in callers and workers |
| `update_ends` | Does every admitted call return and release the flag, and does the service implement `Catalogue`? | two callers, two workers, three comics of which two answer 404, so that workers that gave up at a 404 would block the feeder |
| `update_incomplete` | Does success mean that everything was stored? No: finding 1 | one caller, one worker |
| `stats_read` | Do the numbers of one reply fit together, while jobs run, are killed and leave late statements? | one caller and one worker, which suffice to change the table between any two reads; two comics that share a keyword, so that the two counts of words differ |
| `index_messages` | Is a delivered message forgotten, a newer index replaced without a race? Does a message lead to a build without the ticker? If the ticker fires, does the index end up equal to the table? | three changes, one restart: messages can overtake, merge and be lost |
| `index_stale` | Is the index current after a delivered message and a successful build? No: finding 2 | two changes |
| `pipeline` | Do the detailed update service and the search service together implement `IndexPipeline`, and if nothing was silent and the last notification was not lost, has an index that has caught up the rows of the table? | one caller, one worker, one comic, inserted and dropped; two versions, one restart; one message on its way and one late statement at a time (`Few`); states are compared without the variables no step or property reads, as results and log entries (`Seen`) |
| `search_table` | Is an answer of Search sound and best although rows come and go? | four comics, two keywords, limits 0, 1, 2 |
| `isearch` | Is ISearch linearizable, i.e. does it implement `AtomicSearch`? Do readers or builders starve? | two readers and two builders, the least with which each kind has a competitor of its own; two keywords, so that a search reads the index twice; one comic, whose coming and going makes every two builds differ |
| `gate` | Does the server implement `Gateway`, i.e. are slots returned on every path and index searches only delayed? Does the rate hold, does the server stop although a call hangs, and is a visitor ever told to wait for it? | two connections for one slot, so that one is refused; a token every two of five ticks, so that a reservation waits and another is given back |
| `admin` | What may end a session, be shown as success? Does a panel outlive its token? | one poller, two requests of the user at once, two ticks and tokens that live for two: the first can expire while a second, signed a tick later, is valid and answers to the first are on their way; one call at a time that nobody waits for, enough to set the flag before a command or after it |
| `lifecycle` | What is closed while it may be in use, what does the exit code say, is a half-migrated table served, does the process end? | each of the five programs, two calls, of which one can hang while the other ends, one restart |

`isearch` and `gate` are small because they check liveness too; the safety
properties they check are theorems for every number of comics, connections,
slots and ticks, so their instances need only be large enough for each mutated
definition to be caught. `gate` and `lifecycle` do not check deadlock: the API
server stops, and a process that has used up its restarts stays ended.

Every bound is a named constant or a guard on one: `MaxID`, `MaxVersion`,
`MaxRestarts`, `MaxStarts`, `MaxClock`, `MaxAtOnce`, `MaxStray` and the sizes of the sets.
`Reserve` of `SearchGate` is bounded by `due <= MaxClock`. Only `pipeline` has a
state constraint; what it checks is proved without one.

### What they show

All properties of the runs that pass hold; the two others are disagreements of
the code with its own tests.

1. `update_incomplete`: an error of a worker is only logged
   (`update/core/service.go:105`), so Update notifies and returns nil with comics
   missing. `src/tests/update_test.go:64` expects all comics but number 404 after
   a successful update.
2. `index_stale`: initiator and subscriber build at the same time and lock only
   the swap (`search/core/service.go:97`), so the builder with the older list may
   swap last; the index then stays old until the next message or tick (24h).
   `src/tests/search_test.go:138` counts on the index after a notification.

Behaviour worth knowing that no document contradicts:

- Rows that a cancelled, failed or killed job leaves behind are not announced by
  the next update when it finds nothing missing (`AnnouncedUnlessSilent` needs
  `silent` for exactly this).
- A token that expires while its own update runs ends that update: a partial is
  refused and redirects, the browser leaves the page, and the cancelled request
  cancels the job. With `TOKEN_TTL=2m` a long update meets this.
- A job can start after its token has expired: Auth checks the token in api, and
  update sets the flag a gRPC call later. So can one whose browser has gone, if
  gRPC delivers the call before its cancellation; it meets a context that is done.
- A late 401 to an old token clears a newer cookie. `OnlyExpiryEndsSession` states
  what is left: it is always the expiry of *some* token, never a failed call.
- A drop that finds a job running (409) looks like one that was done;
  `OkMeansDoneOrBusy` cannot be made stronger.
- The frontend ends as soon as its listener is closed and may cut off answers;
  api waits for them, with a timeout that turns the exit code into a failure;
  update, search and words wait, and a forced stop is a success to them.
- `words/main.go` shares `err` between two goroutines, so a failure of Serve may
  end with exit code 0 once a signal has come.
- An update that is killed within its migration never serves again before the
  table has been repaired by hand: the restart policy only repeats the failure.
- Neither a limiter that is busy nor a search service that fails makes the search
  page ask a visitor to wait; only an API server that goes down does.
- The retry policy of `api/adapters/words/words.go:34` names the service
  `search.Words`; the protocol calls it `words.Words`, so no call is retried.
- `WordsUnique` may exceed `WordsTotal` in one reply of Stats.

## 4. Fairness, and why the code justifies it

- `UpdateService`: goroutines are scheduled and every call of a port returns or
  fails. The latter is an assumption: Norm and the statements have no deadline of
  their own. Nothing is assumed of xkcd publishing, of crashes, cancellations or
  late statements.
- `SearchIndex`, `Scheduled`: the goroutines run and List answers, perhaps with
  an error. `Ticking`, which is the premise of `EventuallyFresh` and not part of
  the specification, adds that the ticker fires and that a List tried again and
  again succeeds some time (strong fairness of `ListOk`). NATS may lose
  everything.
- `IndexSearch`: goroutines run; strong fairness of `LockAsk`, as `sync.Mutex`,
  which the writers of an RWMutex share, hands itself to a waiter that starves.
- `SearchGate`: handlers run, and calls whose context is done fail. A call whose
  context is alive may hang for ever, and the timeout of Shutdown need not fire:
  `Drains` rests on `BaseContext` alone.
- `Lifecycle`: goroutines run, timers fire, a handler whose context is done
  returns, a connection to NATS and a List end. A goroutine in a select with the
  context and a ticker or a trigger that is always ready leaves some time (strong
  fairness of `Leaves`: select chooses at random). A handler whose context is
  alive may hang for ever, so `Ends` rests on the forced stop, on the timeout of
  Shutdown and on `BaseContext`.
- `AdminSession`: htmx polls and handles answers, the timeout of the client ends
  every call, and the API refuses a poller from time to time however often its
  calls fail (strong fairness of `Refuse`).

## 5. Proofs

Every theorem holds for all values of the constants that satisfy the named
assumptions of its module; all are checked by `tlapm`.

**UpdateService** (`UpdateServiceProofs`).
Assumptions: `WorkersAssumption`, `NotFoundAssumption`, `MaxIDAssumption`.
Theorems for `TypeOK`, `OneJob`, `NoDuplicateInsert`, `AllAttempted`,
`DropIsClean`, `AnnouncedUnlessSilent` and `ImplementsCatalogue`. The argument is
a tower of invariants. `TypeInv` adds to the types that a busy worker has an id.
`JobInv` says that the flag is set exactly while one caller is between its
CompareAndSwap and its Store, and that workers and unsent ids exist only in the
phases feed and wait of that caller; `OneJob` alone is not inductive, as it does
not say in which phase workers exist. On it rest the disjointness of queued, held
and stored ids, the account of every id up to `lastID` (queued, held, stored,
failed, 404 or late), and `ToldInv`, which says where the announced table may lag
behind. The refinement maps the phase of the one caller to the job of
`Catalogue`, and shows for each action that it is a step of it or a stutter. From
the refinement follows `TableChangesByRows`: a step adds one row or removes all,
which is the environment that `TableSearch` and `IndexSearch` assume.

*Termination.* `JobsAdvance` is what can be proved here of `JobEnds`: `Left`
weighs the phase of a call, its unsent ids and the places of its workers, every
step of the job lowers it, and nothing else raises it. `FeedersAreServed` adds
that a feeder never sends to a pool that has ended (`PoolIsFull`: no worker leaves
while ids are fed, whatever errors it has met). So a job can only be kept from its
end by a goroutine that is not scheduled or a call that does not return, which is
what the fairness excludes. `JobsNeverStick` states the last part: a job that runs
is at a port, or has a worker at one, or a worker that can receive, or nothing
left to wait for; never do feeder, workers and `Wait` all wait for each other.

**StatsRead** (in `UpdateServiceProofs`; `WordsAssumption`). `NothingUnpublished`
comes first: ids that are stored, queued, held or late are published
(`OnlyPublished` strengthens `TypeInv`, whose ids are only below `MaxID`).
`StatsInv` says, for each place between two reads, that the numbers read so far
lie between their values over the rows that stayed and over all that were seen;
as rows are counted before xkcd is asked and xkcd takes nothing back
(`LatestGrows`), the count stays below the total. `CountsGrow` is the lemma that
the three counts are monotone in the set of rows. They give `StatsTypeOK`,
`FetchedWithinTotal` and `StatsAreCurrent`.

**ServiceIndex** (in `UpdateServiceProofs`; `BoundsAssumption`).
`ServiceImplementsPipeline`: a `NotifyOk` is the `Tell` of `Catalogue` and a
`Publish` of `SearchIndex` or a lost message (`NotifyTells`); every other step of
the service leaves `announced` alone and makes it no less silent (`QuietStays`),
so it is a quiet step of the pipeline (`QuietIsPipeline`), by the step simulation
of `ServiceImplementsCatalogue`. The theorem of `IndexPipeline` then carries over
through an INSTANCE of its proofs, and with `ContentsInv`, that the last version
has the rows of the table, gives `AnnouncedIsIndexed` (`AnnouncementsAreIndexed`):
from the handler of Update to the rows in the index.

**SearchIndex** (`SearchIndexProofs`). `TypeCorrect`, `WakeupsAreKept`,
`RegressOnlyByRace`. `TypeOK` with `NoLostWakeup` is inductive. The third theorem
needs that an index newer than a builder's snapshot was put there by the other
builder since its List. `OldRowsFade` is the safety half of `EventuallyFresh`:
while the table and the process stay as they are, no builder comes to hold old
rows that did not hold them, a swap of rows that are not old makes the index the
table, and once it is and nobody holds old rows that stays so. So each builder
can set the index back once at most after the last change.

**IndexPipeline** (in `SearchIndexProofs`). `AnnouncementsReachIndex`. Every step
of the composition is a step of `SearchIndex` or none (`PipelineIsIndex`), so its
invariants carry over. `Told` joins the two services: the last notification was
of the table as it is, unless a job owes one or was silent, and that notification
is lost, on its way, in the channel, or in a build that is as new.

**Ranking** (`RankingTheorems`). `CutIsRanking`: a list of distinct ids sorted by
score and cut at the limit is a ranking, i.e. no id left out is better than one
kept. What a sort is, is assumed by its result (sort.Slice is external).
`AnswersAgree`: two rankings of the same comics have the same length and the same
relevance at each place, whatever each sort does with ties. The argument is a
pigeonhole (`NoRoom`): if one answer were worse at place a, the first a comics of
the other would all have to be among its first a-1.

**TableSearch** (`TableSearchProofs`). `ScoresInv`: no comic is credited twice for
one keyword, one that stayed has been counted by every statement, and every one
counted was in the table. `PhaseInv`: what each place of the call implies.
`RankInv`: comics read followed by ids to read are one ranking. They give
`AnswerIsSound`, `BestFirst` and `GoneOnlyByDrop`. `QuietSearchIsReference`: when
no row came or went during the call, the answer is one the reference search gives
for the table, and by `AnswersAgree` equal up to ties to every other such answer;
`AnswerOfOneBuild` says of ISearch that its answers are of this kind too.

**IndexSearch** (`IndexSearchProofs`). `LockInv`: a builder between the two
assignments is the writer, and no reader holds the lock then. `MapInv`: outside
those two lines both maps are of the same build. `ReadInv`: what a reader has
scored and fetched is of the build it locked. They give `OneBuild` and
`AnswerOfOneBuild` (`ReadersSeeOneBuild`, `AnswersAreOfOneBuild`), and with them
`SearchesAreAtomic`, that `IndexSearch` implements `AtomicSearch`: a build takes
effect at its second assignment, a search when it gives the lock back. Together
with `AnnouncementsAreIndexed`: what an update has announced, and a build has
caught up with, is what each search answers from.

*The lock.* `LockNeverDeadlocks`: a search that waits waits for a writer, a writer
for searches that hold the lock, and these wait for nothing (`Kept`: searches are
made to wait only while there is a writer). `LockIsFair`: while a builder has or
waits for the lock no search comes to hold it, and a search that waits outlives
one writer only. `LockIsGivenBack`: `ReadLeft` and `BuildLeft` bound the steps
until the lock is given back, each own step lowers them and no step of another
touches them. They are what can be proved here of `BuildSwaps` and
`SearchAnswers`.

**AdminSession** (`AdminSessionProofs`). `KnownInv`: every token in the cookie, in
a request or in an answer on its way is no younger than the last one signed.
`EndsInv`: a response that ends the session is complete and belongs to a token
that has expired. `FateInv`: a command that goes on without an error has been
done or was refused as busy. `ByElement` splits the invariant into one fact per
element, and `OneElement` reduces an action to the element it changes. They give
`OnlyExpiryEndsSession`, `OkMeansDoneOrBusy` and `JobsAreAuthorised`, which is
proved only. It is about the time between the check of a token and the flag:
`Cleared` counts the commands that Auth has let through and the update service
has not seen, waited for or not. Once the last token signed has expired, no
step makes them more and every start of a job makes them fewer. `KnownInv` says
that no token in use outlives the last one signed, so Auth lets nothing through
then; a caller who leaves turns at most his own command into a stray one
(`StraysAreCleared`), and a job starts only for a command that was counted
(`OneLeaves`).

**SearchGate** (`SearchGateProofs`). `SlotInv`: `sema` is the number of searches
in their handlers. `GapInv`: index searches wait, for tokens an interval apart and
before `due`; without it two requests could hold one token after a reservation is
given back. They give `TypeOK` and `RefusalIsTrue`: a search is refused as busy
only while the limit of searches run. `HandlersEnd`, what can be proved of
`Drains`: after the signal no request comes and each handler takes two steps at
most. `RateIsKept` alone is not
inductive, as it does not see the tokens that are promised: `RateInv` counts the
searches let in together with those that will be by each time to come, and
together with all that wait; the one is bounded by that time, the other by `due`.
A token that is given back lowers both sides. `ServerImplementsGateway` is the
refinement of `Gateway`: `SlotInv` shows that the channel is full exactly when
`Limit` searches run, and `RateInv` (`TurnIsDue`) that an index search is let in
only once those before it have had their intervals, also when it has waited.

**SearchPage** (in `SearchGateProofs`). `PageIsGate`: a page takes steps of the
gateway, so its invariants carry over. `VisitInv`: a visit under way is an index
search that nobody has left, so its reply is no refusal of the semaphore, and one
of the limiter only after the signal. It gives `PageTypeOK` and `WaitMeansDown`.

**Lifecycle** (`LifecycleProofs`). `TypeOK` is inductive. `Shape` says what each
phase of a process has behind it: a set-up has no calls and no failures; who has
stopped the server had a reason, and is done when the calls are or a timeout has
passed; and a process that closes has waited for what its `main.go` waits for.
`Migrated` says that the step after the migration is taken with a clean schema
only. They give `NothingUsesClosed`, `ExitIsHonest` and `ServesMigrated`.
`EndNeverStuck` is the safety half of `Ends`: once there is a signal or a failure,
main may return (`MayReturn`, which `MayReturnSuffices` shows to be the guard of
its steps), or the stop may begin or has nothing to wait for, or its handlers are
cancelled or a timer will break the wait, or the subscriber has been told to
leave. It needs `Started`, that what is waited for has begun.

**Only model-checked**: all liveness (`JobEnds`, `HeardIsBuilt`,
`EventuallyFresh`, `BuildSwaps`, `SearchAnswers`, `Drains`, `PanelEnds`, `Ends`),
which is beyond the prover. The safety part of the argument is proved, as said
above, for `JobEnds` (`JobsAdvance`, `FeedersAreServed`, `JobsNeverStick`),
`EventuallyFresh` (`OldRowsFade`), `BuildSwaps` and `SearchAnswers`
(`LockNeverDeadlocks`, `LockIsFair`, `LockIsGivenBack`), `Drains` (`HandlersEnd`)
and `Ends` (`EndNeverStuck`); TLC checks on small instances that it leads to the
end under the stated fairness. For `HeardIsBuilt` and `PanelEnds` there is no such
theorem. Every invariant and every other property of the runs that pass is a
theorem.

## 6. What is assumed and what is not modelled

Assumed: xkcd answers a request for a comic with that comic; words.Norm names a
keyword once; a single SQL statement is atomic and the primary key of `comics` is
enforced; `sync.RWMutex`, channels and contexts behave as Go documents; a limiter
of `x/time/rate` with burst one gives a reservation back only if it is still to
come and the last one; htmx lets an element have one request in flight and obeys
`HX-Redirect` before anything else in an answer. A negative limit, which only a
client other than the REST handler could send, `SEARCH_RATE=0` and `TOKEN_TTL=0`
are left out.

Of the processes: GracefulStop of gRPC waits for its handlers and Stop cancels
their contexts; Serve returns when one of the two is done; golang-migrate marks a
version as dirty before it runs its statements and refuses to go on from there;
an index search from the frontend is the only use of `/api/isearch` that
`SearchPage` knows, other clients use `/api/search`.

Not modelled: words/words and words/grpc (a pure function over an external
stemmer), the decoding of xkcd's JSON, rendering, metrics, logs, the preview of
the frontend (it calls nothing), a `Drain` of NATS that loses what is in its
buffer (it is a lost message of `SearchIndex`), a build of the initiator that
meets a closed storage (it fails, and the process ends), `Status` beyond an answer
of the API (one load of the flag), configuration, generated code, mocks,
deployment.

## 7. Plan

Done, in this order: the update service with its abstract catalogue and its
proofs; the life of the index; the ranking; both searches; the gateway; the admin
session; the life of the processes; the search page; the pipeline from the table
to the index; Stats over the running service; the detailed service in the
pipeline; index searches as atomic ones; the variants of jobs, lock and handlers;
the abstract gateway; answers up to ties; the ends that cannot get stuck.

Next:

1. `AdminSession` over `Catalogue`, so that a job cut off by a redirect is seen in
   the table.
2. `Lifecycle` over `UpdateService`, so that a forced stop is the cancellation of
   the job that runs.
3. `SearchIndex` as an implementation of an abstract cell that only goes back in
   a race, with the swap of `AtomicSearch` in it.
4. Variants for `PanelEnds` and `HeardIsBuilt`, and the number of steps that
   `EndNeverStuck` leaves.
