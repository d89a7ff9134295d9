----------------------------- MODULE Lifecycle -----------------------------
(***************************************************************************)
(* The life of the five processes: run of update/main.go, search/main.go,  *)
(* words/main.go, api/main.go and frontend/main.go, from the set-up with   *)
(* its deferred closers to the exit code, and the restart by the           *)
(* container.  The five differ in who waits for what at the end:           *)
(*                                                                         *)
(*   update    main is in Serve, a goroutine stops the server              *)
(*   search    an errgroup of Serve, the subscriber and the stop           *)
(*   words     Serve is in a goroutine, main stops the server              *)
(*   api       an errgroup of ListenAndServe and the shutdown              *)
(*   frontend  main is in ListenAndServe, a goroutine shuts it down        *)
(*                                                                         *)
(* GracefulStop of gRPC waits for the handlers, Stop cancels their         *)
(* contexts, and Serve returns once one of the two is done.  Shutdown of   *)
(* net/http waits for the handlers, but ListenAndServe does not.           *)
(***************************************************************************)
EXTENDS Naturals, Sequences

CONSTANTS
    Requests,   \* calls the server can have at the same time
    MaxStarts   \* bound: restarts of the process

ASSUME StartsAssumption == MaxStarts \in Nat

VARIABLES
    kind,       \* which of the five processes it is
    starts,     \* restarts so far
    schema,     \* the comics table: "none", "applying", "dirty" or "clean"
    phase,      \* main: "setup", "run", "close" (deferred) or "ended"
    step,       \* set-up steps that are done
    opened,     \* connections to close, the last one opened first
    signal,     \* the context of NotifyContext is done
    failed,     \* what failed: "serve", "subscribe" or "shutdown"
    server,     \* "off", "open" or "closed" for new calls
    stop,       \* who stops the server: "wait", "drain" or "done"
    expired,    \* the timeout of the stop is over
    routine,    \* the goroutines of search that build the index
    calls,      \* the calls, with the outcome of the last one
    exit        \* "none", "ok", "error" or "killed"

startVars == <<kind, starts>>
setupVars == <<schema, step>>
mainVars  == <<phase, opened, exit>>
stopVars  == <<server, stop, expired>>
vars == <<startVars, setupVars, mainVars, signal, failed, stopVars,
          routine, calls>>

Kinds    == {"update", "search", "words", "api", "frontend"}
Grpc     == {"update", "search", "words"}
Routines == {"subscriber", "initiator"}

UpdateSetup == <<"storage", "migrate", "xkcd", "words", "notifier", "service",
                 "listen">>
SearchSetup == <<"storage", "words", "listen">>
WordsSetup  == <<"listen">>
ApiSetup    == <<"words", "update", "search", "auth">>

Setup == [k \in Kinds |-> CASE k = "update" -> UpdateSetup
                            [] k = "search" -> SearchSetup
                            [] k = "words"  -> WordsSetup
                            [] k = "api"    -> ApiSetup
                            [] OTHER        -> <<>>]

\* The steps that are followed by a defer of CloseOrLog.
Closers == {"storage", "words", "notifier", "update", "search"}

Running == {r \in Requests : calls[r] = "run"}

\* Slip: ctx is waited for in place of groupCtx.
StoppingOnSignal == signal

\* What ends the wait of the one who stops the server.  The group of search
\* and api, and words, do it for a failure too; in update and in the
\* frontend main returns on a failure without it.
Stopping ==
    signal \/ (kind \in {"search", "words", "api"} /\ failed # {})

\* The contexts of the calls are done: Stop closes their connections, and
\* BaseContext of api and frontend is the context of the signal.
Cancelled == IF kind \in Grpc THEN expired ELSE signal

Init ==
    /\ kind \in Kinds /\ starts = 0 /\ schema = "none"
    /\ phase = "setup" /\ step = 0 /\ opened = <<>> /\ exit = "none"
    /\ signal = FALSE /\ failed = {}
    /\ server = "off" /\ stop = "wait" /\ expired = FALSE
    /\ routine = [g \in Routines |-> "off"]
    /\ calls = [r \in Requests |-> "none"]

-----------------------------------------------------------------------------
(* The set-up *)

Due(s) == phase = "setup" /\ step < Len(Setup[kind])
                          /\ Setup[kind][step + 1] = s

SetupOk(s) ==
    /\ Due(s) /\ s # "migrate"
    /\ step' = step + 1
    /\ opened' = IF s \in Closers THEN <<s>> \o opened ELSE opened
    /\ UNCHANGED <<startVars, schema, phase, exit, signal, failed, stopVars,
                   routine, calls>>

\* The migration is marked as dirty before its statements are run.
MigrateBegin ==
    /\ Due("migrate") /\ schema = "none"
    /\ schema' = "applying"
    /\ UNCHANGED <<startVars, step, mainVars, signal, failed, stopVars,
                   routine, calls>>

\* Slip: the error of Up is only logged.
MigrateDoneAnyhow ==
    /\ Due("migrate")
    /\ schema' = IF schema = "dirty" THEN "dirty" ELSE "clean"
    /\ step' = step + 1
    /\ UNCHANGED <<startVars, mainVars, signal, failed, stopVars, routine,
                   calls>>

\* It is done, or there was nothing to do, which is no error.
MigrateDone ==
    /\ Due("migrate") /\ schema \in {"applying", "clean"}
    /\ schema' = "clean"
    /\ step' = step + 1
    /\ UNCHANGED <<startVars, mainVars, signal, failed, stopVars, routine,
                   calls>>

\* A migration that is given up stays dirty, and the next Up refuses it.
Abandoned == IF schema = "applying" THEN "dirty" ELSE schema

SetupFails ==
    /\ phase = "setup" /\ step < Len(Setup[kind])
    /\ phase' = "close" /\ exit' = "error"
    /\ schema' = Abandoned
    /\ UNCHANGED <<startVars, step, opened, signal, failed, stopVars,
                   routine, calls>>

\* The server listens; the initiator builds, the subscriber connects.
Serve ==
    /\ phase = "setup" /\ step = Len(Setup[kind])
    /\ phase' = "run" /\ server' = "open"
    /\ routine' = IF kind # "search" THEN routine
                  ELSE [g \in Routines |-> IF g = "initiator" THEN "build"
                                                              ELSE "connect"]
    /\ UNCHANGED <<startVars, setupVars, opened, exit, signal, failed, stop,
                   expired, calls>>

-----------------------------------------------------------------------------
(* The calls *)

Accept(r) ==
    /\ server = "open" /\ phase \in {"run", "close"}
    /\ calls[r] # "run"
    /\ calls' = [calls EXCEPT ![r] = "run"]
    /\ UNCHANGED <<startVars, setupVars, mainVars, signal, failed, stopVars,
                   routine>>

\* A handler needs its context and the connections of the process.
Answer(r, o) ==
    /\ phase \in {"run", "close"}
    /\ calls[r] = "run"
    /\ o = "ok" => phase = "run" /\ ~Cancelled
    /\ calls' = [calls EXCEPT ![r] = o]
    /\ UNCHANGED <<startVars, setupVars, mainVars, signal, failed, stopVars,
                   routine>>

-----------------------------------------------------------------------------
(* The goroutines of search *)

Subscribe(to) ==
    /\ phase = "run" /\ routine["subscriber"] = "connect"
    /\ routine' = [routine EXCEPT !["subscriber"] = to]
    /\ failed' = IF to = "done" THEN failed \cup {"subscribe"} ELSE failed
    /\ UNCHANGED <<startVars, setupVars, mainVars, signal, stopVars, calls>>

Moves(g, from, to) ==
    /\ phase \in {"run", "close"} /\ routine[g] = from
    /\ routine' = [routine EXCEPT ![g] = to]
    /\ UNCHANGED <<startVars, setupVars, mainVars, signal, failed, stopVars,
                   calls>>

BuildBegins(g) == Moves(g, "wait", "build")
BuildEnds(g)   == Moves(g, "build", "wait")
Leaves(g)      == Stopping /\ Moves(g, "wait", "done")

-----------------------------------------------------------------------------
(* The end *)

Signal ==
    /\ phase = "run" /\ ~signal
    /\ signal' = TRUE
    /\ UNCHANGED <<startVars, setupVars, mainVars, failed, stopVars, routine,
                   calls>>

\* Serve or ListenAndServe returns an error; its connections stay.
ServeFails ==
    /\ phase = "run" /\ server = "open"
    /\ failed' = failed \cup {"serve"}
    /\ UNCHANGED <<startVars, setupVars, mainVars, signal, stopVars, routine,
                   calls>>

\* GracefulStop or Shutdown begins: no more calls.
StopBegins ==
    /\ phase = "run" /\ stop = "wait" /\ Stopping
    /\ stop' = "drain" /\ server' = "closed"
    /\ UNCHANGED <<startVars, setupVars, mainVars, signal, failed, expired,
                   routine, calls>>

Drained ==
    /\ phase = "run" /\ stop = "drain" /\ Running = {}
    /\ stop' = "done"
    /\ UNCHANGED <<startVars, setupVars, mainVars, signal, failed, server,
                   expired, routine, calls>>

\* AfterFunc calls Stop, while GracefulStop goes on waiting for the handlers.
ForceStop ==
    /\ kind \in Grpc /\ phase = "run" /\ stop = "drain" /\ ~expired
    /\ expired' = TRUE
    /\ UNCHANGED <<startVars, setupVars, mainVars, signal, failed, server,
                   stop, routine, calls>>

\* Shutdown of api gives up and returns an error.
ShutdownTimeout ==
    /\ kind = "api" /\ phase = "run" /\ stop = "drain"
    /\ expired' = TRUE /\ stop' = "done"
    /\ failed' = failed \cup {"shutdown"}
    /\ UNCHANGED <<startVars, setupVars, mainVars, signal, server, routine,
                   calls>>

Outcome == IF failed = {} THEN "ok" ELSE "error"

UpdateReturns(o) ==
    /\ kind = "update"
    /\ "serve" \in failed \/ stop = "done" \/ expired
    /\ o = Outcome

\* Slip: the subscriber is started with go and not in the group.
SearchReturnsEarly(o) ==
    /\ kind = "search" /\ stop = "done" /\ o = Outcome

SearchReturns(o) ==
    /\ kind = "search" /\ stop = "done"
    /\ routine["subscriber"] = "done"
    /\ o = Outcome

\* err is written by the goroutine of Serve, which main only waits for when
\* it is not woken by the signal.
WordsReturns(o) ==
    /\ kind = "words" /\ stop = "done"
    /\ o = Outcome \/ (signal /\ o = "ok")

\* Slip: the error of Shutdown is only logged.
ApiReturnsOk(o) ==
    /\ kind = "api" /\ stop = "done"
    /\ o = IF "serve" \in failed THEN "error" ELSE "ok"

ApiReturns(o) ==
    /\ kind = "api" /\ stop = "done"
    /\ o = Outcome

\* ListenAndServe has returned, whatever Shutdown still waits for.
FrontendReturns(o) ==
    /\ kind = "frontend"
    /\ "serve" \in failed \/ server = "closed"
    /\ o = Outcome

Return(o) ==
    /\ phase = "run"
    /\ \/ UpdateReturns(o) \/ SearchReturns(o) \/ WordsReturns(o)
       \/ ApiReturns(o) \/ FrontendReturns(o)
    /\ phase' = "close" /\ exit' = o
    /\ UNCHANGED <<startVars, setupVars, opened, signal, failed, stopVars,
                   routine, calls>>

Close ==
    /\ phase = "close" /\ opened # <<>>
    /\ opened' = Tail(opened)
    /\ UNCHANGED <<startVars, setupVars, phase, exit, signal, failed,
                   stopVars, routine, calls>>

\* The process is gone, and with it its goroutines and its calls.
Ended ==
    /\ phase' = "ended" /\ server' = "off"
    /\ calls' = [r \in Requests |-> IF r \in Running THEN "lost" ELSE calls[r]]
    /\ routine' = [g \in Routines |-> "off"]

\* Slip: os.Exit, so that nothing deferred is run.
ExitAtOnce ==
    /\ phase = "close"
    /\ Ended
    /\ UNCHANGED <<startVars, setupVars, opened, exit, signal, failed, stop,
                   expired>>

Exit ==
    /\ phase = "close" /\ opened = <<>>
    /\ Ended
    /\ UNCHANGED <<startVars, setupVars, opened, exit, signal, failed, stop,
                   expired>>

\* A crash, or a signal no NotifyContext waits for.
Kill ==
    /\ phase # "ended"
    /\ Ended
    /\ opened' = <<>> /\ exit' = "killed"
    /\ schema' = Abandoned
    /\ UNCHANGED <<startVars, step, signal, failed, stop, expired>>

Restart ==
    /\ phase = "ended" /\ starts < MaxStarts
    /\ starts' = starts + 1
    /\ phase' = "setup" /\ step' = 0 /\ opened' = <<>> /\ exit' = "none"
    /\ signal' = FALSE /\ failed' = {}
    /\ server' = "off" /\ stop' = "wait" /\ expired' = FALSE
    /\ routine' = [g \in Routines |-> "off"]
    /\ calls' = [r \in Requests |-> "none"]
    /\ UNCHANGED <<kind, schema>>

-----------------------------------------------------------------------------
Next ==
    \/ (\E s \in {Setup[kind][i] : i \in 1..Len(Setup[kind])} : SetupOk(s))
    \/ MigrateBegin \/ MigrateDone \/ SetupFails \/ Serve
    \/ \E r \in Requests : Accept(r) \/ Answer(r, "ok") \/ Answer(r, "failed")
    \/ Subscribe("wait") \/ Subscribe("done")
    \/ \E g \in Routines : BuildBegins(g) \/ BuildEnds(g) \/ Leaves(g)
    \/ Signal \/ ServeFails \/ StopBegins
    \/ Drained \/ ForceStop \/ ShutdownTimeout
    \/ (\E o \in {"ok", "error"} : Return(o))
    \/ Close \/ Exit \/ Kill \/ Restart

Spec == Init /\ [][Next]_vars

\* Goroutines run and timers fire; a handler whose context is done returns;
\* a connection to NATS and a List end; a select does not pass over the
\* context for ever.  Nothing is assumed of handlers whose context is alive.
Fairness ==
    /\ WF_vars(StopBegins) /\ WF_vars(Drained)
    /\ WF_vars(ForceStop) /\ WF_vars(ShutdownTimeout)
    /\ WF_vars(\E o \in {"ok", "error"} : Return(o))
    /\ WF_vars(Close) /\ WF_vars(Exit)
    /\ \A r \in Requests : WF_vars(Cancelled /\ Answer(r, "failed"))
    /\ WF_vars(Subscribe("wait") \/ Subscribe("done"))
    /\ \A g \in Routines : WF_vars(BuildEnds(g)) /\ SF_vars(Leaves(g))

FairSpec == Spec /\ Fairness

-----------------------------------------------------------------------------
(* Properties *)

\* Types; a process that returns from run has closed all it has opened,
\* however far its set-up came (CloseOrLog in the main.go of each).
TypeOK ==
    /\ kind \in Kinds /\ starts \in 0..MaxStarts
    /\ schema \in {"none", "applying", "dirty", "clean"}
    /\ phase \in {"setup", "run", "close", "ended"}
    /\ step \in 0..Len(Setup[kind])
    /\ opened \in Seq(Closers) /\ Len(opened) <= step
    /\ phase = "ended" => opened = <<>>
    /\ signal \in BOOLEAN /\ expired \in BOOLEAN
    /\ failed \in SUBSET {"serve", "subscribe", "shutdown"}
    /\ server \in {"off", "open", "closed"}
    /\ stop \in {"wait", "drain", "done"}
    /\ routine \in [Routines -> {"off", "connect", "wait", "build", "done"}]
    /\ calls \in [Requests -> {"none", "run", "ok", "failed", "lost"}]
    /\ exit \in {"none", "ok", "error", "killed"}

\* The connections are closed under a handler only after a forced stop or a
\* failed Serve of update, after the timeout of api, and in the frontend,
\* whose main does not wait; in search and words never, and in search not
\* under the subscriber either (update/main.go:91-104, search/main.go:91-111,
\* words/main.go:74-85, api/main.go:98-120, frontend/main.go:68-81).
NothingUsesClosed ==
    phase = "close" =>
        /\ Running # {} => \/ kind = "update" /\ (expired \/ failed # {})
                           \/ kind = "api" /\ expired
                           \/ kind = "frontend"
        /\ routine["subscriber"] \in {"off", "done"}

\* The exit code tells the truth: 0 after a signal only, and not if
\* something has failed before, except in words, whose Serve may fail unseen
\* when the signal comes; 1 only if the set-up or a part has failed.  A forced
\* stop of gRPC is a success, a shutdown of api that takes too long is not.
ExitIsHonest ==
    /\ exit = "ok" => signal /\ (failed = {} \/ kind = "words")
    /\ exit = "error" => failed # {} \/ step < Len(Setup[kind])

\* The update service never serves with a table whose migration was given
\* up half-way, however often it was killed and started (migrations.go:30).
ServesMigrated == kind = "update" /\ phase = "run" => schema = "clean"

\* After the signal, or after a failure of a part, the whole process ends,
\* although handlers may hang for as long as their context is alive.
Ends == phase = "run" /\ (signal \/ failed # {}) ~> phase = "ended"

=============================================================================
