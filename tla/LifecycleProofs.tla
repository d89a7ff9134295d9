-------------------------- MODULE LifecycleProofs --------------------------
(***************************************************************************)
(* The safety properties of Lifecycle, for every number of calls and of    *)
(* restarts.  TypeOK is inductive.  The others rest on Shape: what has     *)
(* happened already in each phase of the process, in the order the main.go *)
(* files make it happen.                                                   *)
(***************************************************************************)
EXTENDS Lifecycle, TLAPS

\* A process that sets up has no calls, no goroutines and nothing to report.
Fresh ==
    phase = "setup" =>
        /\ Running = {} /\ server = "off" /\ stop = "wait"
        /\ failed = {} /\ ~signal /\ ~expired /\ exit = "none"
        /\ routine["subscriber"] = "off"

\* Who stops the server had a reason to, and is done when the calls are.
Stopped ==
    /\ phase = "run" => exit = "none" /\ step = Len(Setup[kind])
    /\ stop # "wait" => server # "open" /\ Stopping
    /\ stop = "done" => Running = {} \/ (kind = "api" /\ expired)
    /\ expired => stop # "wait"
    /\ server = "closed" => stop # "wait"

\* What each process waited for before its connections are closed.
Returned ==
    /\ kind # "search" => routine["subscriber"] = "off"
    /\ phase = "close" =>
        /\ routine["subscriber"] \in {"off", "done"}
        /\ \/ server = "off" /\ Running = {}
           \/ kind = "update" /\ (expired \/ failed # {} \/ stop = "done")
           \/ kind = "frontend"
           \/ stop = "done"

Shape == Fresh /\ Stopped /\ Returned

\* The step after the migration is taken with a clean schema only.
Migrated == kind = "update" /\ step >= 2 => schema = "clean"

-----------------------------------------------------------------------------
\* Every step of a set-up.
Steps == Closers \cup {"migrate", "xkcd", "service", "listen", "auth"}

\* The set-up steps of the processes, in so far as the proofs look at them.
LEMMA SetupTable ==
    /\ \A k \in Kinds : Setup[k] \in Seq(Steps)
    /\ \A k \in Kinds, i \in Nat :
        i < Len(Setup[k]) /\ Setup[k][i + 1] = "migrate" =>
            k = "update" /\ i = 1
    /\ Len(Setup["update"]) = 7 /\ Setup["update"][2] = "migrate"
<1>1. /\ Setup["update"] = UpdateSetup /\ Setup["search"] = SearchSetup
      /\ Setup["words"] = WordsSetup /\ Setup["api"] = ApiSetup
      /\ Setup["frontend"] = <<>>
  BY DEF Setup, Kinds
<1>2. /\ UpdateSetup \in Seq(Steps) /\ SearchSetup \in Seq(Steps)
      /\ WordsSetup \in Seq(Steps) /\ ApiSetup \in Seq(Steps)
      /\ <<>> \in Seq(Steps)
  <2>1. UpdateSetup \in Seq(Steps)
    BY DEF UpdateSetup, Steps, Closers
  <2>2. SearchSetup \in Seq(Steps)
    BY DEF SearchSetup, Steps, Closers
  <2>3. WordsSetup \in Seq(Steps)
    BY DEF WordsSetup, Steps, Closers
  <2>4. ApiSetup \in Seq(Steps)
    BY DEF ApiSetup, Steps, Closers
  <2>5. QED
    BY <2>1, <2>2, <2>3, <2>4
<1>3. \A k \in Kinds : Setup[k] \in Seq(Steps)
  BY <1>1, <1>2 DEF Kinds
<1>4. /\ Len(UpdateSetup) = 7 /\ UpdateSetup[2] = "migrate"
      /\ \A i \in 1..7 : UpdateSetup[i] = "migrate" => i = 2
  BY DEF UpdateSetup
<1>5. /\ Len(SearchSetup) = 3 /\ \A i \in 1..3 : SearchSetup[i] # "migrate"
      /\ Len(WordsSetup) = 1 /\ WordsSetup[1] # "migrate"
      /\ Len(ApiSetup) = 4 /\ \A i \in 1..4 : ApiSetup[i] # "migrate"
  BY DEF SearchSetup, WordsSetup, ApiSetup
<1>6. ASSUME NEW k \in Kinds, NEW i \in Nat,
             i < Len(Setup[k]), Setup[k][i + 1] = "migrate"
      PROVE  k = "update" /\ i = 1
  <2>1. CASE k = "update"
    BY <1>1, <1>4, <1>6, <2>1
  <2>2. CASE k = "search"
    BY <1>1, <1>5, <1>6, <2>2
  <2>3. CASE k = "words"
    BY <1>1, <1>5, <1>6, <2>3
  <2>4. CASE k = "api"
    BY <1>1, <1>5, <1>6, <2>4
  <2>5. CASE k = "frontend"
    BY <1>1, <1>6, <2>5
  <2>6. QED
    BY <2>1, <2>2, <2>3, <2>4, <2>5 DEF Kinds
<1>7. QED
  BY <1>1, <1>3, <1>4, <1>6

\* The disjuncts of Next, one for each action.
LEMMA NextCases ==
    ASSUME TypeOK, [Next]_vars
    PROVE
        \/ \E s \in Steps :
              SetupOk(s)
        \/ MigrateBegin
        \/ MigrateDone
        \/ SetupFails
        \/ Serve
        \/ \E r \in Requests :
              Accept(r)
        \/ \E r \in Requests, o \in {"ok", "failed"} :
              Answer(r, o)
        \/ \E to \in {"wait", "done"} :
              Subscribe(to)
        \/ \E g \in Routines, from \in {"wait", "build"},
              to \in {"wait", "build", "done"} :
              Moves(g, from, to)
        \/ Signal
        \/ ServeFails
        \/ StopBegins
        \/ Drained
        \/ ForceStop
        \/ ShutdownTimeout
        \/ \E o \in {"ok", "error"} :
              Return(o)
        \/ Close
        \/ Exit
        \/ Kill
        \/ Restart
        \/ UNCHANGED vars
<1>1. CASE \E s \in {Setup[kind][i] : i \in 1..Len(Setup[kind])} : SetupOk(s)
  <2>1. Setup[kind] \in Seq(Steps)
    BY SetupTable DEF TypeOK
  <2>2. \A i \in 1..Len(Setup[kind]) : Setup[kind][i] \in Steps
    BY <2>1
  <2>3. QED
    BY <1>1, <2>2, Zenon
<1>2. CASE \E g \in Routines : BuildBegins(g) \/ BuildEnds(g) \/ Leaves(g)
  BY <1>2 DEF BuildBegins, BuildEnds, Leaves
<1>3. CASE UNCHANGED vars
  BY <1>3
<1>4. QED
  BY <1>1, <1>2, <1>3, Zenon DEF Next

\* The values a process starts with have the right types.
LEMMA FreshTypes ==
    /\ <<>> \in Seq(Closers) /\ Len(<<>>) = 0
    /\ [g \in Routines |-> "off"] \in
        [Routines -> {"off", "connect", "wait", "build", "done"}]
    /\ [r \in Requests |-> "none"] \in
        [Requests -> {"none", "run", "ok", "failed", "lost"}]
    /\ \A k \in Kinds : 0 \in 0..Len(Setup[k])
<1>1. \A k \in Kinds : 0 \in 0..Len(Setup[k])
  BY SetupTable
<1>2. QED
  BY <1>1

-----------------------------------------------------------------------------
\* Types, and that a process that ended by itself has closed everything
\* (closer.go:8-12).
THEOREM TypeCorrect == Spec => []TypeOK
<1>1. ASSUME Init PROVE TypeOK
  <2>1. /\ starts \in 0..MaxStarts /\ kind \in Kinds
        /\ opened \in Seq(Closers) /\ Len(opened) <= step
        /\ step \in 0..Len(Setup[kind])
    BY <1>1, FreshTypes, StartsAssumption DEF Init
  <2>2. /\ routine \in
            [Routines -> {"off", "connect", "wait", "build", "done"}]
        /\ calls \in [Requests -> {"none", "run", "ok", "failed", "lost"}]
    BY <1>1, FreshTypes, Zenon DEF Init
  <2>3. QED
    BY <1>1, <2>1, <2>2 DEF Init, TypeOK
<1>2. ASSUME TypeOK, [Next]_vars PROVE TypeOK'
  <2> USE DEF vars, startVars, setupVars, mainVars, stopVars, TypeOK,
      Routines, Kinds
  <2>1. ASSUME NEW s \in Steps, SetupOk(s) PROVE TypeOK'
    BY <1>2, <2>1, SetupTable, StartsAssumption DEF SetupOk, Due
  <2>2. CASE MigrateBegin
    BY <1>2, <2>2, SetupTable, StartsAssumption DEF MigrateBegin, Due
  <2>3. CASE MigrateDone
    BY <1>2, <2>3, SetupTable, StartsAssumption DEF MigrateDone, Due
  <2>4. CASE SetupFails
    BY <1>2, <2>4, SetupTable, StartsAssumption DEF SetupFails, Abandoned
  <2>5. CASE Serve
    BY <1>2, <2>5, SetupTable, StartsAssumption DEF Serve
  <2>6. ASSUME NEW r \in Requests, Accept(r) PROVE TypeOK'
    BY <1>2, <2>6, SetupTable, StartsAssumption DEF Accept
  <2>7. ASSUME NEW r \in Requests, NEW o \in {"ok", "failed"}, Answer(r, o)
               PROVE TypeOK'
    BY <1>2, <2>7, SetupTable, StartsAssumption DEF Answer
  <2>8. ASSUME NEW to \in {"wait", "done"}, Subscribe(to) PROVE TypeOK'
    BY <1>2, <2>8, SetupTable, StartsAssumption DEF Subscribe
  <2>9. ASSUME NEW g \in Routines, NEW from \in {"wait", "build"}, NEW to \in
               {"wait", "build", "done"}, Moves(g, from, to) PROVE TypeOK'
    BY <1>2, <2>9, SetupTable, StartsAssumption DEF Moves
  <2>10. CASE Signal
    BY <1>2, <2>10, SetupTable, StartsAssumption DEF Signal
  <2>11. CASE ServeFails
    BY <1>2, <2>11, SetupTable, StartsAssumption DEF ServeFails
  <2>12. CASE StopBegins
    BY <1>2, <2>12, SetupTable, StartsAssumption DEF StopBegins
  <2>13. CASE Drained
    BY <1>2, <2>13, SetupTable, StartsAssumption DEF Drained
  <2>14. CASE ForceStop
    BY <1>2, <2>14, SetupTable, StartsAssumption DEF ForceStop
  <2>15. CASE ShutdownTimeout
    BY <1>2, <2>15, SetupTable, StartsAssumption DEF ShutdownTimeout
  <2>16. ASSUME NEW o \in {"ok", "error"}, Return(o) PROVE TypeOK'
    BY <1>2, <2>16, SetupTable, StartsAssumption
      DEF Return, UpdateReturns, SearchReturns, WordsReturns, ApiReturns,
          FrontendReturns, Outcome
  <2>17. CASE Close
    BY <1>2, <2>17, SetupTable, StartsAssumption DEF Close
  <2>18. CASE Exit
    BY <1>2, <2>18, SetupTable, StartsAssumption DEF Exit, Ended
  <2>19. CASE Kill
    BY <1>2, <2>19, SetupTable, StartsAssumption DEF Kill, Ended, Abandoned
  <2>20. CASE Restart
    <3>1. /\ starts' \in 0..MaxStarts /\ kind' \in Kinds
          /\ schema' \in {"none", "applying", "dirty", "clean"}
      BY <1>2, <2>20, StartsAssumption DEF Restart, TypeOK
    <3>2. /\ step' \in 0..Len(Setup[kind'])
          /\ opened' \in Seq(Closers) /\ Len(opened') <= step'
      BY <1>2, <2>20, FreshTypes DEF Restart, TypeOK
    <3>3. /\ routine' \in
                [Routines -> {"off", "connect", "wait", "build", "done"}]
          /\ calls' \in
                [Requests -> {"none", "run", "ok", "failed", "lost"}]
      BY <2>20, FreshTypes, Zenon DEF Restart
    <3>4. QED
      BY <2>20, <3>1, <3>2, <3>3 DEF Restart, TypeOK
  <2>21. CASE UNCHANGED vars
    BY <1>2, <2>21, SetupTable, StartsAssumption
  <2>22. QED
    BY <1>2, NextCases, <2>1, <2>2, <2>3, <2>4, <2>5, <2>6, <2>7, <2>8, <2>9,
       <2>10, <2>11, <2>12, <2>13, <2>14, <2>15, <2>16, <2>17, <2>18, <2>19,
       <2>20, <2>21, Zenon
<1>3. QED
  BY <1>1, <1>2, PTL DEF Spec

-----------------------------------------------------------------------------
\* What has happened before each phase: who waits for whom in the main.go
\* files (update 91-104, search 87-111, words 66-85, api 96-120).
THEOREM ShapeHolds == Spec => []Shape
<1>1. Init => Shape
  BY DEF Init, Shape, Fresh, Stopped, Returned, Running, Stopping, Kinds,
      Routines
<1>2. ASSUME TypeOK, Shape, [Next]_vars PROVE Shape'
  <2> USE DEF vars, startVars, setupVars, mainVars, stopVars, TypeOK, Shape,
      Fresh, Stopped, Returned, Running, Stopping, Kinds, Routines
  <2>1. ASSUME NEW s \in Steps, SetupOk(s) PROVE Shape'
    BY <1>2, <2>1 DEF SetupOk, Due
  <2>2. CASE MigrateBegin
    BY <1>2, <2>2 DEF MigrateBegin, Due
  <2>3. CASE MigrateDone
    BY <1>2, <2>3 DEF MigrateDone, Due
  <2>4. CASE SetupFails
    BY <1>2, <2>4 DEF SetupFails, Abandoned
  <2>5. CASE Serve
    BY <1>2, <2>5 DEF Serve
  <2>6. ASSUME NEW r \in Requests, Accept(r) PROVE Shape'
    BY <1>2, <2>6 DEF Accept
  <2>7. ASSUME NEW r \in Requests, NEW o \in {"ok", "failed"}, Answer(r, o)
               PROVE Shape'
    BY <1>2, <2>7 DEF Answer
  <2>8. ASSUME NEW to \in {"wait", "done"}, Subscribe(to) PROVE Shape'
    BY <1>2, <2>8 DEF Subscribe
  <2>9. ASSUME NEW g \in Routines, NEW from \in {"wait", "build"}, NEW to \in
               {"wait", "build", "done"}, Moves(g, from, to) PROVE Shape'
    BY <1>2, <2>9 DEF Moves
  <2>10. CASE Signal
    BY <1>2, <2>10 DEF Signal
  <2>11. CASE ServeFails
    BY <1>2, <2>11 DEF ServeFails
  <2>12. CASE StopBegins
    BY <1>2, <2>12 DEF StopBegins
  <2>13. CASE Drained
    BY <1>2, <2>13 DEF Drained
  <2>14. CASE ForceStop
    BY <1>2, <2>14 DEF ForceStop
  <2>15. CASE ShutdownTimeout
    BY <1>2, <2>15 DEF ShutdownTimeout
  <2>16. ASSUME NEW o \in {"ok", "error"}, Return(o) PROVE Shape'
    BY <1>2, <2>16
      DEF Return, UpdateReturns, SearchReturns, WordsReturns, ApiReturns,
          FrontendReturns, Outcome
  <2>17. CASE Close
    BY <1>2, <2>17 DEF Close
  <2>18. CASE Exit
    BY <1>2, <2>18 DEF Exit, Ended
  <2>19. CASE Kill
    BY <1>2, <2>19 DEF Kill, Ended, Abandoned
  <2>20. CASE Restart
    BY <1>2, <2>20 DEF Restart
  <2>21. CASE UNCHANGED vars
    BY <1>2, <2>21
  <2>22. QED
    BY <1>2, NextCases, <2>1, <2>2, <2>3, <2>4, <2>5, <2>6, <2>7, <2>8, <2>9,
       <2>10, <2>11, <2>12, <2>13, <2>14, <2>15, <2>16, <2>17, <2>18, <2>19,
       <2>20, <2>21, Zenon
<1>3. QED
  BY <1>1, <1>2, TypeCorrect, PTL DEF Spec

\* No step after the migration is taken without it, in any life of the
\* process (migrations.go:30).
THEOREM MigratedHolds == Spec => []Migrated
<1>1. Init => Migrated
  BY DEF Init, Migrated
<1>2. ASSUME TypeOK, Migrated, [Next]_vars PROVE Migrated'
  <2> USE DEF vars, startVars, setupVars, mainVars, stopVars, TypeOK, Migrated
  <2>1. ASSUME NEW s \in Steps, SetupOk(s) PROVE Migrated'
    BY <1>2, <2>1, SetupTable DEF SetupOk, Due
  <2>2. CASE MigrateBegin
    BY <1>2, <2>2, SetupTable DEF MigrateBegin, Due
  <2>3. CASE MigrateDone
    BY <1>2, <2>3 DEF MigrateDone, Due
  <2>4. CASE SetupFails
    BY <1>2, <2>4 DEF SetupFails, Abandoned
  <2>5. CASE Serve
    BY <1>2, <2>5 DEF Serve
  <2>6. ASSUME NEW r \in Requests, Accept(r) PROVE Migrated'
    BY <1>2, <2>6 DEF Accept
  <2>7. ASSUME NEW r \in Requests, NEW o \in {"ok", "failed"}, Answer(r, o)
               PROVE Migrated'
    BY <1>2, <2>7 DEF Answer
  <2>8. ASSUME NEW to \in {"wait", "done"}, Subscribe(to) PROVE Migrated'
    BY <1>2, <2>8 DEF Subscribe
  <2>9. ASSUME NEW g \in Routines, NEW from \in {"wait", "build"}, NEW to \in
               {"wait", "build", "done"}, Moves(g, from, to) PROVE Migrated'
    BY <1>2, <2>9 DEF Moves
  <2>10. CASE Signal
    BY <1>2, <2>10 DEF Signal
  <2>11. CASE ServeFails
    BY <1>2, <2>11 DEF ServeFails
  <2>12. CASE StopBegins
    BY <1>2, <2>12 DEF StopBegins
  <2>13. CASE Drained
    BY <1>2, <2>13 DEF Drained
  <2>14. CASE ForceStop
    BY <1>2, <2>14 DEF ForceStop
  <2>15. CASE ShutdownTimeout
    BY <1>2, <2>15 DEF ShutdownTimeout
  <2>16. ASSUME NEW o \in {"ok", "error"}, Return(o) PROVE Migrated'
    BY <1>2, <2>16
      DEF Return, UpdateReturns, SearchReturns, WordsReturns, ApiReturns,
          FrontendReturns, Outcome
  <2>17. CASE Close
    BY <1>2, <2>17 DEF Close
  <2>18. CASE Exit
    BY <1>2, <2>18 DEF Exit, Ended
  <2>19. CASE Kill
    BY <1>2, <2>19 DEF Kill, Ended, Abandoned
  <2>20. CASE Restart
    BY <1>2, <2>20 DEF Restart
  <2>21. CASE UNCHANGED vars
    BY <1>2, <2>21
  <2>22. QED
    BY <1>2, NextCases, <2>1, <2>2, <2>3, <2>4, <2>5, <2>6, <2>7, <2>8, <2>9,
       <2>10, <2>11, <2>12, <2>13, <2>14, <2>15, <2>16, <2>17, <2>18, <2>19,
       <2>20, <2>21, Zenon
<1>3. QED
  BY <1>1, <1>2, TypeCorrect, PTL DEF Spec

-----------------------------------------------------------------------------
\* The exit code tells whether anything failed, in every process but words,
\* and 0 is for a signal only (main of each process).
THEOREM ExitsAreHonest == Spec => []ExitIsHonest
<1>1. Init => ExitIsHonest
  BY DEF Init, ExitIsHonest
<1>2. ASSUME TypeOK, Shape, ExitIsHonest, [Next]_vars PROVE ExitIsHonest'
  <2> USE DEF vars, startVars, setupVars, mainVars, stopVars, TypeOK, Shape,
      Fresh, Stopped, ExitIsHonest, Stopping
  <2>1. ASSUME NEW s \in Steps, SetupOk(s) PROVE ExitIsHonest'
    BY <1>2, <2>1 DEF SetupOk, Due
  <2>2. CASE MigrateBegin
    BY <1>2, <2>2 DEF MigrateBegin, Due
  <2>3. CASE MigrateDone
    BY <1>2, <2>3 DEF MigrateDone, Due
  <2>4. CASE SetupFails
    BY <1>2, <2>4 DEF SetupFails, Abandoned
  <2>5. CASE Serve
    BY <1>2, <2>5 DEF Serve
  <2>6. ASSUME NEW r \in Requests, Accept(r) PROVE ExitIsHonest'
    BY <1>2, <2>6 DEF Accept
  <2>7. ASSUME NEW r \in Requests, NEW o \in {"ok", "failed"}, Answer(r, o)
               PROVE ExitIsHonest'
    BY <1>2, <2>7 DEF Answer
  <2>8. ASSUME NEW to \in {"wait", "done"}, Subscribe(to) PROVE ExitIsHonest'
    BY <1>2, <2>8 DEF Subscribe
  <2>9. ASSUME NEW g \in Routines, NEW from \in {"wait", "build"}, NEW to \in
               {"wait", "build", "done"}, Moves(g, from, to) PROVE
               ExitIsHonest'
    BY <1>2, <2>9 DEF Moves
  <2>10. CASE Signal
    BY <1>2, <2>10 DEF Signal
  <2>11. CASE ServeFails
    BY <1>2, <2>11 DEF ServeFails
  <2>12. CASE StopBegins
    BY <1>2, <2>12 DEF StopBegins
  <2>13. CASE Drained
    BY <1>2, <2>13 DEF Drained
  <2>14. CASE ForceStop
    BY <1>2, <2>14 DEF ForceStop
  <2>15. CASE ShutdownTimeout
    BY <1>2, <2>15 DEF ShutdownTimeout
  <2>16. ASSUME NEW o \in {"ok", "error"}, Return(o) PROVE ExitIsHonest'
    BY <1>2, <2>16
      DEF Return, UpdateReturns, SearchReturns, WordsReturns, ApiReturns,
          FrontendReturns, Outcome
  <2>17. CASE Close
    BY <1>2, <2>17 DEF Close
  <2>18. CASE Exit
    BY <1>2, <2>18 DEF Exit, Ended
  <2>19. CASE Kill
    BY <1>2, <2>19 DEF Kill, Ended, Abandoned
  <2>20. CASE Restart
    BY <1>2, <2>20 DEF Restart
  <2>21. CASE UNCHANGED vars
    BY <1>2, <2>21
  <2>22. QED
    BY <1>2, NextCases, <2>1, <2>2, <2>3, <2>4, <2>5, <2>6, <2>7, <2>8, <2>9,
       <2>10, <2>11, <2>12, <2>13, <2>14, <2>15, <2>16, <2>17, <2>18, <2>19,
       <2>20, <2>21, Zenon
<1>3. QED
  BY <1>1, <1>2, TypeCorrect, ShapeHolds, PTL DEF Spec

\* In search and words no connection is closed under a call or under the
\* subscriber, in update and api only after the stop was forced or Serve
\* failed (update/main.go:91-104, search/main.go:87-111, api/main.go:96-120).
THEOREM NothingClosedInUse == Spec => []NothingUsesClosed
<1>1. ASSUME TypeOK, Shape PROVE NothingUsesClosed
  BY <1>1 DEF TypeOK, Shape, Fresh, Stopped, Returned, NothingUsesClosed,
              Kinds
<1>2. QED
  BY <1>1, TypeCorrect, ShapeHolds, PTL

\* The update service never serves a table whose migration was given up
\* half-way, however often it is killed and started (migrations.go:30).
THEOREM MigratedIsServed == Spec => []ServesMigrated
<1>1. ASSUME TypeOK, Shape, Migrated PROVE ServesMigrated
  BY <1>1, SetupTable DEF Shape, Stopped, Migrated, ServesMigrated
<1>2. QED
  BY <1>1, TypeCorrect, ShapeHolds, MigratedHolds, PTL

-----------------------------------------------------------------------------
(* That the end cannot get stuck *)

\* A process that runs listens or has listened, its subscriber was started if
\* it is search, and only its own parts can have failed.
Started ==
    /\ phase = "run" => server # "off"
    /\ phase = "run" /\ kind = "search" => routine["subscriber"] # "off"
    /\ "subscribe" \in failed => kind = "search"
    /\ "shutdown" \in failed => kind = "api"

\* What may be waited for at the end has begun and will not be refused.
THEOREM StartedHolds == Spec => []Started
<1>1. Init => Started
  BY DEF Init, Started
<1>2. ASSUME TypeOK, Shape, Started, [Next]_vars PROVE Started'
  <2> USE DEF vars, startVars, setupVars, mainVars, stopVars, TypeOK, Shape,
      Returned, Started, Routines, Kinds
  <2>1. ASSUME NEW s \in Steps, SetupOk(s) PROVE Started'
    BY <1>2, <2>1 DEF SetupOk, Due
  <2>2. CASE MigrateBegin
    BY <1>2, <2>2 DEF MigrateBegin, Due
  <2>3. CASE MigrateDone
    BY <1>2, <2>3 DEF MigrateDone, Due
  <2>4. CASE SetupFails
    BY <1>2, <2>4 DEF SetupFails, Abandoned
  <2>5. CASE Serve
    BY <1>2, <2>5 DEF Serve
  <2>6. ASSUME NEW r \in Requests, Accept(r) PROVE Started'
    BY <1>2, <2>6 DEF Accept
  <2>7. ASSUME NEW r \in Requests, NEW o \in {"ok", "failed"}, Answer(r, o)
               PROVE Started'
    BY <1>2, <2>7 DEF Answer
  <2>8. ASSUME NEW to \in {"wait", "done"}, Subscribe(to) PROVE Started'
    BY <1>2, <2>8 DEF Subscribe
  <2>9. ASSUME NEW g \in Routines, NEW from \in {"wait", "build"}, NEW to \in
               {"wait", "build", "done"}, Moves(g, from, to) PROVE Started'
    BY <1>2, <2>9 DEF Moves
  <2>10. CASE Signal
    BY <1>2, <2>10 DEF Signal
  <2>11. CASE ServeFails
    BY <1>2, <2>11 DEF ServeFails
  <2>12. CASE StopBegins
    BY <1>2, <2>12 DEF StopBegins
  <2>13. CASE Drained
    BY <1>2, <2>13 DEF Drained
  <2>14. CASE ForceStop
    BY <1>2, <2>14 DEF ForceStop
  <2>15. CASE ShutdownTimeout
    BY <1>2, <2>15 DEF ShutdownTimeout
  <2>16. ASSUME NEW o \in {"ok", "error"}, Return(o) PROVE Started'
    BY <1>2, <2>16
      DEF Return, UpdateReturns, SearchReturns, WordsReturns, ApiReturns,
          FrontendReturns, Outcome
  <2>17. CASE Close
    BY <1>2, <2>17 DEF Close
  <2>18. CASE Exit
    BY <1>2, <2>18 DEF Exit, Ended
  <2>19. CASE Kill
    BY <1>2, <2>19 DEF Kill, Ended, Abandoned
  <2>20. CASE Restart
    BY <1>2, <2>20 DEF Restart
  <2>21. CASE UNCHANGED vars
    BY <1>2, <2>21
  <2>22. QED
    BY <1>2, NextCases, <2>1, <2>2, <2>3, <2>4, <2>5, <2>6, <2>7, <2>8, <2>9,
       <2>10, <2>11, <2>12, <2>13, <2>14, <2>15, <2>16, <2>17, <2>18, <2>19,
       <2>20, <2>21, Zenon
<1>3. QED
  BY <1>1, <1>2, TypeCorrect, ShapeHolds, PTL DEF Spec

\* The condition under which main of a process goes on to its closers.
MayReturn ==
    \/ kind = "update" /\ ("serve" \in failed \/ stop = "done" \/ expired)
    \/ kind = "search" /\ stop = "done" /\ routine["subscriber"] = "done"
    \/ kind \in {"words", "api"} /\ stop = "done"
    \/ kind = "frontend" /\ ("serve" \in failed \/ server = "closed")

\* Once there is a signal or a failure, there is a step towards the end that
\* no handler with a live context can hold up: main may return; or the stop
\* may begin, or has nothing left to wait for; or a timer is set that breaks
\* the wait; or every handler waited for has been cancelled; or the subscriber
\* has only itself to wait for and has been told to leave
\* (update/main.go:91-104, search/main.go:91-111, words/main.go:74-85,
\* api/main.go:98-120, frontend/main.go:68-81).
EndMoves ==
    phase = "run" /\ (signal \/ failed # {}) =>
        \/ MayReturn
        \/ stop = "wait" /\ Stopping
        \/ /\ stop = "drain"
           /\ \/ Running = {}
              \/ kind \in Grpc /\ ~expired
              \/ kind = "api"
              \/ Cancelled
        \/ /\ stop = "done" /\ kind = "search" /\ Stopping
           /\ routine["subscriber"] \in {"connect", "build", "wait"}

\* Main returns with one outcome or the other as soon as it may.
LEMMA MayReturnSuffices ==
    MayReturn <=> \E o \in {"ok", "error"} :
                    \/ UpdateReturns(o) \/ SearchReturns(o) \/ WordsReturns(o)
                    \/ ApiReturns(o) \/ FrontendReturns(o)
<1>1. Outcome \in {"ok", "error"}
  BY DEF Outcome
<1>2. QED
  BY <1>1 DEF MayReturn, UpdateReturns, SearchReturns, WordsReturns,
              ApiReturns, FrontendReturns

\* The safety half of Ends: nowhere on the way does everyone wait.
THEOREM EndNeverStuck == Spec => []EndMoves
<1>1. ASSUME TypeOK, Shape, Started PROVE EndMoves
  <2>1. SUFFICES ASSUME phase = "run", signal \/ failed # {}
                 PROVE  EndMoves
    BY DEF EndMoves
  <2>2. /\ server # "off"
        /\ failed \subseteq {"serve", "subscribe", "shutdown"}
        /\ "subscribe" \in failed => kind = "search"
        /\ "shutdown" \in failed => kind = "api"
        /\ stop \in {"wait", "drain", "done"}
        /\ server \in {"off", "open", "closed"}
        /\ stop # "wait" => server # "open" /\ Stopping
    BY <1>1, <2>1 DEF TypeOK, Shape, Stopped, Started
  <2>3. CASE kind = "update" \/ kind = "frontend"
    <3>1. signal \/ "serve" \in failed
      BY <2>1, <2>2, <2>3
    <3>2. stop = "drain" /\ kind = "update" => ~expired \/ MayReturn
      BY DEF MayReturn
    <3>3. stop # "wait" /\ kind = "frontend" => MayReturn
      BY <2>2 DEF MayReturn
    <3>4. QED
      BY <2>2, <2>3, <3>1, <3>2, <3>3
        DEF EndMoves, MayReturn, Stopping, Grpc
  <2>4. CASE kind = "search"
    <3>1. routine["subscriber"] \in {"connect", "build", "wait", "done"}
      BY <1>1, <2>1, <2>4 DEF TypeOK, Started, Routines
    <3>2. Stopping
      BY <2>1, <2>4 DEF Stopping
    <3>3. QED
      BY <2>2, <2>4, <3>1, <3>2 DEF EndMoves, MayReturn, Grpc, Cancelled
  <2>5. CASE kind = "words" \/ kind = "api"
    BY <2>1, <2>2, <2>5 DEF EndMoves, MayReturn, Stopping, Grpc, Cancelled
  <2>6. QED
    BY <1>1, <2>3, <2>4, <2>5 DEF TypeOK, Kinds
<1>2. QED
  BY <1>1, TypeCorrect, ShapeHolds, StartedHolds, PTL

=============================================================================
