------------------------- MODULE SearchIndexProofs -------------------------
(***************************************************************************)
(* The safety properties of SearchIndex, for every number of changes of    *)
(* the table and of restarts of the service, and, at the end, that of      *)
(* IndexPipeline, which composes it with the catalogue.                    *)
(***************************************************************************)
EXTENDS IndexPipeline, TLAPS

\* The two builders are each other's other.
LEMMA OtherBuilder ==
    ASSUME NEW b \in Builders
    PROVE  /\ Other(b) \in Builders
           /\ \A a \in Builders : a # b => a = Other(b)
<1>1. \E a \in Builders : a # b
  BY DEF Builders
<1>2. Other(b) \in Builders /\ Other(b) # b
  BY <1>1 DEF Other
<1>3. QED
  BY <1>2 DEF Builders

\* Types, and that nothing is ahead of the table
\* (search/core/service.go:73-105).
THEOREM TypeCorrect == Spec => []TypeOK
<1>0. /\ Started \in [Builders -> {"connect", "wait", "list", "swap"}]
      /\ Started["initiator"] # "connect"
      /\ Nothing \in [Builders -> {0}]
      /\ Nobody \in [Builders -> BOOLEAN]
  BY DEF Started, Nothing, Nobody, Builders
<1>1. ASSUME Init PROVE TypeOK
  <2>1. db \in Versions /\ restarts \in 0..MaxRestarts
    BY <1>1, BoundsAssumption DEF Init, Versions
  <2>2. net \in SUBSET (0..db) /\ index \in 0..newest /\ heard \in 0..db
            /\ newest \in 0..db
    BY <1>1 DEF Init
  <2>3. snap \in [Builders -> 0..db]
    BY <1>0, <1>1 DEF Init
  <2>4. raced \in [Builders -> BOOLEAN] /\ missed \in BOOLEAN
    BY <1>0, <1>1, Zenon DEF Init
  <2>5. pc \in [Builders -> {"connect", "wait", "list", "swap"}]
            /\ pc["initiator"] # "connect" /\ trigger \in BOOLEAN
    BY <1>0, <1>1, Zenon DEF Init
  <2>6. QED
    BY <2>1, <2>2, <2>3, <2>4, <2>5, Zenon DEF TypeOK
<1>2. ASSUME TypeOK, [Next]_vars PROVE TypeOK'
  <2>1. CASE Change
    BY <1>2, BoundsAssumption, <2>1
    DEF Change, TypeOK, Versions, Builders
  <2>2. CASE Publish
    BY <1>2, BoundsAssumption, <2>2
    DEF Publish, Subscribed, TypeOK, Versions, Builders
  <2>3. CASE Lose
    BY <1>2, BoundsAssumption, <2>3
    DEF Lose, TypeOK, Versions, Builders
  <2>4. CASE Connect
    BY <1>2, BoundsAssumption, <2>4
    DEF Connect, TypeOK, Versions, Builders
  <2>5. ASSUME NEW v \in Versions, Deliver(v) PROVE TypeOK'
    BY <1>2, BoundsAssumption, <2>5
    DEF Deliver, Later, TypeOK, Versions, Builders
  <2>6. CASE TakeTrigger
    BY <1>2, BoundsAssumption, <2>6
    DEF TakeTrigger, TypeOK, Versions, Builders
  <2>7. CASE Tick
    BY <1>2, BoundsAssumption, <2>7
    DEF Tick, TypeOK, Versions, Builders
  <2>8. ASSUME NEW b \in Builders, ListOk(b) PROVE TypeOK'
    BY <1>2, BoundsAssumption, <2>8
    DEF ListOk, TypeOK, Versions, Builders
  <2>9. ASSUME NEW b \in Builders, ListFail(b) PROVE TypeOK'
    BY <1>2, BoundsAssumption, <2>9
    DEF ListFail, TypeOK, Versions, Builders
  <2>10. ASSUME NEW b \in Builders, Swap(b) PROVE TypeOK'
    BY <1>2, BoundsAssumption, <2>10, OtherBuilder
    DEF Swap, Later, TypeOK, Versions, Builders
  <2>11. CASE Restart
    <3>1. /\ db' = db /\ db \in Nat
          /\ restarts' \in 0..MaxRestarts
      BY <1>2, <2>11, BoundsAssumption DEF Restart, TypeOK, Versions
    <3>2. /\ net' = {} /\ trigger' = FALSE /\ pc' = Started
          /\ snap' = Nothing /\ index' = 0 /\ heard' = 0 /\ newest' = 0
          /\ missed' = FALSE /\ raced' = Nobody
      BY <2>11 DEF Restart
    <3>3. snap' \in [Builders -> 0..db']
      BY <1>0, <3>1, <3>2
    <3>4. raced' \in [Builders -> BOOLEAN] /\ missed' \in BOOLEAN
      BY <1>0, <3>2, Zenon
    <3>5. net' \in SUBSET (0..db') /\ index' \in 0..newest'
            /\ heard' \in 0..db' /\ newest' \in 0..db'
      BY <3>1, <3>2
    <3>6. pc' \in [Builders -> {"connect", "wait", "list", "swap"}]
            /\ pc'["initiator"] # "connect" /\ trigger' \in BOOLEAN
      BY <1>0, <3>2, Zenon
    <3>7. db' \in Versions
      BY <1>2, <3>1 DEF TypeOK
    <3>8. QED
      BY <3>1, <3>3, <3>4, <3>5, <3>6, <3>7, Zenon DEF TypeOK
  <2>12. CASE UNCHANGED vars
    BY <1>2, BoundsAssumption, <2>12
    DEF vars, TypeOK, Versions, Builders
  <2>13. QED
    BY <1>2, <2>1, <2>2, <2>3, <2>4, <2>5, <2>6, <2>7, <2>8, <2>9, <2>10,
       <2>11, <2>12 DEF Next, Build
<1>3. QED
  BY <1>1, <1>2, PTL DEF Spec

-----------------------------------------------------------------------------
\* A delivered message is never forgotten (update_subscriber.go:39-64).
THEOREM WakeupsAreKept == Spec => []NoLostWakeup
<1>1. Init => NoLostWakeup
  BY DEF Init, NoLostWakeup
<1>2. ASSUME TypeOK, NoLostWakeup, [Next]_vars PROVE NoLostWakeup'
  <2>1. CASE Change
    BY <1>2, <2>1
    DEF Change, NoLostWakeup, TypeOK, Builders
  <2>2. CASE Publish
    BY <1>2, <2>2
    DEF Publish, Subscribed, NoLostWakeup, TypeOK, Builders
  <2>3. CASE Lose
    BY <1>2, <2>3
    DEF Lose, NoLostWakeup, TypeOK, Builders
  <2>4. CASE Connect
    BY <1>2, <2>4
    DEF Connect, NoLostWakeup, TypeOK, Builders
  <2>5. ASSUME NEW v \in Versions, Deliver(v) PROVE NoLostWakeup'
    BY <1>2, <2>5
    DEF Deliver, Later, NoLostWakeup, TypeOK, Builders
  <2>6. CASE TakeTrigger
    BY <1>2, <2>6
    DEF TakeTrigger, NoLostWakeup, TypeOK, Builders
  <2>7. CASE Tick
    BY <1>2, <2>7
    DEF Tick, NoLostWakeup, TypeOK, Builders
  <2>8. ASSUME NEW b \in Builders, ListOk(b) PROVE NoLostWakeup'
    BY <1>2, <2>8
    DEF ListOk, NoLostWakeup, TypeOK, Builders
  <2>9. ASSUME NEW b \in Builders, ListFail(b) PROVE NoLostWakeup'
    BY <1>2, <2>9
    DEF ListFail, NoLostWakeup, TypeOK, Builders
  <2>10. ASSUME NEW b \in Builders, Swap(b) PROVE NoLostWakeup'
    BY <1>2, <2>10
    DEF Swap, Later, NoLostWakeup, TypeOK, Builders
  <2>11. CASE Restart
    BY <1>2, <2>11
    DEF Restart, Started, Nothing, Nobody, NoLostWakeup, TypeOK,
        Builders
  <2>12. CASE UNCHANGED vars
    BY <1>2, <2>12
    DEF vars, NoLostWakeup, TypeOK, Builders
  <2>13. QED
    BY <1>2, <2>1, <2>2, <2>3, <2>4, <2>5, <2>6, <2>7, <2>8, <2>9, <2>10,
       <2>11, <2>12 DEF Next, Build
<1>3. QED
  BY <1>1, <1>2, TypeCorrect, PTL DEF Spec

-----------------------------------------------------------------------------
\* Rows in the hands of a builder are at least as new as the index, unless
\* the other builder has installed its own since they were listed.
SnapshotCurrent ==
    \A b \in Builders : pc[b] = "swap" /\ ~raced[b] => index <= snap[b]

LEMMA SnapshotsCurrent == Spec => []SnapshotCurrent
<1>1. Init => SnapshotCurrent
  BY DEF Init, SnapshotCurrent, Started
<1>2. ASSUME TypeOK, SnapshotCurrent, [Next]_vars PROVE SnapshotCurrent'
  <2>1. CASE Change
    BY <1>2, <2>1
    DEF Change, SnapshotCurrent, TypeOK
  <2>2. CASE Publish
    BY <1>2, <2>2
    DEF Publish, Subscribed, SnapshotCurrent, TypeOK
  <2>3. CASE Lose
    BY <1>2, <2>3
    DEF Lose, SnapshotCurrent, TypeOK
  <2>4. CASE Connect
    BY <1>2, <2>4
    DEF Connect, SnapshotCurrent, TypeOK
  <2>5. ASSUME NEW v \in Versions, Deliver(v) PROVE SnapshotCurrent'
    BY <1>2, <2>5
    DEF Deliver, Later, SnapshotCurrent, TypeOK
  <2>6. CASE TakeTrigger
    BY <1>2, <2>6
    DEF TakeTrigger, SnapshotCurrent, TypeOK
  <2>7. CASE Tick
    BY <1>2, <2>7
    DEF Tick, SnapshotCurrent, TypeOK
  <2>8. ASSUME NEW b \in Builders, ListOk(b) PROVE SnapshotCurrent'
    <3>1. index <= db
      BY <1>2 DEF TypeOK, Versions
    <3>2. /\ snap' = [snap EXCEPT ![b] = db] /\ index' = index
          /\ pc' = [pc EXCEPT ![b] = "swap"]
          /\ raced' = [raced EXCEPT ![b] = FALSE]
      BY <2>8 DEF ListOk
    <3>3. QED
      BY <1>2, <3>1, <3>2 DEF SnapshotCurrent, TypeOK
  <2>9. ASSUME NEW b \in Builders, ListFail(b) PROVE SnapshotCurrent'
    BY <1>2, <2>9
    DEF ListFail, SnapshotCurrent, TypeOK
  <2>10. ASSUME NEW b \in Builders, Swap(b) PROVE SnapshotCurrent'
    BY <1>2, <2>10, OtherBuilder
    DEF Swap, Later, SnapshotCurrent, TypeOK
  <2>11. CASE Restart
    BY <1>2, <2>11
    DEF Restart, Started, Nothing, Nobody, SnapshotCurrent, TypeOK
  <2>12. CASE UNCHANGED vars
    BY <1>2, <2>12
    DEF vars, SnapshotCurrent, TypeOK
  <2>13. QED
    BY <1>2, <2>1, <2>2, <2>3, <2>4, <2>5, <2>6, <2>7, <2>8, <2>9, <2>10,
       <2>11, <2>12 DEF Next, Build
<1>3. QED
  BY <1>1, <1>2, TypeCorrect, PTL DEF Spec

\* Only a builder that was overtaken puts an older index in place of a newer
\* one (search/core/service.go:74-100).
THEOREM RegressOnlyByRace == Spec => NoRegressAlone
<1>1. ASSUME TypeOK, SnapshotCurrent, NEW b \in Builders, Swap(b),
             index' < index
      PROVE  raced[b]
  BY <1>1 DEF TypeOK, SnapshotCurrent, Swap
<1>2. TypeOK /\ SnapshotCurrent =>
        [\A b \in Builders : Swap(b) /\ index' < index => raced[b]]_vars
  BY <1>1
<1>3. QED
  BY <1>2, TypeCorrect, SnapshotsCurrent, PTL DEF NoRegressAlone

-----------------------------------------------------------------------------
(* The table at rest *)

\* A builder holds rows that are not those of the table.
Stale(b) == pc[b] = "swap" /\ snap[b] # db

Settled == index = db /\ \A b \in Builders : ~Stale(b)

\* While the table and the process stay as they are, no builder comes to hold
\* old rows that did not hold them before, so each of the two can put an old
\* index in place of a newer one once at most; any other build makes the
\* index the table; and once it is, and nobody holds old rows, it stays.
StaleFades ==
    [][db' = db /\ restarts' = restarts =>
        /\ \A b \in Builders : Stale(b)' => Stale(b) /\ ~Build(b)
        /\ \A b \in Builders : Swap(b) /\ ~Stale(b) => index' = db
        /\ Settled => Settled']_vars

\* The safety half of EventuallyFresh: whatever builds overlap when the table
\* changes for the last time, one List of each builder undoes it
\* (search/core/service.go:73-105).
THEOREM OldRowsFade == Spec => StaleFades
<1> DEFINE Fades ==
            db' = db /\ restarts' = restarts =>
              /\ \A b \in Builders : Stale(b)' => Stale(b) /\ ~Build(b)
              /\ \A b \in Builders : Swap(b) /\ ~Stale(b) => index' = db
              /\ Settled => Settled'
<1>1. ASSUME TypeOK, Next, db' = db, restarts' = restarts
      PROVE  /\ \A b \in Builders : Stale(b)' => Stale(b) /\ ~Build(b)
             /\ \A b \in Builders : Swap(b) /\ ~Stale(b) => index' = db
             /\ Settled => Settled'
  <2>1. /\ pc \in [Builders -> {"connect", "wait", "list", "swap"}]
        /\ snap \in [Builders -> 0..db] /\ restarts \in Nat
    BY <1>1, BoundsAssumption DEF TypeOK
  <2>2. ~Restart
    BY <1>1, <2>1 DEF Restart
  <2>3. ASSUME NEW b \in Builders, Build(b)
        PROVE  /\ ~Stale(b)'
               /\ \A a \in Builders \ {b} : Stale(a)' = Stale(a)
    BY <1>1, <2>1, <2>3 DEF Build, ListOk, ListFail, Swap, Stale
  <2>4. CASE \E b \in Builders : Build(b)
    <3>1. PICK b \in Builders : Build(b)
      BY <2>4
    <3>2. \A a \in Builders \ {b} : ~Build(a)
      BY <2>1, <3>1 DEF Build, ListOk, ListFail, Swap
    <3>3. \A a \in Builders : Stale(a)' => Stale(a) /\ ~Build(a)
      BY <2>3, <3>1, <3>2
    <3>4. \A a \in Builders : Swap(a) /\ ~Stale(a) => index' = db
      BY DEF Swap, Stale
    <3>5. index' = index \/ Swap(b)
      BY <3>1 DEF Build, ListOk, ListFail
    <3>6. Settled => Settled'
      BY <1>1, <3>1, <3>3, <3>4, <3>5 DEF Settled
    <3>7. QED
      BY <3>3, <3>4, <3>6
  <2>5. CASE ~ \E b \in Builders : Build(b)
    <3>1. /\ snap' = snap /\ index' = index
          /\ \A b \in Builders : pc'[b] = "swap" => pc[b] = "swap"
      BY <1>1, <2>1, <2>2, <2>5
      DEF Next, Change, Publish, Lose, Connect, Deliver, TakeTrigger, Tick
    <3>2. \A b \in Builders : Stale(b)' => Stale(b)
      BY <1>1, <3>1 DEF Stale
    <3>3. QED
      BY <1>1, <2>5, <3>1, <3>2 DEF Settled, Build
  <2>6. QED
    BY <2>4, <2>5
<1>2. ASSUME TypeOK, [Next]_vars PROVE [Fades]_vars
  BY <1>1, <1>2
<1>3. [][Fades]_vars <=> StaleFades
  BY PTL DEF StaleFades
<1>4. QED
  BY <1>2, <1>3, TypeCorrect, PTL DEF Spec

-----------------------------------------------------------------------------
\* Every step of the pipeline is one of the index or leaves it alone, so what
\* is proved of the index holds in the pipeline.
LEMMA PipelineIsIndex == PipelineSpec => Spec
<1>1. PipelineInit => Init
  BY DEF PipelineInit
<1>2. ASSUME [PipelineNext]_pipelineVars PROVE [Next]_vars
  BY <1>2 DEF PipelineNext, Work, Write, Tell, Drop, Serve, Die, Next,
              pipelineVars
<1>3. QED
  BY <1>1, <1>2, PTL DEF PipelineSpec, Spec

\* Unless silent, either the table is as announced and the announcement is
\* lost, on its way or heard, or the job that changes it is still running.
Told ==
    ~silent =>
        \/ rows = announced /\ (lost \/ db \in net \/ heard = db)
        \/ job = "update" /\ announced \subseteq rows /\ rows # announced
        \/ job = "drop" /\ rows = {} /\ announced # {}

\* No change of the table is hidden from the pipeline
\* (update/core/service.go:48-64, 173-188).
LEMMA ToldHolds == PipelineSpec => []Told
<1>1. PipelineInit => Told
  BY DEF PipelineInit, Init, C!Init, Told
<1>2. ASSUME TypeOK, Told, [PipelineNext]_pipelineVars PROVE Told'
  <2>1. CASE Work
    BY <1>2, <2>1 DEF Work, C!Begin, C!Owe, C!Stop, vars, Told
  <2>2. CASE Write
    <3>1. CASE C!Insert
      BY <1>2, <2>2, <3>1 DEF Write, Change, vars, C!Insert, Told
    <3>2. CASE C!Clear
      BY <1>2, <2>2, <3>2 DEF Write, Change, vars, C!Clear, Told
    <3>3. CASE C!LateStatement
      BY <1>2, <2>2, <3>3 DEF Write, Change, vars, C!LateStatement, Told
    <3>4. QED
      BY <2>2, <3>1, <3>2, <3>3 DEF Write
  <2>3. CASE Tell
    BY <1>2, <2>3 DEF Tell, C!Tell, Publish, vars, Told
  <2>4. CASE Drop
    BY <1>2, <2>4 DEF Drop, Lose, tableVars, Told
  <2>5. CASE Serve
    <3>1. ASSUME NEW v \in Versions, Deliver(v) PROVE Told'
      BY <1>2, <2>5, <3>1
      DEF Serve, Deliver, Later, tableVars, Told, TypeOK, Versions
    <3>2. CASE UNCHANGED <<db, net, heard>>
      BY <1>2, <2>5, <3>2 DEF Serve, tableVars, Told
    <3>3. QED
      BY <2>5, <3>1, <3>2
      DEF Serve, Connect, TakeTrigger, Tick, Build, ListOk, ListFail, Swap
  <2>6. CASE Die
    BY <1>2, <2>6 DEF Die, Restart, tableVars, Told
  <2>7. CASE UNCHANGED pipelineVars
    BY <1>2, <2>7 DEF pipelineVars, tableVars, vars, Told
  <2>8. QED
    BY <1>2, <2>1, <2>2, <2>3, <2>4, <2>5, <2>6, <2>7 DEF PipelineNext
<1>3. QED
  BY <1>1, <1>2, PipelineIsIndex, TypeCorrect, PTL DEF PipelineSpec

\* An index that has caught up with an announcement that reached it is the
\* table: what the update service promises when it notifies and what the
\* subscriber does with what it hears add up (update/core/service.go:48-64,
\* update_subscriber.go:39-64).
THEOREM AnnouncementsReachIndex == PipelineSpec => []AnnouncedIsIndexed
<1>1. ASSUME TypeOK, NoLostWakeup, Told PROVE AnnouncedIsIndexed
  BY <1>1 DEF TypeOK, NoLostWakeup, Told, AnnouncedIsIndexed, Caught,
              Versions
<1>2. QED
  BY <1>1, PipelineIsIndex, TypeCorrect, WakeupsAreKept, ToldHolds, PTL

=============================================================================
