------------------------ MODULE UpdateServiceProofs ------------------------
(***************************************************************************)
(* The safety properties of UpdateService, for every set of callers and    *)
(* workers and every number of comics.  The invariants are proved in       *)
(* layers: each layer cites the ones before it.                            *)
(* At the end, that the service implements Catalogue.                      *)
(***************************************************************************)
EXTENDS StatsRead, ServiceIndex, FiniteSetTheorems, WellFoundedInduction, TLAPS

\* A set of natural numbers that is not empty has a least element, which is
\* the one the feeder sends (service.go:85-89, 111-113).
LEMMA Next1InSet ==
    ASSUME NEW S, S \subseteq Nat, S # {}
    PROVE  /\ Next1(S) \in S
           /\ \A j \in S : Next1(S) <= j
<1>1. PICK i \in S : \A j \in S : <<j, i>> \notin OpToRel(<, Nat)
  BY NatLessThanWellFounded, WFMin, Zenon
<1>2. \A j \in S : ~(j < i)
  BY <1>1, Zenon DEF OpToRel
<1>3. \A j \in S : i <= j
  BY <1>2
<1>4. QED
  BY <1>3 DEF Next1

-----------------------------------------------------------------------------
(* Layer 1: types.  A busy worker has an id, so what it inserts is one.    *)

BusyHasId ==
    \A c \in Callers, w \in Workers :
        wpc[c][w] \in Busy => wid[c][w] # 0

TypeInv == TypeOK /\ BusyHasId

\* Where a worker may be.
WorkerPcs == Busy \cup {"recv", "done"}

\* A worker that goes on keeps the types of the variables of the call and of
\* the pool, and its id as long as it is busy.
LEMMA WorkerGoesTypes ==
    ASSUME TypeInv, NEW c \in Callers, NEW w \in Workers,
           NEW at \in WorkerPcs, NEW to \in WorkerPcs,
           to \in Busy => at \in Busy,
           WorkerGoes(c, w, at, to)
    PROVE  /\ CallTypes'
           /\ wpc' \in [Callers -> [Workers -> WorkerPcs]]
           /\ wid' \in [Callers -> [Workers -> 0..MaxID]]
           /\ BusyHasId'
<1>1. CallTypes'
  BY DEF WorkerGoes, callVars, TypeInv, TypeOK, CallTypes
<1>2. wpc' \in [Callers -> [Workers -> WorkerPcs]]
  BY DEF WorkerGoes, TypeInv, TypeOK, PoolTypes, WorkerPcs
<1>3. wid' \in [Callers -> [Workers -> 0..MaxID]]
  BY MaxIDAssumption DEF WorkerGoes, TypeInv, TypeOK, PoolTypes
<1>4. BusyHasId'
  <2>1. CASE to \in Busy
    <3>1. /\ wpc' = [wpc EXCEPT ![c][w] = to]
          /\ wid' = wid
          /\ wpc[c][w] \in Busy
      BY <2>1 DEF WorkerGoes
    <3>2. QED
      BY <2>1, <3>1 DEF TypeInv, TypeOK, PoolTypes, BusyHasId
  <2>2. CASE to \notin Busy
    <3>1. /\ wpc' = [wpc EXCEPT ![c][w] = to]
          /\ wid' = [wid EXCEPT ![c][w] = 0]
      BY <2>2 DEF WorkerGoes
    <3>2. QED
      BY <2>2, <3>1 DEF TypeInv, TypeOK, PoolTypes, BusyHasId
  <2>3. QED
    BY <2>1, <2>2
<1>5. QED
  BY <1>1, <1>2, <1>3, <1>4

\* The id of a busy worker is the id of a comic.
LEMMA BusyId ==
    ASSUME TypeInv, NEW c \in Callers, NEW w \in Workers, wpc[c][w] \in Busy
    PROVE  wid[c][w] \in IDs
BY MaxIDAssumption DEF TypeInv, TypeOK, PoolTypes, BusyHasId, IDs

\* Types are kept by every step of the service: the table, the channel and
\* the workers only ever hold ids of comics (service.go:68-147).
THEOREM TypeInvariant == Spec => []TypeInv
<1>1. Init => TypeInv
  <2> SUFFICES ASSUME Init PROVE TypeInv
    OBVIOUS
  <2>1. /\ running \in BOOLEAN
        /\ cancelled \in [Callers -> BOOLEAN]
    BY DEF Init
  <2>2. CallTypes
    <3>1. result \in [Callers -> Results]
      BY DEF Init, Results
    <3>2. lastID \in [Callers -> 0..MaxID]
      BY MaxIDAssumption DEF Init
    <3>3. QED
      BY <2>1, <3>1, <3>2 DEF Init, CallTypes
  <2>3. PoolTypes
    BY MaxIDAssumption DEF Init, PoolTypes
  <2>4. TableTypes
    BY DEF Init, TableTypes
  <2>5. BusyHasId
    BY DEF Init, BusyHasId, Busy
  <2>6. QED
    BY <2>2, <2>3, <2>4, <2>5 DEF TypeInv, TypeOK
<1>2. ASSUME TypeInv, [Next]_vars PROVE TypeInv'
  <2>1. ASSUME NEW c \in Callers, UpdateStart(c) PROVE TypeInv'
    BY <1>2, <2>1
    DEF UpdateStart, NewCall, poolVars, tellVars, TypeInv, TypeOK, CallTypes,
        PoolTypes, TableTypes, BusyHasId, JobPcs, UpdatePcs, DropPcs,
        Results, Busy
  <2>2. ASSUME NEW c \in Callers, DropStart(c) PROVE TypeInv'
    BY <1>2, <2>2
    DEF DropStart, NewCall, poolVars, tellVars, TypeInv, TypeOK, CallTypes,
        PoolTypes, TableTypes, BusyHasId, JobPcs, UpdatePcs, DropPcs,
        Results, Busy
  <2>3. ASSUME NEW c \in Callers, Reject(c) PROVE TypeInv'
    BY <1>2, <2>3
    DEF Reject, poolVars, tellVars, lateVars, TypeInv, TypeOK, CallTypes,
        PoolTypes, TableTypes, BusyHasId, JobPcs, UpdatePcs, DropPcs,
        Results, Busy
  <2>4. ASSUME NEW c \in Callers, Cancel(c) PROVE TypeInv'
    BY <1>2, <2>4
    DEF Cancel, poolVars, tellVars, lateVars, TypeInv, TypeOK, CallTypes,
        PoolTypes, TableTypes, BusyHasId, JobPcs, UpdatePcs, DropPcs,
        Results, Busy
  <2>5. ASSUME NEW c \in Callers, LastIDReply(c) PROVE TypeInv'
    BY <1>2, <2>5, MaxIDAssumption
    DEF LastIDReply, poolVars, tellVars, lateVars, TypeInv, TypeOK,
        CallTypes, PoolTypes, TableTypes, BusyHasId, JobPcs, UpdatePcs,
        DropPcs, Results, Busy
  <2>6. ASSUME NEW c \in Callers, IDsReplyUpToDate(c) PROVE TypeInv'
    BY <1>2, <2>6
    DEF IDsReplyUpToDate, ReturnWith, poolVars, tellVars, lateVars, TypeInv,
        TypeOK, CallTypes, PoolTypes, TableTypes, BusyHasId, JobPcs,
        UpdatePcs, DropPcs, Results, Busy
  <2>7. ASSUME NEW c \in Callers, IDsReplyMissing(c) PROVE TypeInv'
    BY <1>2, <2>7, MaxIDAssumption
    DEF IDsReplyMissing, Missing, tellVars, lateVars, TypeInv, TypeOK,
        CallTypes, PoolTypes, TableTypes, BusyHasId, JobPcs, UpdatePcs,
        DropPcs, Results, Busy, IDs
  <2>8. ASSUME NEW c \in Callers, MissingIDsFail(c) PROVE TypeInv'
    BY <1>2, <2>8
    DEF MissingIDsFail, ReturnWith, poolVars, tellVars, lateVars, TypeInv,
        TypeOK, CallTypes, PoolTypes, TableTypes, BusyHasId, JobPcs,
        UpdatePcs, DropPcs, Results, Busy
  <2>9. ASSUME NEW c \in Callers, Close(c) PROVE TypeInv'
    BY <1>2, <2>9
    DEF Close, poolVars, tellVars, lateVars, TypeInv, TypeOK, CallTypes,
        PoolTypes, TableTypes, BusyHasId, JobPcs, UpdatePcs, DropPcs,
        Results, Busy
  <2>10. ASSUME NEW c \in Callers, Abort(c) PROVE TypeInv'
    BY <1>2, <2>10
    DEF Abort, poolVars, tellVars, lateVars, TypeInv, TypeOK, CallTypes,
        PoolTypes, TableTypes, BusyHasId, JobPcs, UpdatePcs, DropPcs,
        Results, Busy
  <2>11. ASSUME NEW c \in Callers, WaitDone(c) PROVE TypeInv'
    BY <1>2, <2>11
    DEF WaitDone, ReturnWith, poolVars, lateVars, TypeInv, TypeOK, CallTypes,
        PoolTypes, TableTypes, BusyHasId, JobPcs, UpdatePcs, DropPcs,
        Results, Busy
  <2>12. ASSUME NEW c \in Callers, DropOk(c) PROVE TypeInv'
    BY <1>2, <2>12
    DEF DropOk, poolVars, tellVars, lateVars, TypeInv, TypeOK, CallTypes,
        PoolTypes, TableTypes, BusyHasId, JobPcs, UpdatePcs, DropPcs,
        Results, Busy
  <2>13. ASSUME NEW c \in Callers, DropFail(c) PROVE TypeInv'
    BY <1>2, <2>13
    DEF DropFail, ReturnWith, poolVars, tellVars, TypeInv, TypeOK, CallTypes,
        PoolTypes, TableTypes, BusyHasId, JobPcs, UpdatePcs, DropPcs,
        Results, Busy, TruncateStmt
  <2>14. ASSUME NEW c \in Callers, NotifyOk(c) PROVE TypeInv'
    BY <1>2, <2>14
    DEF NotifyOk, NotifyReturn, ReturnWith, poolVars, lateVars, TypeInv,
        TypeOK, CallTypes, PoolTypes, TableTypes, BusyHasId, JobPcs,
        UpdatePcs, DropPcs, Results, Busy
  <2>15. ASSUME NEW c \in Callers, NotifyFail(c) PROVE TypeInv'
    BY <1>2, <2>15
    DEF NotifyFail, NotifyReturn, ReturnWith, poolVars, lateVars, TypeInv,
        TypeOK, CallTypes, PoolTypes, TableTypes, BusyHasId, JobPcs,
        UpdatePcs, DropPcs, Results, Busy
  <2>16. ASSUME NEW c \in Callers, Release(c) PROVE TypeInv'
    <3>1. CallTypes'
      <4>1. running' \in BOOLEAN /\ cancelled' \in [Callers -> BOOLEAN]
        BY <1>2, <2>16 DEF Release, TypeInv, TypeOK, CallTypes
      <4>2. lastID' \in [Callers -> 0..MaxID]
        BY <1>2, <2>16, MaxIDAssumption DEF Release, TypeInv, TypeOK, CallTypes
      <4>3. QED
        BY <1>2, <2>16, <4>1, <4>2 DEF Release, TypeInv, TypeOK, CallTypes
    <3>2. PoolTypes' /\ BusyHasId'
      BY <1>2, <2>16 DEF Release, TypeInv, TypeOK, PoolTypes, BusyHasId
    <3>3. TableTypes'
      BY <1>2, <2>16
      DEF Release, tellVars, lateVars, TypeInv, TypeOK, TableTypes
    <3>4. QED
      BY <3>1, <3>2, <3>3 DEF TypeInv, TypeOK
  <2>17. ASSUME NEW c \in Callers, NEW w \in Workers, Send(c, w)
        PROVE  TypeInv'
    <3> DEFINE i == Next1(todo[c])
    <3>1. i \in todo[c] /\ i \in IDs
      BY <1>2, <2>17, MaxIDAssumption, Next1InSet
      DEF Send, TypeInv, TypeOK, CallTypes, IDs
    <3>2. CallTypes'
      BY <1>2, <2>17, <3>1 DEF Send, TypeInv, TypeOK, CallTypes
    <3>3. wpc' \in [Callers -> [Workers -> WorkerPcs]]
      BY <1>2, <2>17 DEF Send, TypeInv, TypeOK, PoolTypes, WorkerPcs, Busy
    <3>4. wid' \in [Callers -> [Workers -> 0..MaxID]]
      BY <1>2, <2>17, <3>1, MaxIDAssumption
      DEF Send, TypeInv, TypeOK, PoolTypes, IDs
    <3>5. BusyHasId'
      <4>1. i # 0
        BY <3>1, MaxIDAssumption DEF IDs
      <4>2. /\ wpc' = [wpc EXCEPT ![c][w] = "get"]
            /\ wid' = [wid EXCEPT ![c][w] = i]
        BY <2>17 DEF Send
      <4>3. QED
        BY <1>2, <4>1, <4>2 DEF TypeInv, TypeOK, PoolTypes, BusyHasId
    <3>6. TableTypes'
      BY <1>2, <2>17 DEF Send, tellVars, lateVars, TypeInv, TypeOK, TableTypes
    <3>7. PoolTypes'
      BY <1>2, <2>17, <3>3, <3>4 DEF Send, TypeInv, TypeOK, PoolTypes, WorkerPcs
    <3>8. QED
      BY <3>2, <3>5, <3>6, <3>7 DEF TypeInv, TypeOK
  <2>18. ASSUME NEW c \in Callers, NEW w \in Workers, GetOk(c, w)
        PROVE  TypeInv'
    <3>1. /\ CallTypes'
          /\ wpc' \in [Callers -> [Workers -> WorkerPcs]]
          /\ wid' \in [Callers -> [Workers -> 0..MaxID]]
          /\ BusyHasId'
      BY <1>2, <2>18, WorkerGoesTypes DEF GetOk, WorkerPcs, Busy
    <3>2. PoolTypes'
      BY <1>2, <2>18, <3>1 DEF GetOk, TypeInv, TypeOK, PoolTypes, WorkerPcs
    <3>3. TableTypes'
      BY <1>2, <2>18 DEF GetOk, WorkerGoes, tellVars, TypeInv, TypeOK,
         TableTypes
    <3>4. QED
      BY <3>1, <3>2, <3>3 DEF TypeInv, TypeOK
  <2>19. ASSUME NEW c \in Callers, NEW w \in Workers, GetSkip(c, w)
        PROVE  TypeInv'
    <3>1. /\ CallTypes'
          /\ wpc' \in [Callers -> [Workers -> WorkerPcs]]
          /\ wid' \in [Callers -> [Workers -> 0..MaxID]]
          /\ BusyHasId'
      BY <1>2, <2>19, WorkerGoesTypes DEF GetSkip, WorkerPcs, Busy
    <3>2. PoolTypes'
      BY <1>2, <2>19, <3>1 DEF GetSkip, TypeInv, TypeOK, PoolTypes, WorkerPcs
    <3>3. TableTypes'
      BY <1>2, <2>19 DEF GetSkip, WorkerGoes, tellVars, TypeInv, TypeOK,
         TableTypes
    <3>4. QED
      BY <3>1, <3>2, <3>3 DEF TypeInv, TypeOK
  <2>20. ASSUME NEW c \in Callers, NEW w \in Workers, NormOk(c, w)
        PROVE  TypeInv'
    <3>1. /\ CallTypes'
          /\ wpc' \in [Callers -> [Workers -> WorkerPcs]]
          /\ wid' \in [Callers -> [Workers -> 0..MaxID]]
          /\ BusyHasId'
      BY <1>2, <2>20, WorkerGoesTypes DEF NormOk, WorkerPcs, Busy
    <3>2. PoolTypes'
      BY <1>2, <2>20, <3>1 DEF NormOk, TypeInv, TypeOK, PoolTypes, WorkerPcs
    <3>3. TableTypes'
      BY <1>2, <2>20 DEF NormOk, WorkerGoes, tellVars, TypeInv, TypeOK,
         TableTypes
    <3>4. QED
      BY <3>1, <3>2, <3>3 DEF TypeInv, TypeOK
  <2>21. ASSUME NEW c \in Callers, NEW w \in Workers, CallFail(c, w)
        PROVE  TypeInv'
    <3>1. /\ CallTypes'
          /\ wpc' \in [Callers -> [Workers -> WorkerPcs]]
          /\ wid' \in [Callers -> [Workers -> 0..MaxID]]
          /\ BusyHasId'
      BY <1>2, <2>21, WorkerGoesTypes DEF CallFail, WorkerPcs, Busy
    <3>2. PoolTypes'
      BY <1>2, <2>21, <3>1, BusyId
      DEF CallFail, WorkerGoes, Logged, TypeInv, TypeOK, PoolTypes, WorkerPcs,
          Busy
    <3>3. TableTypes'
      BY <1>2, <2>21 DEF CallFail, WorkerGoes, tellVars, TypeInv, TypeOK,
         TableTypes
    <3>4. QED
      BY <3>1, <3>2, <3>3 DEF TypeInv, TypeOK
  <2>22. ASSUME NEW c \in Callers, NEW w \in Workers, AddOk(c, w)
        PROVE  TypeInv'
    <3>1. /\ CallTypes'
          /\ wpc' \in [Callers -> [Workers -> WorkerPcs]]
          /\ wid' \in [Callers -> [Workers -> 0..MaxID]]
          /\ BusyHasId'
      BY <1>2, <2>22, WorkerGoesTypes DEF AddOk, WorkerPcs, Busy
    <3>2. PoolTypes'
      BY <1>2, <2>22, <3>1 DEF AddOk, TypeInv, TypeOK, PoolTypes, WorkerPcs
    <3>3. TableTypes'
      BY <1>2, <2>22, BusyId
      DEF AddOk, WorkerGoes, tellVars, TypeInv, TypeOK, TableTypes, Busy
    <3>4. QED
      BY <3>1, <3>2, <3>3 DEF TypeInv, TypeOK
  <2>23. ASSUME NEW c \in Callers, NEW w \in Workers, AddFail(c, w)
        PROVE  TypeInv'
    <3>1. /\ CallTypes'
          /\ wpc' \in [Callers -> [Workers -> WorkerPcs]]
          /\ wid' \in [Callers -> [Workers -> 0..MaxID]]
          /\ BusyHasId'
      BY <1>2, <2>23, WorkerGoesTypes DEF AddFail, WorkerPcs, Busy
    <3>2. PoolTypes'
      BY <1>2, <2>23, <3>1, BusyId
      DEF AddFail, WorkerGoes, Logged, TypeInv, TypeOK, PoolTypes, WorkerPcs,
          Busy
    <3>3. TableTypes'
      BY <1>2, <2>23, BusyId
      DEF AddFail, WorkerGoes, tellVars, TypeInv, TypeOK, TableTypes, Busy
    <3>4. QED
      BY <3>1, <3>2, <3>3 DEF TypeInv, TypeOK
  <2>24. ASSUME NEW c \in Callers, NEW w \in Workers, WorkerExit(c, w)
        PROVE  TypeInv'
    <3>1. /\ CallTypes'
          /\ wpc' \in [Callers -> [Workers -> WorkerPcs]]
          /\ wid' \in [Callers -> [Workers -> 0..MaxID]]
          /\ BusyHasId'
      BY <1>2, <2>24, WorkerGoesTypes DEF WorkerExit, WorkerPcs, Busy
    <3>2. PoolTypes'
      BY <1>2, <2>24, <3>1 DEF WorkerExit, TypeInv, TypeOK, PoolTypes, WorkerPcs
    <3>3. TableTypes'
      BY <1>2, <2>24 DEF WorkerExit, WorkerGoes, tellVars, TypeInv, TypeOK,
         TableTypes
    <3>4. QED
      BY <3>1, <3>2, <3>3 DEF TypeInv, TypeOK
  <2>25. ASSUME NEW i \in IDs, LateInsert(i) PROVE TypeInv'
    BY <1>2, <2>25
    DEF LateInsert, callVars, poolVars, TypeInv, TypeOK, CallTypes,
        PoolTypes, TableTypes, BusyHasId, JobPcs, UpdatePcs, DropPcs,
        Results, Busy, TruncateStmt
  <2>26. CASE LateTruncate
    BY <1>2, <2>26
    DEF LateTruncate, callVars, poolVars, TypeInv, TypeOK, CallTypes,
        PoolTypes, TableTypes, BusyHasId, JobPcs, UpdatePcs, DropPcs,
        Results, Busy, TruncateStmt
  <2>27. CASE Publish
    BY <1>2, <2>27, MaxIDAssumption
    DEF Publish, callVars, poolVars, tellVars, lateVars, TypeInv, TypeOK,
        CallTypes, PoolTypes, TableTypes, BusyHasId, JobPcs, UpdatePcs,
        DropPcs, Results, Busy
  <2>28. CASE Crash
    <3>1. running' \in BOOLEAN /\ pc' \in [Callers -> JobPcs \cup {"idle"}]
      BY <2>28 DEF Crash
    <3>2. result' \in [Callers -> Results]
      BY <1>2, <2>28 DEF Crash, TypeInv, TypeOK, CallTypes, Results
    <3>3. CallTypes'
      BY <2>28, <3>1, <3>2, MaxIDAssumption DEF Crash, CallTypes
    <3>4. PoolTypes'
      BY <2>28, MaxIDAssumption DEF Crash, PoolTypes
    <3>5. BusyHasId'
      BY <2>28 DEF Crash, BusyHasId, Busy
    <3>6. Sent \subseteq IDs \cup {TruncateStmt}
      BY <1>2, BusyId DEF Sent, Inserting, Busy
    <3>7. orphans' \in SUBSET (IDs \cup {TruncateStmt})
      BY <1>2, <2>28, <3>6 DEF Crash, TypeInv, TypeOK, TableTypes
    <3>8. silent' \in BOOLEAN
      BY <1>2, <2>28, Zenon DEF Crash, TypeInv, TypeOK, TableTypes
    <3>9. TableTypes'
      BY <1>2, <2>28, <3>7, <3>8 DEF Crash, TypeInv, TypeOK, TableTypes
    <3>10. QED
      BY <3>3, <3>4, <3>5, <3>9 DEF TypeInv, TypeOK
  <2>29. CASE UNCHANGED vars
    BY <1>2, <2>29
    DEF vars, TypeInv, TypeOK, CallTypes, PoolTypes, TableTypes, BusyHasId,
        JobPcs, UpdatePcs, DropPcs, Results, Busy
  <2>30. QED
    BY <1>2, <2>1, <2>2, <2>3, <2>4, <2>5, <2>6, <2>7, <2>8, <2>9, <2>10,
       <2>11, <2>12, <2>13, <2>14, <2>15, <2>16, <2>17, <2>18, <2>19, <2>20,
       <2>21, <2>22, <2>23, <2>24, <2>25, <2>26, <2>27, <2>28, <2>29
    DEF Next, CallStart, CallerStep, WorkerStep
<1>3. QED
  BY <1>1, <1>2, PTL DEF Spec

\* The type invariant of the model itself (service.go:38-188).
THEOREM TypeCorrect == Spec => []TypeOK
<1>1. TypeInv => TypeOK
  BY DEF TypeInv
<1>2. QED
  BY <1>1, TypeInvariant, PTL

-----------------------------------------------------------------------------
(* Layer 2: control.  At most one caller is in a call, the flag says       *)
(* whether one is, only that caller's workers are there, and only a feeder *)
(* has ids left to send.                                                   *)

OneCaller ==
    /\ \A c, d \in Callers : pc[c] # "idle" /\ pc[d] # "idle" => c = d
    /\ running <=> \E c \in Callers : pc[c] # "idle"

WorkersAtWork ==
    /\ \A c \in Callers, w \in Workers :
        wpc[c][w] # "done" => pc[c] \in {"feed", "wait"}
    /\ \A c \in Callers : todo[c] # {} => pc[c] = "feed"

JobInv == OneCaller /\ WorkersAtWork

\* The control of the service: one job, and its workers end before it does
\* (service.go:39-42, 93-122, 174-177).
THEOREM JobInvariant == Spec => []JobInv
<1>1. Init => JobInv
  BY DEF Init, JobInv, OneCaller, WorkersAtWork
<1>2. ASSUME TypeInv, JobInv, [Next]_vars PROVE JobInv'
  <2>1. ASSUME NEW c \in Callers, UpdateStart(c) PROVE JobInv'
    BY <1>2, <2>1
    DEF UpdateStart, NewCall, poolVars, tellVars, TypeInv, TypeOK, CallTypes,
        PoolTypes, JobInv, OneCaller, WorkersAtWork
  <2>2. ASSUME NEW c \in Callers, DropStart(c) PROVE JobInv'
    BY <1>2, <2>2
    DEF DropStart, NewCall, poolVars, tellVars, TypeInv, TypeOK, CallTypes,
        PoolTypes, JobInv, OneCaller, WorkersAtWork
  <2>3. ASSUME NEW c \in Callers, Reject(c) PROVE JobInv'
    BY <1>2, <2>3
    DEF Reject, poolVars, tellVars, lateVars, TypeInv, TypeOK, CallTypes,
        PoolTypes, JobInv, OneCaller, WorkersAtWork
  <2>4. ASSUME NEW c \in Callers, Cancel(c) PROVE JobInv'
    BY <1>2, <2>4
    DEF Cancel, poolVars, tellVars, lateVars, TypeInv, TypeOK, CallTypes,
        PoolTypes, JobInv, OneCaller, WorkersAtWork
  <2>5. ASSUME NEW c \in Callers, LastIDReply(c) PROVE JobInv'
    BY <1>2, <2>5
    DEF LastIDReply, poolVars, tellVars, lateVars, TypeInv, TypeOK,
        CallTypes, PoolTypes, JobInv, OneCaller, WorkersAtWork
  <2>6. ASSUME NEW c \in Callers, IDsReplyUpToDate(c) PROVE JobInv'
    BY <1>2, <2>6
    DEF IDsReplyUpToDate, ReturnWith, poolVars, tellVars, lateVars, TypeInv,
        TypeOK, CallTypes, PoolTypes, JobInv, OneCaller, WorkersAtWork
  <2>7. ASSUME NEW c \in Callers, IDsReplyMissing(c) PROVE JobInv'
    BY <1>2, <2>7
    DEF IDsReplyMissing, Missing, tellVars, lateVars, TypeInv, TypeOK,
        CallTypes, PoolTypes, JobInv, OneCaller, WorkersAtWork
  <2>8. ASSUME NEW c \in Callers, MissingIDsFail(c) PROVE JobInv'
    BY <1>2, <2>8
    DEF MissingIDsFail, ReturnWith, poolVars, tellVars, lateVars, TypeInv,
        TypeOK, CallTypes, PoolTypes, JobInv, OneCaller, WorkersAtWork
  <2>9. ASSUME NEW c \in Callers, Close(c) PROVE JobInv'
    BY <1>2, <2>9
    DEF Close, poolVars, tellVars, lateVars, TypeInv, TypeOK, CallTypes,
        PoolTypes, JobInv, OneCaller, WorkersAtWork
  <2>10. ASSUME NEW c \in Callers, Abort(c) PROVE JobInv'
    BY <1>2, <2>10
    DEF Abort, poolVars, tellVars, lateVars, TypeInv, TypeOK, CallTypes,
        PoolTypes, JobInv, OneCaller, WorkersAtWork
  <2>11. ASSUME NEW c \in Callers, WaitDone(c) PROVE JobInv'
    <3>1. PICK p \in {"notify", "release"} : pc' = [pc EXCEPT ![c] = p]
      BY <2>11 DEF WaitDone, ReturnWith
    <3>2. /\ pc[c] \notin {"idle", "feed"}
          /\ UNCHANGED <<running, todo, wpc>>
      BY <2>11 DEF WaitDone, ReturnWith, poolVars
    <3>3. \A w \in Workers : wpc[c][w] = "done"
      BY <1>2, <2>11 DEF WaitDone, ReturnWith, JobInv,
          WorkersAtWork
    <3>4. QED
      BY <1>2, <3>1, <3>2, <3>3
      DEF TypeInv, TypeOK, CallTypes, JobInv, OneCaller, WorkersAtWork
  <2>12. ASSUME NEW c \in Callers, DropOk(c) PROVE JobInv'
    BY <1>2, <2>12
    DEF DropOk, poolVars, tellVars, lateVars, TypeInv, TypeOK, CallTypes,
        PoolTypes, JobInv, OneCaller, WorkersAtWork
  <2>13. ASSUME NEW c \in Callers, DropFail(c) PROVE JobInv'
    BY <1>2, <2>13
    DEF DropFail, ReturnWith, poolVars, tellVars, TypeInv, TypeOK, CallTypes,
        PoolTypes, JobInv, OneCaller, WorkersAtWork
  <2>14. ASSUME NEW c \in Callers, NotifyOk(c) PROVE JobInv'
    <3>1. PICK p \in {"release"} : pc' = [pc EXCEPT ![c] = p]
      BY <2>14 DEF NotifyOk, NotifyReturn, ReturnWith
    <3>2. /\ pc[c] \notin {"idle", "feed"}
          /\ UNCHANGED <<running, todo, wpc>>
      BY <2>14 DEF NotifyOk, NotifyReturn, ReturnWith, poolVars
    <3>3. \A w \in Workers : wpc[c][w] = "done"
      BY <1>2, <2>14 DEF NotifyOk, NotifyReturn, ReturnWith, JobInv,
          WorkersAtWork
    <3>4. QED
      BY <1>2, <3>1, <3>2, <3>3
      DEF TypeInv, TypeOK, CallTypes, JobInv, OneCaller, WorkersAtWork
  <2>15. ASSUME NEW c \in Callers, NotifyFail(c) PROVE JobInv'
    <3>1. PICK p \in {"release"} : pc' = [pc EXCEPT ![c] = p]
      BY <2>15 DEF NotifyFail, NotifyReturn, ReturnWith
    <3>2. /\ pc[c] \notin {"idle", "feed"}
          /\ UNCHANGED <<running, todo, wpc>>
      BY <2>15 DEF NotifyFail, NotifyReturn, ReturnWith, poolVars
    <3>3. \A w \in Workers : wpc[c][w] = "done"
      BY <1>2, <2>15 DEF NotifyFail, NotifyReturn, ReturnWith, JobInv,
          WorkersAtWork
    <3>4. QED
      BY <1>2, <3>1, <3>2, <3>3
      DEF TypeInv, TypeOK, CallTypes, JobInv, OneCaller, WorkersAtWork
  <2>16. ASSUME NEW c \in Callers, Release(c) PROVE JobInv'
    BY <1>2, <2>16
    DEF Release, tellVars, lateVars, TypeInv, TypeOK, CallTypes, PoolTypes,
        JobInv, OneCaller, WorkersAtWork
  <2>17. ASSUME NEW c \in Callers, NEW w \in Workers, Send(c, w) PROVE JobInv'
    BY <1>2, <2>17
    DEF Send, tellVars, lateVars, TypeInv, TypeOK, CallTypes, PoolTypes,
        JobInv, OneCaller, WorkersAtWork
  <2>18. ASSUME NEW c \in Callers, NEW w \in Workers, GetOk(c, w)
        PROVE  JobInv'
    BY <1>2, <2>18
    DEF GetOk, WorkerGoes, callVars, tellVars, TypeInv, TypeOK, CallTypes,
        PoolTypes, JobInv, OneCaller, WorkersAtWork
  <2>19. ASSUME NEW c \in Callers, NEW w \in Workers, GetSkip(c, w)
        PROVE  JobInv'
    BY <1>2, <2>19
    DEF GetSkip, WorkerGoes, callVars, tellVars, TypeInv, TypeOK, CallTypes,
        PoolTypes, JobInv, OneCaller, WorkersAtWork
  <2>20. ASSUME NEW c \in Callers, NEW w \in Workers, NormOk(c, w)
        PROVE  JobInv'
    BY <1>2, <2>20
    DEF NormOk, WorkerGoes, callVars, tellVars, TypeInv, TypeOK, CallTypes,
        PoolTypes, JobInv, OneCaller, WorkersAtWork
  <2>21. ASSUME NEW c \in Callers, NEW w \in Workers, CallFail(c, w)
        PROVE  JobInv'
    BY <1>2, <2>21
    DEF CallFail, WorkerGoes, Logged, callVars, tellVars, TypeInv, TypeOK,
        CallTypes, PoolTypes, JobInv, OneCaller, WorkersAtWork
  <2>22. ASSUME NEW c \in Callers, NEW w \in Workers, AddOk(c, w)
        PROVE  JobInv'
    BY <1>2, <2>22
    DEF AddOk, WorkerGoes, callVars, tellVars, TypeInv, TypeOK, CallTypes,
        PoolTypes, JobInv, OneCaller, WorkersAtWork
  <2>23. ASSUME NEW c \in Callers, NEW w \in Workers, AddFail(c, w)
        PROVE  JobInv'
    BY <1>2, <2>23
    DEF AddFail, WorkerGoes, Logged, callVars, tellVars, TypeInv, TypeOK,
        CallTypes, PoolTypes, JobInv, OneCaller, WorkersAtWork
  <2>24. ASSUME NEW c \in Callers, NEW w \in Workers, WorkerExit(c, w)
        PROVE  JobInv'
    BY <1>2, <2>24
    DEF WorkerExit, WorkerGoes, callVars, tellVars, TypeInv, TypeOK,
        CallTypes, PoolTypes, JobInv, OneCaller, WorkersAtWork
  <2>25. ASSUME NEW i \in IDs, LateInsert(i) PROVE JobInv'
    BY <1>2, <2>25
    DEF LateInsert, callVars, poolVars, TypeInv, TypeOK, CallTypes,
        PoolTypes, JobInv, OneCaller, WorkersAtWork
  <2>26. CASE LateTruncate
    BY <1>2, <2>26
    DEF LateTruncate, callVars, poolVars, TypeInv, TypeOK, CallTypes,
        PoolTypes, JobInv, OneCaller, WorkersAtWork
  <2>27. CASE Publish
    BY <1>2, <2>27
    DEF Publish, callVars, poolVars, tellVars, lateVars, TypeInv, TypeOK,
        CallTypes, PoolTypes, JobInv, OneCaller, WorkersAtWork
  <2>28. CASE Crash
    BY <1>2, <2>28
    DEF Crash, TypeInv, TypeOK, CallTypes, PoolTypes, JobInv, OneCaller,
        WorkersAtWork
  <2>29. CASE UNCHANGED vars
    BY <1>2, <2>29
    DEF vars, TypeInv, TypeOK, CallTypes, PoolTypes, JobInv, OneCaller,
        WorkersAtWork
  <2>30. QED
    BY <1>2, <2>1, <2>2, <2>3, <2>4, <2>5, <2>6, <2>7, <2>8, <2>9, <2>10,
       <2>11, <2>12, <2>13, <2>14, <2>15, <2>16, <2>17, <2>18, <2>19, <2>20,
       <2>21, <2>22, <2>23, <2>24, <2>25, <2>26, <2>27, <2>28, <2>29
    DEF Next, CallStart, CallerStep, WorkerStep
<1>3. QED
  BY <1>1, <1>2, TypeInvariant, PTL DEF Spec

\* One job at a time, whoever calls, and no worker left behind.
THEOREM OneJobAtATime == Spec => []OneJob
<1>1. ASSUME TypeInv, JobInv PROVE OneJob
  <2>1. \A c \in Callers : Active(c) => pc[c] # "idle"
    BY <1>1 DEF JobInv, WorkersAtWork, Active
  <2>2. running = (\E c \in Callers : pc[c] # "idle")
    BY <1>1, Zenon DEF TypeInv, TypeOK, CallTypes, JobInv, OneCaller
  <2>3. QED
    BY <1>1, <2>1, <2>2 DEF JobInv, OneCaller, OneJob
<1>2. QED
  BY <1>1, TypeInvariant, JobInvariant, PTL

-----------------------------------------------------------------------------
(* Layer 3: the ids on their way into the table are not in it.             *)

\* No INSERT of a job meets its own row (service.go:74-90, 141).
THEOREM NoDuplicates == Spec => []NoDuplicateInsert
<1>1. Init => NoDuplicateInsert
  BY DEF Init, NoDuplicateInsert, Held, Busy
<1>2. ASSUME TypeInv, JobInv, NoDuplicateInsert, [Next]_vars
      PROVE  NoDuplicateInsert'
  <2>1. ASSUME NEW c \in Callers, UpdateStart(c) PROVE NoDuplicateInsert'
    <3>1. /\ todo' = todo /\ wpc' = wpc
          /\ \A d \in Callers : pc[d] = "idle"
      BY <1>2, <2>1 DEF UpdateStart, NewCall, poolVars, JobInv, OneCaller
    <3>2. \A d \in Callers :
            todo[d] = {} /\ \A w \in Workers : wpc[d][w] = "done"
      BY <1>2, <3>1 DEF JobInv, WorkersAtWork
    <3>3. QED
      BY <3>1, <3>2 DEF NoDuplicateInsert, Held, Busy
  <2>2. ASSUME NEW c \in Callers, DropStart(c) PROVE NoDuplicateInsert'
    <3>1. /\ todo' = todo /\ wpc' = wpc
          /\ \A d \in Callers : pc[d] = "idle"
      BY <1>2, <2>2 DEF DropStart, NewCall, poolVars, JobInv, OneCaller
    <3>2. \A d \in Callers :
            todo[d] = {} /\ \A w \in Workers : wpc[d][w] = "done"
      BY <1>2, <3>1 DEF JobInv, WorkersAtWork
    <3>3. QED
      BY <3>1, <3>2 DEF NoDuplicateInsert, Held, Busy
  <2>3. ASSUME NEW c \in Callers, Reject(c) PROVE NoDuplicateInsert'
    BY <1>2, <2>3
    DEF Reject, poolVars, tellVars, lateVars, TypeInv, TypeOK, CallTypes,
        PoolTypes, JobInv, OneCaller, WorkersAtWork, NoDuplicateInsert, Held,
        Busy
  <2>4. ASSUME NEW c \in Callers, Cancel(c) PROVE NoDuplicateInsert'
    BY <1>2, <2>4
    DEF Cancel, poolVars, tellVars, lateVars, TypeInv, TypeOK, CallTypes,
        PoolTypes, JobInv, OneCaller, WorkersAtWork, NoDuplicateInsert, Held,
        Busy
  <2>5. ASSUME NEW c \in Callers, LastIDReply(c) PROVE NoDuplicateInsert'
    BY <1>2, <2>5
    DEF LastIDReply, poolVars, tellVars, lateVars, TypeInv, TypeOK,
        CallTypes, PoolTypes, JobInv, OneCaller, WorkersAtWork,
        NoDuplicateInsert, Held, Busy
  <2>6. ASSUME NEW c \in Callers, IDsReplyUpToDate(c) PROVE NoDuplicateInsert'
    BY <1>2, <2>6
    DEF IDsReplyUpToDate, ReturnWith, poolVars, tellVars, lateVars, TypeInv,
        TypeOK, CallTypes, PoolTypes, JobInv, OneCaller, WorkersAtWork,
        NoDuplicateInsert, Held, Busy
  <2>7. ASSUME NEW c \in Callers, IDsReplyMissing(c) PROVE NoDuplicateInsert'
    BY <1>2, <2>7
    DEF IDsReplyMissing, Missing, tellVars, lateVars, TypeInv, TypeOK,
        CallTypes, PoolTypes, JobInv, OneCaller, WorkersAtWork,
        NoDuplicateInsert, Held, Busy
  <2>8. ASSUME NEW c \in Callers, MissingIDsFail(c) PROVE NoDuplicateInsert'
    BY <1>2, <2>8
    DEF MissingIDsFail, ReturnWith, poolVars, tellVars, lateVars, TypeInv,
        TypeOK, CallTypes, PoolTypes, JobInv, OneCaller, WorkersAtWork,
        NoDuplicateInsert, Held, Busy
  <2>9. ASSUME NEW c \in Callers, Close(c) PROVE NoDuplicateInsert'
    BY <1>2, <2>9
    DEF Close, poolVars, tellVars, lateVars, TypeInv, TypeOK, CallTypes,
        PoolTypes, JobInv, OneCaller, WorkersAtWork, NoDuplicateInsert, Held,
        Busy
  <2>10. ASSUME NEW c \in Callers, Abort(c) PROVE NoDuplicateInsert'
    BY <1>2, <2>10
    DEF Abort, poolVars, tellVars, lateVars, TypeInv, TypeOK, CallTypes,
        PoolTypes, JobInv, OneCaller, WorkersAtWork, NoDuplicateInsert, Held,
        Busy
  <2>11. ASSUME NEW c \in Callers, WaitDone(c) PROVE NoDuplicateInsert'
    BY <1>2, <2>11
    DEF WaitDone, ReturnWith, poolVars, lateVars, TypeInv, TypeOK, CallTypes,
        PoolTypes, JobInv, OneCaller, WorkersAtWork, NoDuplicateInsert, Held,
        Busy
  <2>12. ASSUME NEW c \in Callers, DropOk(c) PROVE NoDuplicateInsert'
    BY <1>2, <2>12
    DEF DropOk, poolVars, tellVars, lateVars, TypeInv, TypeOK, CallTypes,
        PoolTypes, JobInv, OneCaller, WorkersAtWork, NoDuplicateInsert, Held,
        Busy
  <2>13. ASSUME NEW c \in Callers, DropFail(c) PROVE NoDuplicateInsert'
    BY <1>2, <2>13
    DEF DropFail, ReturnWith, poolVars, tellVars, TypeInv, TypeOK, CallTypes,
        PoolTypes, JobInv, OneCaller, WorkersAtWork, NoDuplicateInsert, Held,
        Busy
  <2>14. ASSUME NEW c \in Callers, NotifyOk(c) PROVE NoDuplicateInsert'
    BY <1>2, <2>14
    DEF NotifyOk, NotifyReturn, ReturnWith, poolVars, lateVars, TypeInv,
        TypeOK, CallTypes, PoolTypes, JobInv, OneCaller, WorkersAtWork,
        NoDuplicateInsert, Held, Busy
  <2>15. ASSUME NEW c \in Callers, NotifyFail(c) PROVE NoDuplicateInsert'
    BY <1>2, <2>15
    DEF NotifyFail, NotifyReturn, ReturnWith, poolVars, lateVars, TypeInv,
        TypeOK, CallTypes, PoolTypes, JobInv, OneCaller, WorkersAtWork,
        NoDuplicateInsert, Held, Busy
  <2>16. ASSUME NEW c \in Callers, Release(c) PROVE NoDuplicateInsert'
    BY <1>2, <2>16
    DEF Release, tellVars, lateVars, TypeInv, TypeOK, CallTypes, PoolTypes,
        JobInv, OneCaller, WorkersAtWork, NoDuplicateInsert, Held, Busy
  <2>17. ASSUME NEW c \in Callers, NEW w \in Workers, Send(c, w)
        PROVE  NoDuplicateInsert'
    <3> DEFINE i == Next1(todo[c])
    <3>1. i \in todo[c]
      BY <1>2, <2>17, MaxIDAssumption, Next1InSet
      DEF Send, TypeInv, TypeOK, CallTypes, IDs
    <3>2. /\ todo' = [todo EXCEPT ![c] = @ \ {i}]
          /\ wid' = [wid EXCEPT ![c][w] = i]
          /\ wpc' = [wpc EXCEPT ![c][w] = "get"]
          /\ UNCHANGED <<db, late>>
          /\ wpc[c][w] \notin Busy
      BY <2>17 DEF Send, lateVars, Busy
    <3> HIDE DEF i
    <3>3. ASSUME NEW d \in Callers, d # c
          PROVE  todo'[d] = todo[d] /\ wid'[d] = wid[d] /\ wpc'[d] = wpc[d]
      BY <1>2, <3>2, <3>3 DEF TypeInv, TypeOK, CallTypes, PoolTypes
    <3>4. /\ todo'[c] = todo[c] \ {i}
          /\ wpc'[c][w] \in Busy /\ wid'[c][w] = i
          /\ \A v \in Workers \ {w} :
                wid'[c][v] = wid[c][v] /\ wpc'[c][v] = wpc[c][v]
      BY <1>2, <3>2 DEF TypeInv, TypeOK, CallTypes, PoolTypes, Busy
    <3>5. /\ i \in db => i \in late
          /\ \A v \in Workers : wpc[c][v] \in Busy => wid[c][v] # i
      BY <1>2, <3>1 DEF NoDuplicateInsert, Held
    <3>6. Held(c)' = Held(c) \cup {i}
      BY <3>2, <3>4 DEF Held
    <3>7. /\ (todo[c] \cup Held(c))' \cap db' \subseteq late'
          /\ todo'[c] \cap Held(c)' = {}
      BY <1>2, <3>1, <3>2, <3>4, <3>5, <3>6 DEF NoDuplicateInsert, Held
    <3>8. ASSUME NEW u \in Workers, NEW v \in Workers,
                 wpc'[c][u] \in Busy, wpc'[c][v] \in Busy,
                 wid'[c][u] = wid'[c][v]
          PROVE  u = v
      BY <1>2, <3>4, <3>5, <3>8 DEF NoDuplicateInsert
    <3>9. ASSUME NEW d \in Callers, d # c
          PROVE  /\ (todo[d] \cup Held(d))' \cap db' \subseteq late'
                 /\ todo'[d] \cap Held(d)' = {}
                 /\ \A u, v \in Workers :
                      wpc'[d][u] \in Busy /\ wpc'[d][v] \in Busy
                        /\ wid'[d][u] = wid'[d][v] => u = v
      BY <1>2, <3>2, <3>3, <3>9 DEF NoDuplicateInsert, Held
    <3>10. QED
      BY <3>7, <3>8, <3>9 DEF NoDuplicateInsert
  <2>18. ASSUME NEW c \in Callers, NEW w \in Workers, GetOk(c, w)
        PROVE  NoDuplicateInsert'
    BY <1>2, <2>18
    DEF GetOk, WorkerGoes, callVars, tellVars, TypeInv, TypeOK, CallTypes,
        PoolTypes, JobInv, OneCaller, WorkersAtWork, NoDuplicateInsert, Held,
        Busy
  <2>19. ASSUME NEW c \in Callers, NEW w \in Workers, GetSkip(c, w)
        PROVE  NoDuplicateInsert'
    BY <1>2, <2>19
    DEF GetSkip, WorkerGoes, callVars, tellVars, TypeInv, TypeOK, CallTypes,
        PoolTypes, JobInv, OneCaller, WorkersAtWork, NoDuplicateInsert, Held,
        Busy
  <2>20. ASSUME NEW c \in Callers, NEW w \in Workers, NormOk(c, w)
        PROVE  NoDuplicateInsert'
    BY <1>2, <2>20
    DEF NormOk, WorkerGoes, callVars, tellVars, TypeInv, TypeOK, CallTypes,
        PoolTypes, JobInv, OneCaller, WorkersAtWork, NoDuplicateInsert, Held,
        Busy
  <2>21. ASSUME NEW c \in Callers, NEW w \in Workers, CallFail(c, w)
        PROVE  NoDuplicateInsert'
    BY <1>2, <2>21
    DEF CallFail, WorkerGoes, Logged, callVars, tellVars, TypeInv, TypeOK,
        CallTypes, PoolTypes, JobInv, OneCaller, WorkersAtWork,
        NoDuplicateInsert, Held, Busy
  <2>22. ASSUME NEW c \in Callers, NEW w \in Workers, AddOk(c, w)
        PROVE  NoDuplicateInsert'
    <3> DEFINE i == wid[c][w]
    <3>1. /\ wpc[c][w] = "add" /\ wpc' = [wpc EXCEPT ![c][w] = "recv"]
          /\ wid' = [wid EXCEPT ![c][w] = 0]
          /\ UNCHANGED <<todo, late>>
          /\ db' = db \cup {i}
      BY <2>22 DEF AddOk, WorkerGoes, callVars, Busy
    <3>2. /\ wpc'[c][w] \notin Busy
          /\ \A v \in Workers \ {w} :
                wid'[c][v] = wid[c][v] /\ wpc'[c][v] = wpc[c][v]
      BY <1>2, <3>1 DEF TypeInv, TypeOK, PoolTypes, Busy
    <3>3. /\ i \notin todo[c]
          /\ \A v \in Workers \ {w} : wpc[c][v] \in Busy => wid[c][v] # i
      BY <1>2, <3>1 DEF NoDuplicateInsert, Held, Busy
    <3> HIDE DEF i
    <3>4. Held(c)' \subseteq Held(c) \ {i}
      BY <3>2, <3>3 DEF Held
    <3>5. /\ (todo[c] \cup Held(c))' \cap db' \subseteq late'
          /\ todo'[c] \cap Held(c)' = {}
      BY <1>2, <3>1, <3>3, <3>4 DEF NoDuplicateInsert
    <3>6. ASSUME NEW u \in Workers, NEW v \in Workers,
                 wpc'[c][u] \in Busy, wpc'[c][v] \in Busy,
                 wid'[c][u] = wid'[c][v]
          PROVE  u = v
      BY <1>2, <3>2, <3>6 DEF NoDuplicateInsert
    <3>7. ASSUME NEW d \in Callers, d # c
          PROVE  /\ todo'[d] = {}
                 /\ \A v \in Workers : wpc'[d][v] \notin Busy
      <4>1. pc[d] = "idle"
        BY <1>2, <3>1, <3>7 DEF JobInv, OneCaller, WorkersAtWork
      <4>2. todo[d] = {} /\ \A v \in Workers : wpc[d][v] = "done"
        BY <1>2, <4>1 DEF JobInv, WorkersAtWork
      <4>3. QED
        BY <1>2, <3>1, <3>7, <4>2 DEF TypeInv, TypeOK, PoolTypes, Busy
    <3>8. QED
      BY <3>5, <3>6, <3>7 DEF NoDuplicateInsert, Held
  <2>23. ASSUME NEW c \in Callers, NEW w \in Workers, AddFail(c, w)
        PROVE  NoDuplicateInsert'
    BY <1>2, <2>23
    DEF AddFail, WorkerGoes, Logged, callVars, tellVars, TypeInv, TypeOK,
        CallTypes, PoolTypes, JobInv, OneCaller, WorkersAtWork,
        NoDuplicateInsert, Held, Busy
  <2>24. ASSUME NEW c \in Callers, NEW w \in Workers, WorkerExit(c, w)
        PROVE  NoDuplicateInsert'
    BY <1>2, <2>24
    DEF WorkerExit, WorkerGoes, callVars, tellVars, TypeInv, TypeOK,
        CallTypes, PoolTypes, JobInv, OneCaller, WorkersAtWork,
        NoDuplicateInsert, Held, Busy
  <2>25. ASSUME NEW i \in IDs, LateInsert(i) PROVE NoDuplicateInsert'
    BY <1>2, <2>25
    DEF LateInsert, callVars, poolVars, TypeInv, TypeOK, CallTypes,
        PoolTypes, JobInv, OneCaller, WorkersAtWork, NoDuplicateInsert, Held,
        Busy
  <2>26. CASE LateTruncate
    BY <1>2, <2>26
    DEF LateTruncate, callVars, poolVars, TypeInv, TypeOK, CallTypes,
        PoolTypes, JobInv, OneCaller, WorkersAtWork, NoDuplicateInsert, Held,
        Busy
  <2>27. CASE Publish
    BY <1>2, <2>27
    DEF Publish, callVars, poolVars, tellVars, lateVars, TypeInv, TypeOK,
        CallTypes, PoolTypes, JobInv, OneCaller, WorkersAtWork,
        NoDuplicateInsert, Held, Busy
  <2>28. CASE Crash
    BY <1>2, <2>28
    DEF Crash, TypeInv, TypeOK, CallTypes, PoolTypes, JobInv, OneCaller,
        WorkersAtWork, NoDuplicateInsert, Held, Busy
  <2>29. CASE UNCHANGED vars
    BY <1>2, <2>29
    DEF vars, TypeInv, TypeOK, CallTypes, PoolTypes, JobInv, OneCaller,
        WorkersAtWork, NoDuplicateInsert, Held, Busy
  <2>30. QED
    BY <1>2, <2>1, <2>2, <2>3, <2>4, <2>5, <2>6, <2>7, <2>8, <2>9, <2>10,
       <2>11, <2>12, <2>13, <2>14, <2>15, <2>16, <2>17, <2>18, <2>19, <2>20,
       <2>21, <2>22, <2>23, <2>24, <2>25, <2>26, <2>27, <2>28, <2>29
    DEF Next, CallStart, CallerStep, WorkerStep
<1>3. QED
  BY <1>1, <1>2, TypeInvariant, JobInvariant, PTL DEF Spec

-----------------------------------------------------------------------------
(* Layer 4: until a job notifies, every id it was told of is queued, in a  *)
(* worker's hands, or dealt with.  An aborted feed is excepted: its        *)
(* context stays cancelled until the call returns.                         *)

Accounted(c) ==
    1..lastID[c] \subseteq
        todo[c] \cup Held(c) \cup db \cup failed[c] \cup NotFound \cup late

\* From the start of the workers to the notification, if it is not aborted.
Unaborted(c) ==
    \/ pc[c] \in {"feed", "notify"}
    \/ pc[c] = "wait" /\ ~cancelled[c]

Coverage == \A c \in Callers : Unaborted(c) => Accounted(c)

\* While a worker of c is there, c is the only one at work.
LEMMA WorkerAlone ==
    ASSUME TypeInv, JobInv, NEW c \in Callers, NEW w \in Workers,
           wpc[c][w] # "done", NEW d \in Callers, d # c
    PROVE  pc[d] = "idle"
BY DEF JobInv, OneCaller, WorkersAtWork

\* A worker that has dealt with its id may let it go.
LEMMA WorkerLeavesId ==
    ASSUME TypeInv, JobInv, Coverage,
           NEW c \in Callers, NEW w \in Workers, NEW at \in Busy,
           WorkerGoes(c, w, at, "recv"),
           db \subseteq db', failed[c] \subseteq failed'[c],
           wid[c][w] \in db' \cup failed'[c] \cup NotFound
    PROVE  Coverage'
<1>1. /\ wpc[c][w] = at /\ wpc' = [wpc EXCEPT ![c][w] = "recv"]
      /\ wid' = [wid EXCEPT ![c][w] = 0]
      /\ UNCHANGED <<pc, cancelled, lastID, todo, late>>
  BY DEF WorkerGoes, callVars, Busy
<1>2. \A v \in Workers \ {w} :
        wid'[c][v] = wid[c][v] /\ wpc'[c][v] = wpc[c][v]
  BY <1>1 DEF TypeInv, TypeOK, PoolTypes
<1>3. Held(c) \ {wid[c][w]} \subseteq Held(c)'
  BY <1>2 DEF Held
<1>4. Unaborted(c) => Accounted(c)'
  BY <1>1, <1>3 DEF Coverage, Accounted
<1>5. ASSUME NEW d \in Callers, d # c PROVE ~Unaborted(d)'
  BY <1>1, <1>5, WorkerAlone DEF Unaborted, Busy
<1>6. QED
  BY <1>1, <1>4, <1>5 DEF Coverage, Unaborted

\* A worker that moves and keeps its id, or has none, loses none.
LEMMA WorkerKeepsId ==
    ASSUME TypeInv, JobInv, Coverage,
           NEW c \in Callers, NEW w \in Workers,
           NEW at \in WorkerPcs \ {"done"}, NEW to \in WorkerPcs,
           at \in Busy => to \in Busy,
           WorkerGoes(c, w, at, to), UNCHANGED <<db, failed>>
    PROVE  Coverage'
<1>1. /\ wpc[c][w] = at /\ wpc' = [wpc EXCEPT ![c][w] = to]
      /\ to \in Busy => wid' = wid
      /\ to \notin Busy => wid' = [wid EXCEPT ![c][w] = 0]
      /\ UNCHANGED <<pc, cancelled, lastID, todo, late>>
  BY DEF WorkerGoes, callVars, Busy
<1>2. \A v \in Workers : wpc[c][v] \in Busy =>
        wid'[c][v] = wid[c][v] /\ wpc'[c][v] \in Busy
  BY <1>1 DEF TypeInv, TypeOK, PoolTypes, WorkerPcs
<1>3. Held(c) \subseteq Held(c)'
  BY <1>2 DEF Held
<1>4. Unaborted(c) => Accounted(c)'
  BY <1>1, <1>3 DEF Coverage, Accounted
<1>5. ASSUME NEW d \in Callers, d # c PROVE ~Unaborted(d)'
  BY <1>1, <1>5, WorkerAlone DEF Unaborted
<1>6. QED
  BY <1>1, <1>4, <1>5 DEF Coverage, Unaborted

\* No id is lost between the list of missing ids and the notification
\* (service.go:68-122).
THEOREM CoverageInvariant == Spec => []Coverage
<1>1. Init => Coverage
  BY DEF Init, Coverage, Unaborted
<1>2. ASSUME TypeInv, JobInv, Coverage, [Next]_vars PROVE Coverage'
  <2>1. ASSUME NEW c \in Callers, UpdateStart(c) PROVE Coverage'
    BY <1>2, <2>1
    DEF UpdateStart, NewCall, poolVars, tellVars, TypeInv, TypeOK, CallTypes,
        PoolTypes, JobInv, OneCaller, WorkersAtWork, Coverage, Unaborted,
        Accounted, Held, Busy
  <2>2. ASSUME NEW c \in Callers, DropStart(c) PROVE Coverage'
    BY <1>2, <2>2
    DEF DropStart, NewCall, poolVars, tellVars, TypeInv, TypeOK, CallTypes,
        PoolTypes, JobInv, OneCaller, WorkersAtWork, Coverage, Unaborted,
        Accounted, Held, Busy
  <2>3. ASSUME NEW c \in Callers, Reject(c) PROVE Coverage'
    BY <1>2, <2>3
    DEF Reject, poolVars, tellVars, lateVars, TypeInv, TypeOK, CallTypes,
        PoolTypes, JobInv, OneCaller, WorkersAtWork, Coverage, Unaborted,
        Accounted, Held, Busy
  <2>4. ASSUME NEW c \in Callers, Cancel(c) PROVE Coverage'
    BY <1>2, <2>4
    DEF Cancel, poolVars, tellVars, lateVars, TypeInv, TypeOK, CallTypes,
        PoolTypes, JobInv, OneCaller, WorkersAtWork, Coverage, Unaborted,
        Accounted, Held, Busy
  <2>5. ASSUME NEW c \in Callers, LastIDReply(c) PROVE Coverage'
    BY <1>2, <2>5
    DEF LastIDReply, poolVars, tellVars, lateVars, TypeInv, TypeOK,
        CallTypes, PoolTypes, JobInv, OneCaller, WorkersAtWork, Coverage,
        Unaborted, Accounted, Held, Busy
  <2>6. ASSUME NEW c \in Callers, IDsReplyUpToDate(c) PROVE Coverage'
    BY <1>2, <2>6
    DEF IDsReplyUpToDate, ReturnWith, poolVars, tellVars, lateVars, TypeInv,
        TypeOK, CallTypes, PoolTypes, JobInv, OneCaller, WorkersAtWork,
        Coverage, Unaborted, Accounted, Held, Busy
  <2>7. ASSUME NEW c \in Callers, IDsReplyMissing(c) PROVE Coverage'
    BY <1>2, <2>7
    DEF IDsReplyMissing, Missing, tellVars, lateVars, TypeInv, TypeOK,
        CallTypes, PoolTypes, JobInv, OneCaller, WorkersAtWork, Coverage,
        Unaborted, Accounted, Held, Busy
  <2>8. ASSUME NEW c \in Callers, MissingIDsFail(c) PROVE Coverage'
    BY <1>2, <2>8
    DEF MissingIDsFail, ReturnWith, poolVars, tellVars, lateVars, TypeInv,
        TypeOK, CallTypes, PoolTypes, JobInv, OneCaller, WorkersAtWork,
        Coverage, Unaborted, Accounted, Held, Busy
  <2>9. ASSUME NEW c \in Callers, Close(c) PROVE Coverage'
    BY <1>2, <2>9
    DEF Close, poolVars, tellVars, lateVars, TypeInv, TypeOK, CallTypes,
        PoolTypes, JobInv, OneCaller, WorkersAtWork, Coverage, Unaborted,
        Accounted, Held, Busy
  <2>10. ASSUME NEW c \in Callers, Abort(c) PROVE Coverage'
    BY <1>2, <2>10
    DEF Abort, poolVars, tellVars, lateVars, TypeInv, TypeOK, CallTypes,
        PoolTypes, JobInv, OneCaller, WorkersAtWork, Coverage, Unaborted,
        Accounted, Held, Busy
  <2>11. ASSUME NEW c \in Callers, WaitDone(c) PROVE Coverage'
    <3>1. PICK p \in {"notify", "release"} : pc' = [pc EXCEPT ![c] = p]
      BY <2>11 DEF WaitDone, ReturnWith
    <3>2. UNCHANGED <<cancelled, lastID, todo, wpc, wid, failed, db, late>>
      BY <2>11 DEF WaitDone, ReturnWith, poolVars, lateVars
    <3>3. \A d \in Callers : Accounted(d)' = Accounted(d)
      BY <3>2 DEF Accounted, Held
    <3>4. pc[c] = "wait" /\ (pc'[c] = "notify" => ~cancelled[c])
      BY <1>2, <2>11 DEF WaitDone, ReturnWith, TypeInv, TypeOK, CallTypes
    <3>5. ASSUME NEW d \in Callers, Unaborted(d)'
          PROVE  Accounted(d)'
      <4>1. CASE d = c
        BY <1>2, <3>1, <3>3, <3>4, <3>5, <4>1
        DEF TypeInv, TypeOK, CallTypes, Coverage, Unaborted
      <4>2. CASE d # c
        <5>1. pc'[d] = pc[d] /\ cancelled' = cancelled
          BY <1>2, <3>1, <3>2, <4>2 DEF TypeInv, TypeOK, CallTypes
        <5>2. Accounted(d)
          BY <1>2, <3>5, <5>1 DEF Coverage, Unaborted
        <5>3. QED
          BY <3>3, <5>2
      <4>3. QED
        BY <4>1, <4>2
    <3>6. QED
      BY <3>5 DEF Coverage
  <2>12. ASSUME NEW c \in Callers, DropOk(c) PROVE Coverage'
    <3>1. pc[c] = "drop" /\ pc' = [pc EXCEPT ![c] = "dropNotify"]
          /\ cancelled' = cancelled
      BY <2>12 DEF DropOk
    <3>2. \A d \in Callers : ~Unaborted(d)
      BY <1>2, <3>1 DEF JobInv, OneCaller, Unaborted
    <3>3. ASSUME NEW d \in Callers PROVE ~Unaborted(d)'
      <4>1. d # c => pc'[d] = pc[d]
        BY <1>2, <3>1 DEF TypeInv, TypeOK, CallTypes
      <4>2. pc'[c] = "dropNotify"
        BY <1>2, <3>1 DEF TypeInv, TypeOK, CallTypes
      <4>3. QED
        BY <3>1, <3>2, <4>1, <4>2 DEF Unaborted
    <3>4. QED
      BY <3>3 DEF Coverage
  <2>13. ASSUME NEW c \in Callers, DropFail(c) PROVE Coverage'
    BY <1>2, <2>13
    DEF DropFail, ReturnWith, poolVars, tellVars, TypeInv, TypeOK, CallTypes,
        PoolTypes, JobInv, OneCaller, WorkersAtWork, Coverage, Unaborted,
        Accounted, Held, Busy
  <2>14. ASSUME NEW c \in Callers, NotifyOk(c) PROVE Coverage'
    <3>1. PICK p \in {"release"} : pc' = [pc EXCEPT ![c] = p]
      BY <2>14 DEF NotifyOk, NotifyReturn, ReturnWith
    <3>2. UNCHANGED <<cancelled, lastID, todo, wpc, wid, failed, db, late>>
      BY <2>14 DEF NotifyOk, NotifyReturn, ReturnWith, poolVars, lateVars
    <3>3. \A d \in Callers : Accounted(d)' = Accounted(d)
      BY <3>2 DEF Accounted, Held
    <3>4. QED
      BY <1>2, <3>1, <3>2, <3>3
      DEF TypeInv, TypeOK, CallTypes, Coverage, Unaborted
  <2>15. ASSUME NEW c \in Callers, NotifyFail(c) PROVE Coverage'
    <3>1. PICK p \in {"release"} : pc' = [pc EXCEPT ![c] = p]
      BY <2>15 DEF NotifyFail, NotifyReturn, ReturnWith
    <3>2. UNCHANGED <<cancelled, lastID, todo, wpc, wid, failed, db, late>>
      BY <2>15 DEF NotifyFail, NotifyReturn, ReturnWith, poolVars, lateVars
    <3>3. \A d \in Callers : Accounted(d)' = Accounted(d)
      BY <3>2 DEF Accounted, Held
    <3>4. QED
      BY <1>2, <3>1, <3>2, <3>3
      DEF TypeInv, TypeOK, CallTypes, Coverage, Unaborted
  <2>16. ASSUME NEW c \in Callers, Release(c) PROVE Coverage'
    BY <1>2, <2>16
    DEF Release, tellVars, lateVars, TypeInv, TypeOK, CallTypes, PoolTypes,
        JobInv, OneCaller, WorkersAtWork, Coverage, Unaborted, Accounted,
        Held, Busy
  <2>17. ASSUME NEW c \in Callers, NEW w \in Workers, Send(c, w)
        PROVE  Coverage'
    <3> DEFINE i == Next1(todo[c])
    <3>1. /\ pc[c] = "feed" /\ wpc[c][w] = "recv"
          /\ todo' = [todo EXCEPT ![c] = @ \ {i}]
          /\ wid' = [wid EXCEPT ![c][w] = i]
          /\ wpc' = [wpc EXCEPT ![c][w] = "get"]
          /\ UNCHANGED <<pc, cancelled, lastID, failed, db, late>>
      BY <2>17 DEF Send, lateVars
    <3> HIDE DEF i
    <3>2. /\ todo'[c] = todo[c] \ {i}
          /\ wpc'[c][w] \in Busy /\ wid'[c][w] = i
          /\ \A v \in Workers \ {w} :
                wid'[c][v] = wid[c][v] /\ wpc'[c][v] = wpc[c][v]
      BY <1>2, <3>1 DEF TypeInv, TypeOK, CallTypes, PoolTypes, Busy
    <3>3. Held(c) \cup {i} \subseteq Held(c)'
      BY <3>1, <3>2 DEF Held, Busy
    <3>4. Unaborted(c) => Accounted(c)'
      BY <1>2, <3>1, <3>2, <3>3 DEF Coverage, Accounted
    <3>5. ASSUME NEW d \in Callers, d # c PROVE ~Unaborted(d)'
      BY <1>2, <3>1, <3>5, WorkerAlone DEF Unaborted
    <3>6. QED
      BY <3>1, <3>4, <3>5 DEF Coverage, Unaborted
  <2>18. ASSUME NEW c \in Callers, NEW w \in Workers, GetOk(c, w)
        PROVE  Coverage'
    BY <1>2, <2>18, WorkerKeepsId DEF GetOk, WorkerPcs, Busy
  <2>19. ASSUME NEW c \in Callers, NEW w \in Workers, GetSkip(c, w)
        PROVE  Coverage'
    BY <1>2, <2>19, WorkerLeavesId DEF GetSkip, Busy
  <2>20. ASSUME NEW c \in Callers, NEW w \in Workers, NormOk(c, w)
        PROVE  Coverage'
    BY <1>2, <2>20, WorkerKeepsId DEF NormOk, WorkerPcs, Busy
  <2>21. ASSUME NEW c \in Callers, NEW w \in Workers, CallFail(c, w)
        PROVE  Coverage'
    <3>1. PICK at \in Busy : WorkerGoes(c, w, at, "recv")
      BY <2>21 DEF CallFail, Busy
    <3>2. db' = db /\ failed'[c] = failed[c] \cup {wid[c][w]}
      BY <1>2, <2>21 DEF CallFail, Logged, TypeInv, TypeOK, PoolTypes
    <3>3. QED
      BY <1>2, <3>1, <3>2, WorkerLeavesId
  <2>22. ASSUME NEW c \in Callers, NEW w \in Workers, AddOk(c, w)
        PROVE  Coverage'
    <3>1. WorkerGoes(c, w, "add", "recv") /\ db' = db \cup {wid[c][w]}
      BY <2>22 DEF AddOk
    <3>2. failed' = failed
      BY <2>22 DEF AddOk
    <3>3. QED
      BY <1>2, <3>1, <3>2, WorkerLeavesId DEF Busy
  <2>23. ASSUME NEW c \in Callers, NEW w \in Workers, AddFail(c, w)
        PROVE  Coverage'
    <3>1. PICK at \in Busy : WorkerGoes(c, w, at, "recv")
      BY <2>23 DEF AddFail, Busy
    <3>2. db' = db /\ failed'[c] = failed[c] \cup {wid[c][w]}
      BY <1>2, <2>23 DEF AddFail, Logged, TypeInv, TypeOK, PoolTypes
    <3>3. QED
      BY <1>2, <3>1, <3>2, WorkerLeavesId
  <2>24. ASSUME NEW c \in Callers, NEW w \in Workers, WorkerExit(c, w)
        PROVE  Coverage'
    BY <1>2, <2>24, WorkerKeepsId DEF WorkerExit, WorkerPcs, Busy
  <2>25. ASSUME NEW i \in IDs, LateInsert(i) PROVE Coverage'
    BY <1>2, <2>25
    DEF LateInsert, callVars, poolVars, TypeInv, TypeOK, CallTypes,
        PoolTypes, JobInv, OneCaller, WorkersAtWork, Coverage, Unaborted,
        Accounted, Held, Busy
  <2>26. CASE LateTruncate
    BY <1>2, <2>26
    DEF LateTruncate, callVars, poolVars, TypeInv, TypeOK, CallTypes,
        PoolTypes, JobInv, OneCaller, WorkersAtWork, Coverage, Unaborted,
        Accounted, Held, Busy
  <2>27. CASE Publish
    BY <1>2, <2>27
    DEF Publish, callVars, poolVars, tellVars, lateVars, TypeInv, TypeOK,
        CallTypes, PoolTypes, JobInv, OneCaller, WorkersAtWork, Coverage,
        Unaborted, Accounted, Held, Busy
  <2>28. CASE Crash
    BY <1>2, <2>28
    DEF Crash, TypeInv, TypeOK, CallTypes, PoolTypes, JobInv, OneCaller,
        WorkersAtWork, Coverage, Unaborted, Accounted, Held, Busy
  <2>29. CASE UNCHANGED vars
    BY <1>2, <2>29
    DEF vars, TypeInv, TypeOK, CallTypes, PoolTypes, JobInv, OneCaller,
        WorkersAtWork, Coverage, Unaborted, Accounted, Held, Busy
  <2>30. QED
    BY <1>2, <2>1, <2>2, <2>3, <2>4, <2>5, <2>6, <2>7, <2>8, <2>9, <2>10,
       <2>11, <2>12, <2>13, <2>14, <2>15, <2>16, <2>17, <2>18, <2>19, <2>20,
       <2>21, <2>22, <2>23, <2>24, <2>25, <2>26, <2>27, <2>28, <2>29
    DEF Next, CallStart, CallerStep, WorkerStep
<1>3. QED
  BY <1>1, <1>2, TypeInvariant, JobInvariant, PTL DEF Spec

\* Every id is dealt with when an update notifies (service.go:93-122).
THEOREM UpdatesAttemptAll == Spec => []AllAttempted
<1>1. ASSUME TypeInv, JobInv, Coverage PROVE AllAttempted
  <2> SUFFICES ASSUME NEW c \in Callers, pc[c] = "notify"
               PROVE  1..lastID[c] \subseteq
                        db \cup failed[c] \cup NotFound \cup late
    BY DEF AllAttempted
  <2>1. todo[c] = {} /\ Held(c) = {}
    BY <1>1 DEF JobInv, WorkersAtWork, Held, Busy
  <2>2. QED
    BY <1>1, <2>1 DEF Coverage, Unaborted, Accounted
<1>2. QED
  BY <1>1, TypeInvariant, JobInvariant, CoverageInvariant, PTL

-----------------------------------------------------------------------------
(* Layer 5: what is in the table when a notification is sent.              *)

\* A Drop announces an empty table, late rows apart (service.go:179-183).
THEOREM DropsAreClean == Spec => []DropIsClean
<1>1. Init => DropIsClean
  BY DEF Init, DropIsClean
<1>2. ASSUME TypeInv, JobInv, DropIsClean, [Next]_vars PROVE DropIsClean'
  <2>1. ASSUME NEW c \in Callers, UpdateStart(c) PROVE DropIsClean'
    BY <1>2, <2>1
    DEF UpdateStart, NewCall, poolVars, tellVars, TypeInv, TypeOK, CallTypes,
        PoolTypes, JobInv, OneCaller, WorkersAtWork, DropIsClean
  <2>2. ASSUME NEW c \in Callers, DropStart(c) PROVE DropIsClean'
    BY <1>2, <2>2
    DEF DropStart, NewCall, poolVars, tellVars, TypeInv, TypeOK, CallTypes,
        PoolTypes, JobInv, OneCaller, WorkersAtWork, DropIsClean
  <2>3. ASSUME NEW c \in Callers, Reject(c) PROVE DropIsClean'
    BY <1>2, <2>3
    DEF Reject, poolVars, tellVars, lateVars, TypeInv, TypeOK, CallTypes,
        PoolTypes, JobInv, OneCaller, WorkersAtWork, DropIsClean
  <2>4. ASSUME NEW c \in Callers, Cancel(c) PROVE DropIsClean'
    BY <1>2, <2>4
    DEF Cancel, poolVars, tellVars, lateVars, TypeInv, TypeOK, CallTypes,
        PoolTypes, JobInv, OneCaller, WorkersAtWork, DropIsClean
  <2>5. ASSUME NEW c \in Callers, LastIDReply(c) PROVE DropIsClean'
    BY <1>2, <2>5
    DEF LastIDReply, poolVars, tellVars, lateVars, TypeInv, TypeOK,
        CallTypes, PoolTypes, JobInv, OneCaller, WorkersAtWork, DropIsClean
  <2>6. ASSUME NEW c \in Callers, IDsReplyUpToDate(c) PROVE DropIsClean'
    BY <1>2, <2>6
    DEF IDsReplyUpToDate, ReturnWith, poolVars, tellVars, lateVars, TypeInv,
        TypeOK, CallTypes, PoolTypes, JobInv, OneCaller, WorkersAtWork,
        DropIsClean
  <2>7. ASSUME NEW c \in Callers, IDsReplyMissing(c) PROVE DropIsClean'
    BY <1>2, <2>7
    DEF IDsReplyMissing, Missing, tellVars, lateVars, TypeInv, TypeOK,
        CallTypes, PoolTypes, JobInv, OneCaller, WorkersAtWork, DropIsClean
  <2>8. ASSUME NEW c \in Callers, MissingIDsFail(c) PROVE DropIsClean'
    BY <1>2, <2>8
    DEF MissingIDsFail, ReturnWith, poolVars, tellVars, lateVars, TypeInv,
        TypeOK, CallTypes, PoolTypes, JobInv, OneCaller, WorkersAtWork,
        DropIsClean
  <2>9. ASSUME NEW c \in Callers, Close(c) PROVE DropIsClean'
    BY <1>2, <2>9
    DEF Close, poolVars, tellVars, lateVars, TypeInv, TypeOK, CallTypes,
        PoolTypes, JobInv, OneCaller, WorkersAtWork, DropIsClean
  <2>10. ASSUME NEW c \in Callers, Abort(c) PROVE DropIsClean'
    BY <1>2, <2>10
    DEF Abort, poolVars, tellVars, lateVars, TypeInv, TypeOK, CallTypes,
        PoolTypes, JobInv, OneCaller, WorkersAtWork, DropIsClean
  <2>11. ASSUME NEW c \in Callers, WaitDone(c) PROVE DropIsClean'
    <3>1. PICK p \in {"notify", "release"} : pc' = [pc EXCEPT ![c] = p]
      BY <2>11 DEF WaitDone, ReturnWith
    <3>2. UNCHANGED <<db, late>>
      BY <2>11 DEF WaitDone, ReturnWith, lateVars
    <3>3. QED
      BY <1>2, <3>1, <3>2 DEF TypeInv, TypeOK, CallTypes, DropIsClean
  <2>12. ASSUME NEW c \in Callers, DropOk(c) PROVE DropIsClean'
    BY <1>2, <2>12
    DEF DropOk, poolVars, tellVars, lateVars, TypeInv, TypeOK, CallTypes,
        PoolTypes, JobInv, OneCaller, WorkersAtWork, DropIsClean
  <2>13. ASSUME NEW c \in Callers, DropFail(c) PROVE DropIsClean'
    BY <1>2, <2>13
    DEF DropFail, ReturnWith, poolVars, tellVars, TypeInv, TypeOK, CallTypes,
        PoolTypes, JobInv, OneCaller, WorkersAtWork, DropIsClean
  <2>14. ASSUME NEW c \in Callers, NotifyOk(c) PROVE DropIsClean'
    <3>1. PICK p \in {"release"} : pc' = [pc EXCEPT ![c] = p]
      BY <2>14 DEF NotifyOk, NotifyReturn, ReturnWith
    <3>2. UNCHANGED <<db, late>>
      BY <2>14 DEF NotifyOk, NotifyReturn, ReturnWith, lateVars
    <3>3. QED
      BY <1>2, <3>1, <3>2 DEF TypeInv, TypeOK, CallTypes, DropIsClean
  <2>15. ASSUME NEW c \in Callers, NotifyFail(c) PROVE DropIsClean'
    <3>1. PICK p \in {"release"} : pc' = [pc EXCEPT ![c] = p]
      BY <2>15 DEF NotifyFail, NotifyReturn, ReturnWith
    <3>2. UNCHANGED <<db, late>>
      BY <2>15 DEF NotifyFail, NotifyReturn, ReturnWith, lateVars
    <3>3. QED
      BY <1>2, <3>1, <3>2 DEF TypeInv, TypeOK, CallTypes, DropIsClean
  <2>16. ASSUME NEW c \in Callers, Release(c) PROVE DropIsClean'
    BY <1>2, <2>16
    DEF Release, tellVars, lateVars, TypeInv, TypeOK, CallTypes, PoolTypes,
        JobInv, OneCaller, WorkersAtWork, DropIsClean
  <2>17. ASSUME NEW c \in Callers, NEW w \in Workers, Send(c, w)
        PROVE  DropIsClean'
    BY <1>2, <2>17
    DEF Send, tellVars, lateVars, TypeInv, TypeOK, CallTypes, PoolTypes,
        JobInv, OneCaller, WorkersAtWork, DropIsClean
  <2>18. ASSUME NEW c \in Callers, NEW w \in Workers, GetOk(c, w)
        PROVE  DropIsClean'
    BY <1>2, <2>18
    DEF GetOk, WorkerGoes, callVars, tellVars, TypeInv, TypeOK, CallTypes,
        PoolTypes, JobInv, OneCaller, WorkersAtWork, DropIsClean
  <2>19. ASSUME NEW c \in Callers, NEW w \in Workers, GetSkip(c, w)
        PROVE  DropIsClean'
    BY <1>2, <2>19
    DEF GetSkip, WorkerGoes, callVars, tellVars, TypeInv, TypeOK, CallTypes,
        PoolTypes, JobInv, OneCaller, WorkersAtWork, DropIsClean
  <2>20. ASSUME NEW c \in Callers, NEW w \in Workers, NormOk(c, w)
        PROVE  DropIsClean'
    BY <1>2, <2>20
    DEF NormOk, WorkerGoes, callVars, tellVars, TypeInv, TypeOK, CallTypes,
        PoolTypes, JobInv, OneCaller, WorkersAtWork, DropIsClean
  <2>21. ASSUME NEW c \in Callers, NEW w \in Workers, CallFail(c, w)
        PROVE  DropIsClean'
    BY <1>2, <2>21
    DEF CallFail, WorkerGoes, Logged, callVars, tellVars, TypeInv, TypeOK,
        CallTypes, PoolTypes, JobInv, OneCaller, WorkersAtWork, DropIsClean
  <2>22. ASSUME NEW c \in Callers, NEW w \in Workers, AddOk(c, w)
        PROVE  DropIsClean'
    BY <1>2, <2>22
    DEF AddOk, WorkerGoes, callVars, tellVars, TypeInv, TypeOK, CallTypes,
        PoolTypes, JobInv, OneCaller, WorkersAtWork, DropIsClean
  <2>23. ASSUME NEW c \in Callers, NEW w \in Workers, AddFail(c, w)
        PROVE  DropIsClean'
    BY <1>2, <2>23
    DEF AddFail, WorkerGoes, Logged, callVars, tellVars, TypeInv, TypeOK,
        CallTypes, PoolTypes, JobInv, OneCaller, WorkersAtWork, DropIsClean
  <2>24. ASSUME NEW c \in Callers, NEW w \in Workers, WorkerExit(c, w)
        PROVE  DropIsClean'
    BY <1>2, <2>24
    DEF WorkerExit, WorkerGoes, callVars, tellVars, TypeInv, TypeOK,
        CallTypes, PoolTypes, JobInv, OneCaller, WorkersAtWork, DropIsClean
  <2>25. ASSUME NEW i \in IDs, LateInsert(i) PROVE DropIsClean'
    BY <1>2, <2>25
    DEF LateInsert, callVars, poolVars, TypeInv, TypeOK, CallTypes,
        PoolTypes, JobInv, OneCaller, WorkersAtWork, DropIsClean
  <2>26. CASE LateTruncate
    BY <1>2, <2>26
    DEF LateTruncate, callVars, poolVars, TypeInv, TypeOK, CallTypes,
        PoolTypes, JobInv, OneCaller, WorkersAtWork, DropIsClean
  <2>27. CASE Publish
    BY <1>2, <2>27
    DEF Publish, callVars, poolVars, tellVars, lateVars, TypeInv, TypeOK,
        CallTypes, PoolTypes, JobInv, OneCaller, WorkersAtWork, DropIsClean
  <2>28. CASE Crash
    BY <1>2, <2>28
    DEF Crash, TypeInv, TypeOK, CallTypes, PoolTypes, JobInv, OneCaller,
        WorkersAtWork, DropIsClean
  <2>29. CASE UNCHANGED vars
    BY <1>2, <2>29
    DEF vars, TypeInv, TypeOK, CallTypes, PoolTypes, JobInv, OneCaller,
        WorkersAtWork, DropIsClean
  <2>30. QED
    BY <1>2, <2>1, <2>2, <2>3, <2>4, <2>5, <2>6, <2>7, <2>8, <2>9, <2>10,
       <2>11, <2>12, <2>13, <2>14, <2>15, <2>16, <2>17, <2>18, <2>19, <2>20,
       <2>21, <2>22, <2>23, <2>24, <2>25, <2>26, <2>27, <2>28, <2>29
    DEF Next, CallStart, CallerStep, WorkerStep
<1>3. QED
  BY <1>1, <1>2, TypeInvariant, JobInvariant, PTL DEF Spec


\* Outside the steps that may have written and have not notified yet, the
\* subscribers know the table, or the job was silent.
ToldInv ==
    announced # db => silent \/ \E c \in Callers : pc[c] \in WritingPcs

\* The strengthening of AnnouncedUnlessSilent that every step keeps.
THEOREM ToldInvariant == Spec => []ToldInv
<1>1. Init => ToldInv
  BY DEF Init, ToldInv
<1>2. ASSUME TypeInv, JobInv, ToldInv, [Next]_vars PROVE ToldInv'
  <2>1. ASSUME NEW c \in Callers, UpdateStart(c) PROVE ToldInv'
    BY <1>2, <2>1
    DEF UpdateStart, NewCall, poolVars, tellVars, TypeInv, TypeOK, CallTypes,
        PoolTypes, JobInv, OneCaller, WorkersAtWork, ToldInv, WritingPcs
  <2>2. ASSUME NEW c \in Callers, DropStart(c) PROVE ToldInv'
    BY <1>2, <2>2
    DEF DropStart, NewCall, poolVars, tellVars, TypeInv, TypeOK, CallTypes,
        PoolTypes, JobInv, OneCaller, WorkersAtWork, ToldInv, WritingPcs
  <2>3. ASSUME NEW c \in Callers, Reject(c) PROVE ToldInv'
    BY <1>2, <2>3
    DEF Reject, poolVars, tellVars, lateVars, TypeInv, TypeOK, CallTypes,
        PoolTypes, JobInv, OneCaller, WorkersAtWork, ToldInv, WritingPcs
  <2>4. ASSUME NEW c \in Callers, Cancel(c) PROVE ToldInv'
    BY <1>2, <2>4
    DEF Cancel, poolVars, tellVars, lateVars, TypeInv, TypeOK, CallTypes,
        PoolTypes, JobInv, OneCaller, WorkersAtWork, ToldInv, WritingPcs
  <2>5. ASSUME NEW c \in Callers, LastIDReply(c) PROVE ToldInv'
    BY <1>2, <2>5
    DEF LastIDReply, poolVars, tellVars, lateVars, TypeInv, TypeOK,
        CallTypes, PoolTypes, JobInv, OneCaller, WorkersAtWork, ToldInv,
        WritingPcs
  <2>6. ASSUME NEW c \in Callers, IDsReplyUpToDate(c) PROVE ToldInv'
    BY <1>2, <2>6
    DEF IDsReplyUpToDate, ReturnWith, poolVars, tellVars, lateVars, TypeInv,
        TypeOK, CallTypes, PoolTypes, JobInv, OneCaller, WorkersAtWork,
        ToldInv, WritingPcs
  <2>7. ASSUME NEW c \in Callers, IDsReplyMissing(c) PROVE ToldInv'
    BY <1>2, <2>7
    DEF IDsReplyMissing, Missing, tellVars, lateVars, TypeInv, TypeOK,
        CallTypes, PoolTypes, JobInv, OneCaller, WorkersAtWork, ToldInv,
        WritingPcs
  <2>8. ASSUME NEW c \in Callers, MissingIDsFail(c) PROVE ToldInv'
    BY <1>2, <2>8
    DEF MissingIDsFail, ReturnWith, poolVars, tellVars, lateVars, TypeInv,
        TypeOK, CallTypes, PoolTypes, JobInv, OneCaller, WorkersAtWork,
        ToldInv, WritingPcs
  <2>9. ASSUME NEW c \in Callers, Close(c) PROVE ToldInv'
    BY <1>2, <2>9
    DEF Close, poolVars, tellVars, lateVars, TypeInv, TypeOK, CallTypes,
        PoolTypes, JobInv, OneCaller, WorkersAtWork, ToldInv, WritingPcs
  <2>10. ASSUME NEW c \in Callers, Abort(c) PROVE ToldInv'
    BY <1>2, <2>10
    DEF Abort, poolVars, tellVars, lateVars, TypeInv, TypeOK, CallTypes,
        PoolTypes, JobInv, OneCaller, WorkersAtWork, ToldInv, WritingPcs
  <2>11. ASSUME NEW c \in Callers, WaitDone(c) PROVE ToldInv'
    BY <1>2, <2>11
    DEF WaitDone, ReturnWith, poolVars, lateVars, TypeInv, TypeOK, CallTypes,
        PoolTypes, JobInv, OneCaller, WorkersAtWork, ToldInv, WritingPcs
  <2>12. ASSUME NEW c \in Callers, DropOk(c) PROVE ToldInv'
    BY <1>2, <2>12
    DEF DropOk, poolVars, tellVars, lateVars, TypeInv, TypeOK, CallTypes,
        PoolTypes, JobInv, OneCaller, WorkersAtWork, ToldInv, WritingPcs
  <2>13. ASSUME NEW c \in Callers, DropFail(c) PROVE ToldInv'
    BY <1>2, <2>13
    DEF DropFail, ReturnWith, poolVars, tellVars, TypeInv, TypeOK, CallTypes,
        PoolTypes, JobInv, OneCaller, WorkersAtWork, ToldInv, WritingPcs
  <2>14. ASSUME NEW c \in Callers, NotifyOk(c) PROVE ToldInv'
    BY <1>2, <2>14
    DEF NotifyOk, NotifyReturn, ReturnWith, poolVars, lateVars, TypeInv,
        TypeOK, CallTypes, PoolTypes, JobInv, OneCaller, WorkersAtWork,
        ToldInv, WritingPcs
  <2>15. ASSUME NEW c \in Callers, NotifyFail(c) PROVE ToldInv'
    BY <1>2, <2>15
    DEF NotifyFail, NotifyReturn, ReturnWith, poolVars, lateVars, TypeInv,
        TypeOK, CallTypes, PoolTypes, JobInv, OneCaller, WorkersAtWork,
        ToldInv, WritingPcs
  <2>16. ASSUME NEW c \in Callers, Release(c) PROVE ToldInv'
    BY <1>2, <2>16
    DEF Release, tellVars, lateVars, TypeInv, TypeOK, CallTypes, PoolTypes,
        JobInv, OneCaller, WorkersAtWork, ToldInv, WritingPcs
  <2>17. ASSUME NEW c \in Callers, NEW w \in Workers, Send(c, w)
        PROVE  ToldInv'
    BY <1>2, <2>17
    DEF Send, tellVars, lateVars, TypeInv, TypeOK, CallTypes, PoolTypes,
        JobInv, OneCaller, WorkersAtWork, ToldInv, WritingPcs
  <2>18. ASSUME NEW c \in Callers, NEW w \in Workers, GetOk(c, w)
        PROVE  ToldInv'
    BY <1>2, <2>18
    DEF GetOk, WorkerGoes, callVars, tellVars, TypeInv, TypeOK, CallTypes,
        PoolTypes, JobInv, OneCaller, WorkersAtWork, ToldInv, WritingPcs
  <2>19. ASSUME NEW c \in Callers, NEW w \in Workers, GetSkip(c, w)
        PROVE  ToldInv'
    BY <1>2, <2>19
    DEF GetSkip, WorkerGoes, callVars, tellVars, TypeInv, TypeOK, CallTypes,
        PoolTypes, JobInv, OneCaller, WorkersAtWork, ToldInv, WritingPcs
  <2>20. ASSUME NEW c \in Callers, NEW w \in Workers, NormOk(c, w)
        PROVE  ToldInv'
    BY <1>2, <2>20
    DEF NormOk, WorkerGoes, callVars, tellVars, TypeInv, TypeOK, CallTypes,
        PoolTypes, JobInv, OneCaller, WorkersAtWork, ToldInv, WritingPcs
  <2>21. ASSUME NEW c \in Callers, NEW w \in Workers, CallFail(c, w)
        PROVE  ToldInv'
    BY <1>2, <2>21
    DEF CallFail, WorkerGoes, Logged, callVars, tellVars, TypeInv, TypeOK,
        CallTypes, PoolTypes, JobInv, OneCaller, WorkersAtWork, ToldInv,
        WritingPcs
  <2>22. ASSUME NEW c \in Callers, NEW w \in Workers, AddOk(c, w)
        PROVE  ToldInv'
    BY <1>2, <2>22
    DEF AddOk, WorkerGoes, callVars, tellVars, TypeInv, TypeOK, CallTypes,
        PoolTypes, JobInv, OneCaller, WorkersAtWork, ToldInv, WritingPcs
  <2>23. ASSUME NEW c \in Callers, NEW w \in Workers, AddFail(c, w)
        PROVE  ToldInv'
    BY <1>2, <2>23
    DEF AddFail, WorkerGoes, Logged, callVars, tellVars, TypeInv, TypeOK,
        CallTypes, PoolTypes, JobInv, OneCaller, WorkersAtWork, ToldInv,
        WritingPcs
  <2>24. ASSUME NEW c \in Callers, NEW w \in Workers, WorkerExit(c, w)
        PROVE  ToldInv'
    BY <1>2, <2>24
    DEF WorkerExit, WorkerGoes, callVars, tellVars, TypeInv, TypeOK,
        CallTypes, PoolTypes, JobInv, OneCaller, WorkersAtWork, ToldInv,
        WritingPcs
  <2>25. ASSUME NEW i \in IDs, LateInsert(i) PROVE ToldInv'
    BY <1>2, <2>25
    DEF LateInsert, callVars, poolVars, TypeInv, TypeOK, CallTypes,
        PoolTypes, JobInv, OneCaller, WorkersAtWork, ToldInv, WritingPcs
  <2>26. CASE LateTruncate
    BY <1>2, <2>26
    DEF LateTruncate, callVars, poolVars, TypeInv, TypeOK, CallTypes,
        PoolTypes, JobInv, OneCaller, WorkersAtWork, ToldInv, WritingPcs
  <2>27. CASE Publish
    BY <1>2, <2>27
    DEF Publish, callVars, poolVars, tellVars, lateVars, TypeInv, TypeOK,
        CallTypes, PoolTypes, JobInv, OneCaller, WorkersAtWork, ToldInv,
        WritingPcs
  <2>28. CASE Crash
    BY <1>2, <2>28
    DEF Crash, TypeInv, TypeOK, CallTypes, PoolTypes, JobInv, OneCaller,
        WorkersAtWork, ToldInv, WritingPcs
  <2>29. CASE UNCHANGED vars
    BY <1>2, <2>29
    DEF vars, TypeInv, TypeOK, CallTypes, PoolTypes, JobInv, OneCaller,
        WorkersAtWork, ToldInv, WritingPcs
  <2>30. QED
    BY <1>2, <2>1, <2>2, <2>3, <2>4, <2>5, <2>6, <2>7, <2>8, <2>9, <2>10,
       <2>11, <2>12, <2>13, <2>14, <2>15, <2>16, <2>17, <2>18, <2>19, <2>20,
       <2>21, <2>22, <2>23, <2>24, <2>25, <2>26, <2>27, <2>28, <2>29
    DEF Next, CallStart, CallerStep, WorkerStep
<1>3. QED
  BY <1>1, <1>2, TypeInvariant, JobInvariant, PTL DEF Spec

\* At rest the subscribers know the table unless a job or a late statement
\* was silent (service.go:56-62, 179-185).
THEOREM AnnouncedAtRest == Spec => []AnnouncedUnlessSilent
<1>1. ASSUME JobInv, ToldInv PROVE AnnouncedUnlessSilent
  BY <1>1 DEF JobInv, OneCaller, ToldInv, WritingPcs, AnnouncedUnlessSilent
<1>2. QED
  BY <1>1, JobInvariant, ToldInvariant, PTL

-----------------------------------------------------------------------------
(* The update service implements the catalogue: every step of it is a step *)
(* of Catalogue or leaves it alone.                                         *)

\* The phase that a caller at p gives the catalogue.
PhaseAt(p) == IF p \in UpdatePcs THEN "update"
              ELSE IF p \in DropPcs THEN "drop" ELSE "none"

PhaseOf(f) ==
    IF \E c \in Callers : f[c] \in UpdatePcs THEN "update"
    ELSE IF \E c \in Callers : f[c] \in DropPcs THEN "drop" ELSE "none"

LEMMA PhaseOfOne ==
    ASSUME NEW f, NEW c \in Callers, \A d \in Callers : d # c => f[d] = "idle"
    PROVE  PhaseOf(f) = PhaseAt(f[c])
BY DEF PhaseOf, PhaseAt, UpdatePcs, DropPcs

\* When c moves and nobody else is in a call, the phase moves with it.
LEMMA PhaseMoves ==
    ASSUME TypeInv, JobInv, NEW c \in Callers, NEW p,
           pc[c] # "idle" \/ ~running,
           pc' = [pc EXCEPT ![c] = p]
    PROVE  Phase = PhaseAt(pc[c]) /\ Phase' = PhaseAt(p)
<1>1. \A d \in Callers : d # c => pc[d] = "idle"
  BY DEF JobInv, OneCaller
<1>2. pc'[c] = p /\ \A d \in Callers : d # c => pc'[d] = "idle"
  BY <1>1 DEF TypeInv, TypeOK, CallTypes
<1>3. Phase = PhaseOf(pc) /\ Phase' = PhaseOf(pc')
  BY DEF Phase, PhaseOf
<1>4. QED
  BY <1>1, <1>2, <1>3, PhaseOfOne

LEMMA PhaseValues ==
    /\ \A p \in UpdatePcs : PhaseAt(p) = "update"
    /\ \A p \in DropPcs : PhaseAt(p) = "drop"
    /\ PhaseAt("release") = "none" /\ PhaseAt("idle") = "none"
<1>1. \A p \in UpdatePcs : PhaseAt(p) = "update"
  BY DEF PhaseAt
<1>2. \A p \in DropPcs : PhaseAt(p) = "drop"
  BY DEF PhaseAt, UpdatePcs, DropPcs
<1>3. PhaseAt("release") = "none" /\ PhaseAt("idle") = "none"
  BY DEF PhaseAt, UpdatePcs, DropPcs
<1>4. QED
  BY <1>1, <1>2, <1>3

LEMMA PhaseStays ==
    ASSUME UNCHANGED pc PROVE Phase' = Phase
BY DEF Phase

LEMMA NoneOwed ==
    ASSUME UNCHANGED orphans
    PROVE  \E S \in SUBSET (0..MaxID) : orphans' = orphans \cup S
<1>1. {} \in SUBSET (0..MaxID) /\ orphans' = orphans \cup {}
  OBVIOUS
<1>2. QED
  BY <1>1

\* Before a job writes there is nothing the subscribers have not been told.
LEMMA NothingToTell ==
    ASSUME JobInv, ToldInv, NEW c \in Callers,
           pc[c] # "idle", pc[c] \notin WritingPcs
    PROVE  db = announced \/ silent
BY DEF JobInv, OneCaller, ToldInv, WritingPcs

\* Every step of the service is a step of the catalogue or a stutter, and it
\* starts as one (service.go:38-66, 173-188).
THEOREM ServiceImplementsCatalogue == Spec => ImplementsCatalogue
<1>1. Init => Abstract!Init
  BY DEF Init, Abstract!Init, Phase, UpdatePcs, DropPcs
<1>2. ASSUME TypeInv, JobInv, ToldInv, [Next]_vars
      PROVE  [Abstract!Next]_(Abstract!vars)
  <2>1. ASSUME NEW c \in Callers, UpdateStart(c)
        PROVE  [Abstract!Next]_(Abstract!vars)
    <3>1. ~running /\ pc[c] = "idle" /\ pc' = [pc EXCEPT ![c] = "lastID"]
      BY <2>1 DEF UpdateStart, NewCall
    <3>2. Phase = "none" /\ Phase' \in {"update", "drop"}
      BY <1>2, <3>1, PhaseMoves, PhaseValues DEF UpdatePcs, DropPcs
    <3>3. UNCHANGED <<db, orphans, announced, silent>>
      BY <2>1 DEF UpdateStart, NewCall, tellVars
    <3>4. QED
      BY <3>2, <3>3 DEF Abstract!Next, Abstract!Begin
  <2>2. ASSUME NEW c \in Callers, DropStart(c)
        PROVE  [Abstract!Next]_(Abstract!vars)
    <3>1. ~running /\ pc[c] = "idle" /\ pc' = [pc EXCEPT ![c] = "drop"]
      BY <2>2 DEF DropStart, NewCall
    <3>2. Phase = "none" /\ Phase' \in {"update", "drop"}
      BY <1>2, <3>1, PhaseMoves, PhaseValues DEF UpdatePcs, DropPcs
    <3>3. UNCHANGED <<db, orphans, announced, silent>>
      BY <2>2 DEF DropStart, NewCall, tellVars
    <3>4. QED
      BY <3>2, <3>3 DEF Abstract!Next, Abstract!Begin
  <2>3. ASSUME NEW c \in Callers, Reject(c)
        PROVE  [Abstract!Next]_(Abstract!vars)
    <3>1. UNCHANGED pc
      BY <2>3 DEF Reject, callVars
    <3>2. UNCHANGED <<db, orphans, announced, silent>>
      BY <2>3 DEF Reject, tellVars, lateVars
    <3>3. QED
      BY <3>1, <3>2, PhaseStays DEF Abstract!vars
  <2>4. ASSUME NEW c \in Callers, Cancel(c)
        PROVE  [Abstract!Next]_(Abstract!vars)
    <3>1. UNCHANGED pc
      BY <2>4 DEF Cancel, callVars
    <3>2. UNCHANGED <<db, orphans, announced, silent>>
      BY <2>4 DEF Cancel, tellVars, lateVars
    <3>3. QED
      BY <3>1, <3>2, PhaseStays DEF Abstract!vars
  <2>5. ASSUME NEW c \in Callers, LastIDReply(c)
        PROVE  [Abstract!Next]_(Abstract!vars)
    <3>1. pc[c] = "lastID" /\ pc' = [pc EXCEPT ![c] = "ids"]
      BY <2>5 DEF LastIDReply
    <3>2. Phase = PhaseAt("lastID") /\ Phase' = PhaseAt("ids")
      BY <1>2, <3>1, PhaseMoves
    <3>3. PhaseAt("lastID") = PhaseAt("ids")
      BY PhaseValues DEF UpdatePcs
    <3>4. UNCHANGED <<db, orphans, announced, silent>>
      BY <2>5 DEF LastIDReply, tellVars, lateVars
    <3>5. QED
      BY <3>2, <3>3, <3>4 DEF Abstract!vars
  <2>6. ASSUME NEW c \in Callers, IDsReplyUpToDate(c)
        PROVE  [Abstract!Next]_(Abstract!vars)
    <3>1. /\ pc[c] = "ids"
          /\ pc' = [pc EXCEPT ![c] = "release"]
      BY <2>6 DEF IDsReplyUpToDate, ReturnWith
    <3>2. Phase # "none" /\ Phase' = "none"
      BY <1>2, <3>1, PhaseMoves, PhaseValues DEF UpdatePcs, DropPcs
    <3>3. /\ UNCHANGED <<db, announced>>
          /\ silent' = TRUE \/ (silent' = silent /\ db = announced)
      BY <1>2, <2>6, <3>1, NothingToTell
      DEF IDsReplyUpToDate, tellVars, WritingPcs, TypeInv, TypeOK, TableTypes
    <3>4. \E S \in SUBSET (0..MaxID) : orphans' = orphans \cup S
      BY <2>6, NoneOwed DEF IDsReplyUpToDate, lateVars
    <3>5. QED
      BY <3>2, <3>3, <3>4 DEF Abstract!Next, Abstract!Stop
  <2>7. ASSUME NEW c \in Callers, IDsReplyMissing(c)
        PROVE  [Abstract!Next]_(Abstract!vars)
    <3>1. pc[c] = "ids" /\ pc' = [pc EXCEPT ![c] = "feed"]
      BY <2>7 DEF IDsReplyMissing
    <3>2. Phase = PhaseAt("ids") /\ Phase' = PhaseAt("feed")
      BY <1>2, <3>1, PhaseMoves
    <3>3. PhaseAt("ids") = PhaseAt("feed")
      BY PhaseValues DEF UpdatePcs
    <3>4. UNCHANGED <<db, orphans, announced, silent>>
      BY <2>7 DEF IDsReplyMissing, tellVars, lateVars
    <3>5. QED
      BY <3>2, <3>3, <3>4 DEF Abstract!vars
  <2>8. ASSUME NEW c \in Callers, MissingIDsFail(c)
        PROVE  [Abstract!Next]_(Abstract!vars)
    <3>1. /\ pc[c] \in {"lastID", "ids"}
          /\ pc' = [pc EXCEPT ![c] = "release"]
      BY <2>8 DEF MissingIDsFail, ReturnWith
    <3>2. Phase # "none" /\ Phase' = "none"
      BY <1>2, <3>1, PhaseMoves, PhaseValues DEF UpdatePcs, DropPcs
    <3>3. /\ UNCHANGED <<db, announced>>
          /\ silent' = TRUE \/ (silent' = silent /\ db = announced)
      BY <1>2, <2>8, <3>1, NothingToTell
      DEF MissingIDsFail, tellVars, WritingPcs, TypeInv, TypeOK, TableTypes
    <3>4. \E S \in SUBSET (0..MaxID) : orphans' = orphans \cup S
      BY <2>8, NoneOwed DEF MissingIDsFail, lateVars
    <3>5. QED
      BY <3>2, <3>3, <3>4 DEF Abstract!Next, Abstract!Stop
  <2>9. ASSUME NEW c \in Callers, Close(c)
        PROVE  [Abstract!Next]_(Abstract!vars)
    <3>1. pc[c] = "feed" /\ pc' = [pc EXCEPT ![c] = "wait"]
      BY <2>9 DEF Close
    <3>2. Phase = PhaseAt("feed") /\ Phase' = PhaseAt("wait")
      BY <1>2, <3>1, PhaseMoves
    <3>3. PhaseAt("feed") = PhaseAt("wait")
      BY PhaseValues DEF UpdatePcs
    <3>4. UNCHANGED <<db, orphans, announced, silent>>
      BY <2>9 DEF Close, tellVars, lateVars
    <3>5. QED
      BY <3>2, <3>3, <3>4 DEF Abstract!vars
  <2>10. ASSUME NEW c \in Callers, Abort(c)
        PROVE  [Abstract!Next]_(Abstract!vars)
    <3>1. pc[c] = "feed" /\ pc' = [pc EXCEPT ![c] = "wait"]
      BY <2>10 DEF Abort
    <3>2. Phase = PhaseAt("feed") /\ Phase' = PhaseAt("wait")
      BY <1>2, <3>1, PhaseMoves
    <3>3. PhaseAt("feed") = PhaseAt("wait")
      BY PhaseValues DEF UpdatePcs
    <3>4. UNCHANGED <<db, orphans, announced, silent>>
      BY <2>10 DEF Abort, tellVars, lateVars
    <3>5. QED
      BY <3>2, <3>3, <3>4 DEF Abstract!vars
  <2>11. ASSUME NEW c \in Callers, WaitDone(c)
        PROVE  [Abstract!Next]_(Abstract!vars)
    <3>1. CASE cancelled[c]
      <4>1. /\ pc[c] = "wait" /\ pc' = [pc EXCEPT ![c] = "release"]
            /\ silent' = TRUE /\ UNCHANGED <<db, orphans, announced>>
        BY <2>11, <3>1 DEF WaitDone, ReturnWith, lateVars
      <4>2. Phase # "none" /\ Phase' = "none"
        BY <1>2, <4>1, PhaseMoves, PhaseValues DEF UpdatePcs, DropPcs
      <4>3. \E S \in SUBSET (0..MaxID) : orphans' = orphans \cup S
        BY <4>1, NoneOwed
      <4>4. QED
        BY <4>1, <4>2, <4>3 DEF Abstract!Next, Abstract!Stop
    <3>2. CASE ~cancelled[c]
      <4>1. /\ pc[c] = "wait" /\ pc' = [pc EXCEPT ![c] = "notify"]
            /\ UNCHANGED <<db, orphans, announced, silent>>
        BY <2>11, <3>2 DEF WaitDone, lateVars
      <4>2. Phase' = Phase
        BY <1>2, <4>1, PhaseMoves, PhaseValues DEF UpdatePcs
      <4>3. QED
        BY <4>1, <4>2 DEF Abstract!vars
    <3>3. QED
      BY <3>1, <3>2
  <2>12. ASSUME NEW c \in Callers, DropOk(c)
        PROVE  [Abstract!Next]_(Abstract!vars)
    <3>1. pc[c] = "drop" /\ pc' = [pc EXCEPT ![c] = "dropNotify"]
      BY <2>12 DEF DropOk
    <3>2. Phase = "drop" /\ Phase' = "drop"
      BY <1>2, <3>1, PhaseMoves, PhaseValues DEF UpdatePcs, DropPcs
    <3>3. db' = {} /\ UNCHANGED <<orphans, announced, silent>>
      BY <2>12 DEF DropOk, tellVars, lateVars
    <3>4. QED
      BY <3>2, <3>3 DEF Abstract!Next, Abstract!Clear
  <2>13. ASSUME NEW c \in Callers, DropFail(c)
        PROVE  [Abstract!Next]_(Abstract!vars)
    <3>1. /\ pc[c] = "drop"
          /\ pc' = [pc EXCEPT ![c] = "release"]
      BY <2>13 DEF DropFail, ReturnWith
    <3>2. Phase # "none" /\ Phase' = "none"
      BY <1>2, <3>1, PhaseMoves, PhaseValues DEF UpdatePcs, DropPcs
    <3>3. /\ UNCHANGED <<db, announced>>
          /\ silent' = TRUE \/ (silent' = silent /\ db = announced)
      BY <1>2, <2>13, <3>1, NothingToTell
      DEF DropFail, tellVars, WritingPcs, TypeInv, TypeOK, TableTypes
    <3>4. \E S \in SUBSET (0..MaxID) : orphans' = orphans \cup S
      <4>1. {} \in SUBSET (0..MaxID) /\ {TruncateStmt} \in SUBSET (0..MaxID)
        BY MaxIDAssumption DEF TruncateStmt
      <4>2. orphans' = orphans \cup {} \/ orphans' = orphans \cup {TruncateStmt}
        BY <2>13 DEF DropFail
      <4>3. QED
        BY <4>1, <4>2
    <3>5. QED
      BY <3>2, <3>3, <3>4 DEF Abstract!Next, Abstract!Stop
  <2>14. ASSUME NEW c \in Callers, NotifyOk(c)
        PROVE  [Abstract!Next]_(Abstract!vars)
    <3>1. /\ pc[c] \in {"notify", "dropNotify"}
          /\ pc' = [pc EXCEPT ![c] = "release"]
      BY <2>14 DEF NotifyOk, NotifyReturn, ReturnWith
    <3>2. Phase # "none" /\ Phase' = "none"
      BY <1>2, <3>1, PhaseMoves, PhaseValues DEF UpdatePcs, DropPcs
    <3>3. announced' = db /\ silent' = FALSE /\ UNCHANGED <<db, orphans>>
      BY <2>14 DEF NotifyOk, NotifyReturn, lateVars
    <3>4. QED
      BY <3>2, <3>3 DEF Abstract!Next, Abstract!Tell
  <2>15. ASSUME NEW c \in Callers, NotifyFail(c)
        PROVE  [Abstract!Next]_(Abstract!vars)
    <3>1. /\ pc[c] \in {"notify", "dropNotify"}
          /\ pc' = [pc EXCEPT ![c] = "release"]
      BY <2>15 DEF NotifyFail, NotifyReturn, ReturnWith
    <3>2. Phase # "none" /\ Phase' = "none"
      BY <1>2, <3>1, PhaseMoves, PhaseValues DEF UpdatePcs, DropPcs
    <3>3. silent' = TRUE /\ UNCHANGED <<db, announced>>
      BY <2>15 DEF NotifyFail, NotifyReturn
    <3>4. \E S \in SUBSET (0..MaxID) : orphans' = orphans \cup S
      BY <2>15, NoneOwed DEF NotifyFail, NotifyReturn, lateVars
    <3>5. QED
      BY <3>2, <3>3, <3>4 DEF Abstract!Next, Abstract!Stop
  <2>16. ASSUME NEW c \in Callers, Release(c)
        PROVE  [Abstract!Next]_(Abstract!vars)
    <3>1. pc[c] = "release" /\ pc' = [pc EXCEPT ![c] = "idle"]
      BY <2>16 DEF Release
    <3>2. Phase = PhaseAt("release") /\ Phase' = PhaseAt("idle")
      BY <1>2, <3>1, PhaseMoves
    <3>3. PhaseAt("release") = PhaseAt("idle")
      BY PhaseValues DEF UpdatePcs
    <3>4. UNCHANGED <<db, orphans, announced, silent>>
      BY <2>16 DEF Release, tellVars, lateVars
    <3>5. QED
      BY <3>2, <3>3, <3>4 DEF Abstract!vars
  <2>17. ASSUME NEW c \in Callers, NEW w \in Workers, Send(c, w)
        PROVE  [Abstract!Next]_(Abstract!vars)
    <3>1. UNCHANGED pc
      BY <2>17 DEF Send, callVars
    <3>2. UNCHANGED <<db, orphans, announced, silent>>
      BY <2>17 DEF Send, tellVars, lateVars
    <3>3. QED
      BY <3>1, <3>2, PhaseStays DEF Abstract!vars
  <2>18. ASSUME NEW c \in Callers, NEW w \in Workers, GetOk(c, w)
        PROVE  [Abstract!Next]_(Abstract!vars)
    <3>1. UNCHANGED pc
      BY <2>18 DEF GetOk, WorkerGoes, callVars
    <3>2. UNCHANGED <<db, orphans, announced, silent>>
      BY <2>18 DEF GetOk, WorkerGoes, tellVars, lateVars
    <3>3. QED
      BY <3>1, <3>2, PhaseStays DEF Abstract!vars
  <2>19. ASSUME NEW c \in Callers, NEW w \in Workers, GetSkip(c, w)
        PROVE  [Abstract!Next]_(Abstract!vars)
    <3>1. UNCHANGED pc
      BY <2>19 DEF GetSkip, WorkerGoes, callVars
    <3>2. UNCHANGED <<db, orphans, announced, silent>>
      BY <2>19 DEF GetSkip, WorkerGoes, tellVars, lateVars
    <3>3. QED
      BY <3>1, <3>2, PhaseStays DEF Abstract!vars
  <2>20. ASSUME NEW c \in Callers, NEW w \in Workers, NormOk(c, w)
        PROVE  [Abstract!Next]_(Abstract!vars)
    <3>1. UNCHANGED pc
      BY <2>20 DEF NormOk, WorkerGoes, callVars
    <3>2. UNCHANGED <<db, orphans, announced, silent>>
      BY <2>20 DEF NormOk, WorkerGoes, tellVars, lateVars
    <3>3. QED
      BY <3>1, <3>2, PhaseStays DEF Abstract!vars
  <2>21. ASSUME NEW c \in Callers, NEW w \in Workers, CallFail(c, w)
        PROVE  [Abstract!Next]_(Abstract!vars)
    <3>1. UNCHANGED pc
      BY <2>21 DEF CallFail, WorkerGoes, callVars
    <3>2. UNCHANGED <<db, orphans, announced, silent>>
      BY <2>21 DEF CallFail, WorkerGoes, tellVars, lateVars
    <3>3. QED
      BY <3>1, <3>2, PhaseStays DEF Abstract!vars
  <2>22. ASSUME NEW c \in Callers, NEW w \in Workers, AddOk(c, w)
        PROVE  [Abstract!Next]_(Abstract!vars)
    <3>1. UNCHANGED pc /\ wpc[c][w] = "add"
      BY <2>22 DEF AddOk, WorkerGoes, callVars
    <3>2. pc[c] \in {"feed", "wait"}
      BY <1>2, <3>1 DEF JobInv, WorkersAtWork
    <3>3. Phase = "update" /\ Phase' = "update"
      BY <3>1, <3>2, PhaseStays DEF Phase, UpdatePcs
    <3>4. wid[c][w] \in 1..MaxID
      BY <1>2, <3>1, BusyId DEF Busy, IDs
    <3>5. /\ wid[c][w] \notin db /\ db' = db \cup {wid[c][w]}
          /\ UNCHANGED <<orphans, announced, silent>>
      BY <2>22 DEF AddOk, WorkerGoes, tellVars
    <3>6. QED
      BY <3>3, <3>4, <3>5 DEF Abstract!Next, Abstract!Insert
  <2>23. ASSUME NEW c \in Callers, NEW w \in Workers, AddFail(c, w)
        PROVE  [Abstract!Next]_(Abstract!vars)
    <3>1. UNCHANGED pc /\ wpc[c][w] = "add"
      BY <2>23 DEF AddFail, WorkerGoes, callVars
    <3>2. pc[c] \in {"feed", "wait"}
      BY <1>2, <3>1 DEF JobInv, WorkersAtWork
    <3>3. Phase = "update" /\ Phase' = "update"
      BY <3>1, <3>2, PhaseStays DEF Phase, UpdatePcs
    <3>4. wid[c][w] \in 1..MaxID
      BY <1>2, <3>1, BusyId DEF Busy, IDs
    <3>5. /\ orphans' \in {orphans, orphans \cup {wid[c][w]}}
          /\ UNCHANGED <<db, announced, silent>>
      BY <2>23 DEF AddFail, WorkerGoes, tellVars
    <3>6. CASE orphans' = orphans
      BY <3>3, <3>5, <3>6 DEF Abstract!vars
    <3>7. CASE orphans' = orphans \cup {wid[c][w]}
      <4>1. wid[c][w] \in 0..MaxID
        BY <3>4, MaxIDAssumption
      <4>2. QED
        BY <3>3, <3>5, <3>7, <4>1 DEF Abstract!Next, Abstract!Owe
    <3>8. QED
      BY <3>5, <3>6, <3>7
  <2>24. ASSUME NEW c \in Callers, NEW w \in Workers, WorkerExit(c, w)
        PROVE  [Abstract!Next]_(Abstract!vars)
    <3>1. UNCHANGED pc
      BY <2>24 DEF WorkerExit, WorkerGoes, callVars
    <3>2. UNCHANGED <<db, orphans, announced, silent>>
      BY <2>24 DEF WorkerExit, WorkerGoes, tellVars, lateVars
    <3>3. QED
      BY <3>1, <3>2, PhaseStays DEF Abstract!vars
  <2>25. ASSUME NEW i \in IDs, LateInsert(i)
        PROVE  [Abstract!Next]_(Abstract!vars)
    <3>1. UNCHANGED pc /\ UNCHANGED announced /\ i \in orphans /\ i # 0
            /\ orphans' = orphans \ {i}
      BY <2>25 DEF LateInsert, callVars, TruncateStmt
    <3>2. \/ i \in db /\ UNCHANGED <<db, silent>>
          \/ i \notin db /\ db' = db \cup {i} /\ silent' = TRUE
      BY <2>25 DEF LateInsert
    <3>3. QED
      BY <3>1, <3>2, PhaseStays DEF Abstract!Next, Abstract!LateStatement
  <2>26. CASE LateTruncate
    <3>1. UNCHANGED pc /\ UNCHANGED announced /\ 0 \in orphans
            /\ orphans' = orphans \ {0} /\ db' = {} /\ silent' = TRUE
      BY <2>26 DEF LateTruncate, callVars, TruncateStmt
    <3>2. QED
      BY <3>1, PhaseStays DEF Abstract!Next, Abstract!LateStatement
  <2>27. CASE Publish
    <3>1. UNCHANGED <<pc, db, orphans, announced, silent>>
      BY <2>27 DEF Publish, callVars, tellVars, lateVars
    <3>2. QED
      BY <3>1, PhaseStays DEF Abstract!vars
  <2>28. CASE Crash
    <3>1. PICK c \in Callers : pc[c] # "idle"
      BY <1>2, <2>28 DEF Crash, JobInv, OneCaller
    <3>2. \A d \in Callers : d # c => pc[d] = "idle"
      BY <1>2, <3>1 DEF JobInv, OneCaller
    <3>3. Phase = PhaseAt(pc[c])
      BY <3>2, PhaseOfOne DEF Phase, PhaseOf
    <3>4. Phase' = "none"
      <4>1. pc' = [d \in Callers |-> "idle"]
        BY <2>28 DEF Crash
      <4>2. QED
        BY <4>1 DEF Phase, UpdatePcs, DropPcs
    <3>5. UNCHANGED <<db, announced>>
      BY <2>28 DEF Crash
    <3>6. silent' = TRUE \/ (silent' = silent /\ db = announced)
      <4>1. CASE pc[c] \in WritingPcs
        BY <2>28, <4>1 DEF Crash
      <4>2. CASE pc[c] \notin WritingPcs
        <5>1. ~ \E d \in Callers : pc[d] \in WritingPcs
          BY <3>2, <4>2 DEF WritingPcs
        <5>2. silent' = silent
          BY <1>2, <2>28, <5>1, Zenon
          DEF Crash, TypeInv, TypeOK, TableTypes
        <5>3. QED
          BY <1>2, <3>1, <4>2, <5>2, NothingToTell
          DEF TypeInv, TypeOK, TableTypes
      <4>3. QED
        BY <4>1, <4>2
    <3>7. CASE pc[c] = "release"
      <4>1. Phase = "none"
        BY <3>3, <3>7 DEF PhaseAt, UpdatePcs, DropPcs
      <4>2. Sent = {}
        BY <1>2, <3>2, <3>7 DEF Sent, Inserting, JobInv, WorkersAtWork
      <4>3. orphans' = orphans
        BY <2>28, <4>2 DEF Crash
      <4>4. silent' = silent
        <5>1. ~ \E d \in Callers : pc[d] \in WritingPcs
          BY <3>2, <3>7 DEF WritingPcs
        <5>2. QED
          BY <1>2, <2>28, <5>1, Zenon
          DEF Crash, TypeInv, TypeOK, TableTypes
      <4>5. QED
        BY <3>4, <3>5, <4>1, <4>3, <4>4 DEF Abstract!vars
    <3>8. CASE pc[c] # "release"
      <4>1. Phase # "none"
        BY <1>2, <3>1, <3>3, <3>8
        DEF PhaseAt, TypeInv, TypeOK, CallTypes, JobPcs
      <4>2. Sent \subseteq 0..MaxID
        BY <1>2, BusyId, MaxIDAssumption
        DEF Sent, Inserting, Busy, TruncateStmt, IDs
      <4>3. \E S \in SUBSET (0..MaxID) : orphans' = orphans \cup S
        BY <2>28, <4>2 DEF Crash
      <4>4. QED
        BY <3>4, <3>5, <3>6, <4>1, <4>3 DEF Abstract!Next, Abstract!Stop
    <3>9. QED
      BY <3>7, <3>8
  <2>29. CASE UNCHANGED vars
    <3>1. UNCHANGED <<pc, db, orphans, announced, silent>>
      BY <2>29 DEF vars
    <3>2. QED
      BY <3>1, PhaseStays DEF Abstract!vars
  <2>30. QED
    BY <1>2, <2>1, <2>2, <2>3, <2>4, <2>5, <2>6, <2>7, <2>8, <2>9, <2>10,
       <2>11, <2>12, <2>13, <2>14, <2>15, <2>16, <2>17, <2>18, <2>19, <2>20,
       <2>21, <2>22, <2>23, <2>24, <2>25, <2>26, <2>27, <2>28, <2>29
    DEF Next, CallStart, CallerStep, WorkerStep
<1>3. QED
  BY <1>1, <1>2, TypeInvariant, JobInvariant, ToldInvariant, PTL
  DEF Spec, ImplementsCatalogue, Abstract!Spec


\* Whatever the service does in a step, a reader of the table sees it gain
\* one row or lose all: what the environments of the searches may do.
RowOrAll ==
    [][\/ db' = {}
       \/ \E i \in IDs \ db : db' = db \cup {i}]_db

\* The searches meet no other change of the table (update/adapters/db/
\* storage.go: one INSERT or one TRUNCATE per statement).
THEOREM TableChangesByRows == Spec => RowOrAll
<1> DEFINE Row == \/ db' = {}
                  \/ \E i \in IDs \ db : db' = db \cup {i}
<1>1. [Abstract!Next]_(Abstract!vars) /\ TypeInv => [Row]_db
  <2> SUFFICES ASSUME [Abstract!Next]_(Abstract!vars), TypeInv, db' # db
               PROVE  Row
    OBVIOUS
  <2>1. orphans \subseteq 0..MaxID
    BY MaxIDAssumption DEF TypeInv, TypeOK, TableTypes, IDs, TruncateStmt
  <2>2. QED
    BY <2>1
    DEF Abstract!Next, Abstract!Begin, Abstract!Insert, Abstract!Clear,
        Abstract!Owe, Abstract!Tell, Abstract!Stop, Abstract!LateStatement,
        Abstract!vars, IDs
<1>2. [][Row]_db <=> RowOrAll
  BY PTL DEF RowOrAll
<1>3. QED
  BY <1>1, <1>2, TypeInvariant, ServiceImplementsCatalogue, PTL
  DEF ImplementsCatalogue, Abstract!Spec

-----------------------------------------------------------------------------
(* Layer 6: nothing is stored before it is published.                      *)

OnlyPublished ==
    /\ lastID \in [Callers -> 0..latest]
    /\ todo \in [Callers -> SUBSET (1..latest)]
    /\ wid \in [Callers -> [Workers -> 0..latest]]
    /\ db \in SUBSET (1..latest)
    /\ orphans \in SUBSET (0..latest)

LEMMA BusyIsPublished ==
    ASSUME TypeInv, OnlyPublished, NEW c \in Callers, NEW w \in Workers,
           wpc[c][w] \in Busy
    PROVE  wid[c][w] \in 1..latest
BY BusyId, MaxIDAssumption
DEF OnlyPublished, TypeInv, TypeOK, TableTypes, IDs

\* A worker that goes on keeps its id or gives it up.
LEMMA WorkerGoesPublished ==
    ASSUME TypeInv, OnlyPublished, NEW c \in Callers, NEW w \in Workers,
           NEW from, NEW to, WorkerGoes(c, w, from, to)
    PROVE  /\ latest' = latest
           /\ lastID' \in [Callers -> 0..latest]
           /\ todo' \in [Callers -> SUBSET (1..latest)]
           /\ wid' \in [Callers -> [Workers -> 0..latest]]
<1>1. latest \in Nat
  BY MaxIDAssumption DEF TypeInv, TypeOK, TableTypes
<1>2. QED
  BY <1>1 DEF WorkerGoes, callVars, OnlyPublished

\* From xkcd to the table an id only ever travels by way of the number of the
\* last comic, so no row, no statement and no worker is ahead of xkcd
\* (update/core/service.go:68-91, 124-147).
THEOREM NothingUnpublished == Spec => []OnlyPublished
<1>1. ASSUME Init PROVE OnlyPublished
  <2>1. latest \in Nat
    BY <1>1, MaxIDAssumption DEF Init
  <2>2. QED
    BY <1>1, <2>1 DEF Init, OnlyPublished
<1>2. ASSUME TypeInv, OnlyPublished, [Next]_vars PROVE OnlyPublished'
  <2>0. latest \in Nat
    BY <1>2, MaxIDAssumption DEF TypeInv, TypeOK, TableTypes
  <2>1. CASE UNCHANGED <<lastID, todo, wid, db, orphans, latest>>
    BY <1>2, <2>1 DEF OnlyPublished
  <2>2. ASSUME NEW c \in Callers, LastIDReply(c) PROVE OnlyPublished'
    BY <1>2, <2>0, <2>2
    DEF LastIDReply, poolVars, lateVars, OnlyPublished
  <2>3. ASSUME NEW c \in Callers, IDsReplyMissing(c) PROVE OnlyPublished'
    <3>1. Missing(c) \subseteq 1..latest
      BY <1>2, <2>0 DEF Missing, OnlyPublished
    <3>2. QED
      BY <1>2, <2>3, <3>1 DEF IDsReplyMissing, lateVars, OnlyPublished
  <2>4. ASSUME NEW c \in Callers, Abort(c) PROVE OnlyPublished'
    BY <1>2, <2>4 DEF Abort, poolVars, lateVars, OnlyPublished
  <2>5. ASSUME NEW c \in Callers, DropOk(c) PROVE OnlyPublished'
    BY <1>2, <2>5 DEF DropOk, poolVars, lateVars, OnlyPublished
  <2>6. ASSUME NEW c \in Callers, DropFail(c) PROVE OnlyPublished'
    BY <1>2, <2>0, <2>6
    DEF DropFail, poolVars, OnlyPublished, TruncateStmt
  <2>7. ASSUME NEW c \in Callers, Release(c) PROVE OnlyPublished'
    BY <1>2, <2>0, <2>7 DEF Release, lateVars, OnlyPublished
  <2>8. ASSUME NEW c \in Callers, NEW w \in Workers, Send(c, w)
        PROVE  OnlyPublished'
    <3>1. Next1(todo[c]) \in 1..latest
      BY <1>2, <2>0, <2>8, Next1InSet DEF Send, OnlyPublished
    <3>2. QED
      BY <1>2, <2>0, <2>8, <3>1 DEF Send, lateVars, OnlyPublished
  <2>9. ASSUME NEW c \in Callers, NEW w \in Workers,
               GetOk(c, w) \/ GetSkip(c, w) \/ NormOk(c, w)
                 \/ CallFail(c, w) \/ WorkerExit(c, w)
        PROVE  OnlyPublished'
    BY <1>2, <2>9, WorkerGoesPublished
    DEF GetOk, GetSkip, NormOk, CallFail, WorkerExit, OnlyPublished
  <2>10. ASSUME NEW c \in Callers, NEW w \in Workers,
                AddOk(c, w) \/ AddFail(c, w)
         PROVE  OnlyPublished'
    <3>1. WorkerGoes(c, w, "add", "recv")
      BY <2>10 DEF AddOk, AddFail
    <3>2. wid[c][w] \in 1..latest
      BY <1>2, <3>1, BusyIsPublished DEF WorkerGoes, Busy
    <3>3. db' \subseteq db \cup {wid[c][w]}
            /\ orphans' \subseteq orphans \cup {wid[c][w]}
      BY <2>10 DEF AddOk, AddFail
    <3>4. db' \in SUBSET (1..latest) /\ orphans' \in SUBSET (0..latest)
      BY <1>2, <2>0, <3>2, <3>3 DEF OnlyPublished
    <3>5. QED
      BY <1>2, <3>1, <3>4, WorkerGoesPublished DEF OnlyPublished
  <2>11. ASSUME NEW i \in IDs, LateInsert(i) PROVE OnlyPublished'
    <3>1. i \in 1..latest
      BY <1>2, <2>0, <2>11, MaxIDAssumption
      DEF LateInsert, OnlyPublished, IDs
    <3>2. QED
      BY <1>2, <2>11, <3>1
      DEF LateInsert, callVars, poolVars, OnlyPublished
  <2>12. CASE LateTruncate
    BY <1>2, <2>12 DEF LateTruncate, callVars, poolVars, OnlyPublished
  <2>13. CASE Publish
    BY <1>2, <2>0, <2>13
    DEF Publish, callVars, poolVars, lateVars, OnlyPublished
  <2>14. CASE Crash
    <3>1. Sent \subseteq 0..latest
      BY <1>2, <2>0, BusyIsPublished DEF Sent, Inserting, Busy, TruncateStmt
    <3>2. QED
      BY <1>2, <2>0, <2>14, <3>1 DEF Crash, OnlyPublished
  <2>15. ASSUME NEW c \in Callers,
                \/ UpdateStart(c) \/ DropStart(c) \/ Reject(c) \/ Cancel(c)
                \/ IDsReplyUpToDate(c) \/ MissingIDsFail(c)
                \/ Close(c) \/ WaitDone(c)
                \/ NotifyOk(c) \/ NotifyFail(c)
         PROVE  OnlyPublished'
    BY <2>1, <2>15
    DEF UpdateStart, DropStart, NewCall, Reject, Cancel, IDsReplyUpToDate,
        MissingIDsFail, Close, WaitDone, NotifyOk, NotifyFail, NotifyReturn,
        poolVars, lateVars
  <2>16. CASE UNCHANGED vars
    BY <2>1, <2>16 DEF vars
  <2>17. QED
    BY <1>2, <2>2, <2>3, <2>4, <2>5, <2>6, <2>7, <2>8, <2>9, <2>10, <2>11,
       <2>12, <2>13, <2>14, <2>15, <2>16
    DEF Next, CallStart, CallerStep, WorkerStep
<1>3. QED
  BY <1>1, <1>2, TypeInvariant, PTL DEF Spec

-----------------------------------------------------------------------------
(* StatsRead: what the statements count.                                   *)

\* A table of published comics is finite, and the more rows it has the more
\* there is to count (update/adapters/db/storage.go:43-67).
LEMMA CountsGrow ==
    ASSUME NEW n \in 0..MaxID, NEW T \in SUBSET (1..n), NEW S \in SUBSET T
    PROVE  /\ Cardinality(T) \in 0..n
           /\ WordsTotal(T) \in 0..(MaxID * Cardinality(Words))
           /\ WordsUnique(T) \in 0..Cardinality(Words)
           /\ Cardinality(S) <= Cardinality(T)
           /\ WordsTotal(S) <= WordsTotal(T)
           /\ WordsUnique(S) <= WordsUnique(T)
<1> DEFINE Pairs(U) == {p \in U \X Words : p[2] \in WordsOf[p[1]]}
<1> DEFINE Uses(U) == UNION {WordsOf[i] : i \in U}
<1>1. n \in Nat /\ n <= MaxID /\ MaxID \in Nat /\ T \subseteq IDs
  BY MaxIDAssumption DEF IDs
<1>2. /\ IsFiniteSet(1..n) /\ Cardinality(1..n) = n
      /\ IsFiniteSet(IDs) /\ Cardinality(IDs) = MaxID
  BY <1>1, FS_Interval DEF IDs
<1>3. /\ IsFiniteSet(T) /\ Cardinality(T) <= n
      /\ Cardinality(S) <= Cardinality(T)
  BY <1>2, FS_Subset
<1>4. /\ IsFiniteSet(IDs \X Words)
      /\ Cardinality(IDs \X Words) = MaxID * Cardinality(Words)
  BY <1>2, FS_Product, WordsAssumption
<1>5. Pairs(S) \subseteq Pairs(T) /\ Pairs(T) \subseteq IDs \X Words
  BY <1>1
<1>6. /\ IsFiniteSet(Pairs(T)) /\ IsFiniteSet(Pairs(S))
      /\ Cardinality(Pairs(T)) <= MaxID * Cardinality(Words)
      /\ Cardinality(Pairs(S)) <= Cardinality(Pairs(T))
  BY <1>4, <1>5, FS_Subset
<1>7. Uses(S) \subseteq Uses(T) /\ Uses(T) \subseteq Words
  BY <1>1, WordsAssumption
<1>8. /\ IsFiniteSet(Uses(T)) /\ IsFiniteSet(Uses(S))
      /\ Cardinality(Uses(T)) <= Cardinality(Words)
      /\ Cardinality(Uses(S)) <= Cardinality(Uses(T))
  BY <1>7, FS_Subset, WordsAssumption
<1>9. /\ Cardinality(T) \in Nat /\ Cardinality(Pairs(T)) \in Nat
      /\ Cardinality(Uses(T)) \in Nat
      /\ MaxID * Cardinality(Words) \in Nat /\ Cardinality(Words) \in Nat
  BY <1>2, <1>3, <1>4, <1>6, <1>8, FS_CardinalityType, WordsAssumption
<1>10. /\ WordsTotal(T) = Cardinality(Pairs(T))
       /\ WordsTotal(S) = Cardinality(Pairs(S))
       /\ WordsUnique(T) = Cardinality(Uses(T))
       /\ WordsUnique(S) = Cardinality(Uses(S))
  BY DEF WordsTotal, WordsUnique
<1> HIDE DEF Pairs, Uses
<1>11. QED
  BY <1>1, <1>3, <1>6, <1>8, <1>9, <1>10

\* Steps of Stats leave the service alone, so its invariants carry over.
LEMMA StatsIsService == StatsSpec => Spec
<1>1. StatsInit => Init
  BY DEF StatsInit
<1>2. ASSUME [StatsNext]_statsVars PROVE [Next]_vars
  BY <1>2 DEF StatsNext, Serve, statsVars
<1>3. QED
  BY <1>1, <1>2, PTL DEF StatsSpec, Spec

\* A number that has been read lies between its values over the rows that
\* have stayed since the call began and over those that were ever there.
Between(n, low, high) == low <= n /\ n <= high

StatsInv ==
    /\ asking \in {"sum", "distinct", "total", "done"} =>
        Between(stats.comicsFetched, Cardinality(stayed), Cardinality(seen))
    /\ asking \in {"distinct", "total", "done"} =>
        Between(stats.wordsTotal, WordsTotal(stayed), WordsTotal(seen))
    /\ asking \in {"total", "done"} =>
        Between(stats.wordsUnique, WordsUnique(stayed), WordsUnique(seen))
    /\ asking = "done" => stats.comicsFetched <= stats.comicsTotal

\* xkcd takes nothing back.
LEMMA LatestGrows ==
    ASSUME TypeInv, [Next]_vars
    PROVE  latest <= latest'
<1>1. latest \in Nat
  BY MaxIDAssumption DEF TypeInv, TypeOK, TableTypes
<1>2. CASE UNCHANGED latest
  BY <1>1, <1>2
<1>3. CASE Publish
  BY <1>1, <1>3 DEF Publish
<1>4. ASSUME NEW c \in Callers, CallStart(c) \/ CallerStep(c)
      PROVE  UNCHANGED latest
  BY <1>4
  DEF CallStart, CallerStep, UpdateStart, DropStart, NewCall, Reject, Cancel,
      LastIDReply, IDsReplyUpToDate, IDsReplyMissing, MissingIDsFail, Close,
      Abort, WaitDone, DropOk, DropFail, NotifyOk, NotifyFail, NotifyReturn,
      Release
<1>5. ASSUME NEW c \in Callers, NEW w \in Workers, WorkerStep(c, w)
      PROVE  UNCHANGED latest
  BY <1>5
  DEF WorkerStep, WorkerGoes, Send, GetOk, GetSkip, NormOk, CallFail, AddOk,
      AddFail, WorkerExit
<1>6. ASSUME LateTruncate \/ Crash \/ \E i \in IDs : LateInsert(i)
      PROVE  UNCHANGED latest
  BY <1>6 DEF LateTruncate, Crash, LateInsert
<1>7. QED
  BY <1>2, <1>3, <1>4, <1>5, <1>6 DEF Next, vars

\* The numbers a call of Stats has read, as far as it has come, whatever the
\* jobs, late statements, xkcd and crashes do in between: the invariant that
\* makes the reply right (update/core/service.go:149-164, storage.go:43-67).
THEOREM StatsInvariant == StatsSpec => [](StatsTypeOK /\ StatsInv)
<1>1. ASSUME StatsInit, TypeInv PROVE StatsTypeOK /\ StatsInv
  <2>1. latest \in 0..MaxID /\ latest \in Nat
    BY <1>1, MaxIDAssumption DEF TypeInv, TypeOK, TableTypes
  <2>2. /\ MaxID * Cardinality(Words) \in Nat /\ Cardinality(Words) \in Nat
    BY MaxIDAssumption, WordsAssumption, FS_CardinalityType
  <2>3. /\ seen = {} /\ stayed = {} /\ db = {} /\ asking = "idle"
        /\ stats = NoStats
    BY <1>1 DEF StatsInit, Init
  <2>4. QED
    BY <2>1, <2>2, <2>3 DEF StatsTypeOK, StatsInv, NoStats, Resting, Reads
<1>2. ASSUME TypeInv, TypeInv', OnlyPublished, OnlyPublished',
             StatsTypeOK, StatsInv, [StatsNext]_statsVars
      PROVE  StatsTypeOK' /\ StatsInv'
  <2>1. /\ latest \in 0..MaxID /\ latest \in Nat
        /\ latest' \in 0..MaxID /\ latest' \in Nat
    BY <1>2, MaxIDAssumption DEF TypeInv, TypeOK, TableTypes
  <2>2. /\ MaxID * Cardinality(Words) \in Nat /\ Cardinality(Words) \in Nat
    BY MaxIDAssumption, WordsAssumption, FS_CardinalityType
  <2>3. /\ Cardinality(db) \in 0..latest
        /\ WordsTotal(db) \in 0..(MaxID * Cardinality(Words))
        /\ WordsUnique(db) \in 0..Cardinality(Words)
    BY <1>2, <2>1, CountsGrow DEF OnlyPublished
  <2>4. /\ Cardinality(stayed) <= Cardinality(db)
        /\ Cardinality(db) <= Cardinality(seen)
        /\ WordsTotal(stayed) <= WordsTotal(db)
        /\ WordsTotal(db) <= WordsTotal(seen)
        /\ WordsUnique(stayed) <= WordsUnique(db)
        /\ WordsUnique(db) <= WordsUnique(seen)
    BY <1>2, <2>1, CountsGrow DEF OnlyPublished, StatsTypeOK
  <2>5. CASE Serve
    <3>1. /\ latest <= latest' /\ stats' = stats
          /\ asking' = asking \/ asking' = "failed"
      BY <1>2, <2>5, LatestGrows DEF Serve
    <3>2. /\ seen' = seen \cup db' /\ stayed' = stayed \cap db'
          /\ db' \in SUBSET (1..latest')
      BY <1>2, <2>5 DEF Serve, OnlyPublished
    <3>3. /\ seen' \in SUBSET (1..latest') /\ db' \in SUBSET seen'
          /\ stayed' \in SUBSET db'
          /\ seen \in SUBSET seen' /\ stayed' \in SUBSET stayed
      BY <1>2, <2>1, <3>1, <3>2 DEF StatsTypeOK
    <3>4. StatsTypeOK'
      BY <1>2, <2>1, <2>2, <3>1, <3>3 DEF StatsTypeOK, Resting
    <3>5. /\ Cardinality(stayed') <= Cardinality(stayed)
          /\ Cardinality(seen) <= Cardinality(seen')
          /\ WordsTotal(stayed') <= WordsTotal(stayed)
          /\ WordsTotal(seen) <= WordsTotal(seen')
          /\ WordsUnique(stayed') <= WordsUnique(stayed)
          /\ WordsUnique(seen) <= WordsUnique(seen')
      <4>1. stayed \in SUBSET (1..latest)
        BY <1>2 DEF StatsTypeOK
      <4>2. QED
        BY <2>1, <3>3, <4>1, CountsGrow
    <3>6. \A T \in {stayed, seen, stayed', seen'} :
            /\ Cardinality(T) \in Nat /\ WordsTotal(T) \in Nat
            /\ WordsUnique(T) \in Nat
      <4>1. \A T \in {stayed, seen, stayed', seen'} :
              T \in SUBSET (1..latest')
        BY <1>2, <2>1, <3>1, <3>3 DEF StatsTypeOK
      <4>2. QED
        BY <2>1, <2>2, <4>1, CountsGrow
    <3>7. /\ stats.comicsFetched \in Nat /\ stats.wordsTotal \in Nat
          /\ stats.wordsUnique \in Nat
      BY <1>2, <2>1, <2>2 DEF StatsTypeOK
    <3>8. StatsInv'
      BY <1>2, <3>1, <3>5, <3>6, <3>7 DEF StatsInv, Between
    <3>9. QED
      BY <3>4, <3>8
  <2>6. CASE Begin /\ UNCHANGED vars
    BY <1>2, <2>1, <2>2, <2>6
    DEF Begin, vars, StatsTypeOK, StatsInv, OnlyPublished, NoStats, Order,
        Resting, Reads
  <2>7. CASE CountRows /\ UNCHANGED vars
    BY <1>2, <2>1, <2>2, <2>3, <2>4, <2>7
    DEF CountRows, Read, vars, StatsTypeOK, StatsInv, Between, Order,
        Resting, Reads
  <2>8. CASE SumWords /\ UNCHANGED vars
    BY <1>2, <2>1, <2>2, <2>3, <2>4, <2>8
    DEF SumWords, Read, vars, StatsTypeOK, StatsInv, Between, Order,
        Resting, Reads
  <2>9. CASE CountWords /\ UNCHANGED vars
    BY <1>2, <2>1, <2>2, <2>3, <2>4, <2>9
    DEF CountWords, Read, vars, StatsTypeOK, StatsInv, Between, Order,
        Resting, Reads
  <2>10. CASE TotalReply /\ UNCHANGED vars
    BY <1>2, <2>1, <2>2, <2>10
    DEF TotalReply, Read, vars, StatsTypeOK, StatsInv, Between, Order,
        Resting, Reads
  <2>11. CASE Fail /\ UNCHANGED vars
    BY <1>2, <2>1, <2>2, <2>11
    DEF Fail, vars, StatsTypeOK, StatsInv, Resting, Reads
  <2>12. CASE UNCHANGED statsVars
    BY <1>2, <2>12
    DEF statsVars, vars, StatsTypeOK, StatsInv
  <2>13. QED
    BY <1>2, <2>5, <2>6, <2>7, <2>8, <2>9, <2>10, <2>11, <2>12
    DEF StatsNext, StatsStep
<1>3. QED
  BY <1>1, <1>2, StatsIsService, TypeInvariant, NothingUnpublished, PTL
  DEF StatsSpec

\* Types of a call of Stats, over the real service
\* (update/adapters/db/storage.go:43-67).
THEOREM StatsTypeCorrect == StatsSpec => []StatsTypeOK
BY StatsInvariant, PTL

\* The table is counted before xkcd is asked, so no reply shows more comics
\* stored than published (update/core/service.go:149-164).
THEOREM FetchedIsWithinTotal == StatsSpec => []FetchedWithinTotal
<1>1. StatsInv => FetchedWithinTotal
  BY DEF StatsInv, FetchedWithinTotal
<1>2. QED
  BY <1>1, StatsInvariant, PTL

\* Each number of a reply is one the table justified during the call
\* (update/adapters/db/storage.go:43-67).
THEOREM StatsCurrent == StatsSpec => []StatsAreCurrent
<1>1. StatsInv => StatsAreCurrent
  BY DEF StatsInv, StatsAreCurrent, Between
<1>2. QED
  BY <1>1, StatsInvariant, PTL

-----------------------------------------------------------------------------
(* Termination.  A job that is admitted ends because every step of it      *)
(* brings it nearer to its end.                                            *)

\* How many workers of c are at one of the places S.
WorkersAt(c, S) == Cardinality({w \in Workers : wpc[c][w] \in S})

\* An id that is not sent costs the pool four steps at most: to be sent, got,
\* normalised and added.
PoolLeft(c) ==
    4 * Cardinality(todo[c])
        + WorkersAt(c, Busy \cup {"recv"}) + WorkersAt(c, Busy)
        + WorkersAt(c, {"get", "norm"}) + WorkersAt(c, {"get"})

PoolMost == 4 * MaxID + 4 * Cardinality(Workers)

PhasesLeft ==
    [lastID |-> 6, ids |-> 5, feed |-> 4, wait |-> 3, drop |-> 3,
     notify |-> 2, dropNotify |-> 2, release |-> 1, idle |-> 0]

\* What the job of c still has to do; a phase outweighs every pool.
Left(c) == PhasesLeft[pc[c]] * (PoolMost + 1) + PoolLeft(c)

JobStep(c) == CallerStep(c) \/ \E w \in Workers : WorkerStep(c, w)

\* Every step of a job takes something off what it has left, and nobody adds
\* to it.
JobAdvances ==
    [][\A c \in Callers :
        pc[c] # "idle" =>
            /\ Left(c)' <= Left(c)
            /\ JobStep(c) => Left(c)' < Left(c)]_vars

\* The feeder never waits for workers that have ended: whatever errors they
\* have met, one of them receives or will come back to receive.
FeederIsServed ==
    \A c \in Callers :
        pc[c] = "feed" =>
            \E w \in Workers : wpc[c][w] \in Busy \cup {"recv"}

LEMMA WorkersCounted ==
    ASSUME NEW c \in Callers, NEW S
    PROVE  /\ IsFiniteSet({w \in Workers : wpc[c][w] \in S})
           /\ WorkersAt(c, S) \in 0..Cardinality(Workers)
           /\ Cardinality(Workers) \in Nat
<1> DEFINE W == {w \in Workers : wpc[c][w] \in S}
<1>1. W \in SUBSET Workers /\ IsFiniteSet(Workers)
  BY WorkersAssumption
<1>2. IsFiniteSet(W) /\ Cardinality(W) <= Cardinality(Workers)
  BY <1>1, FS_Subset
<1>3. Cardinality(W) \in Nat /\ Cardinality(Workers) \in Nat
  BY <1>1, <1>2, FS_CardinalityType
<1>4. QED
  BY <1>2, <1>3 DEF WorkersAt

LEMMA TodoCounted ==
    ASSUME TypeInv, NEW c \in Callers
    PROVE  IsFiniteSet(todo[c]) /\ Cardinality(todo[c]) \in 0..MaxID
<1>1. todo[c] \in SUBSET IDs
  BY DEF TypeInv, TypeOK, CallTypes
<1>2. IsFiniteSet(IDs) /\ Cardinality(IDs) = MaxID
  BY FS_Interval, MaxIDAssumption DEF IDs
<1>3. IsFiniteSet(todo[c]) /\ Cardinality(todo[c]) <= MaxID
  BY <1>1, <1>2, FS_Subset
<1>4. QED
  BY <1>3, FS_CardinalityType, MaxIDAssumption

LEMMA PoolBounded ==
    ASSUME TypeInv, NEW c \in Callers
    PROVE  PoolMost \in Nat /\ PoolLeft(c) \in 0..PoolMost
<1>1. Cardinality(todo[c]) \in 0..MaxID
  BY TodoCounted
<1>2. /\ WorkersAt(c, Busy \cup {"recv"}) \in 0..Cardinality(Workers)
      /\ WorkersAt(c, Busy) \in 0..Cardinality(Workers)
      /\ WorkersAt(c, {"get", "norm"}) \in 0..Cardinality(Workers)
      /\ WorkersAt(c, {"get"}) \in 0..Cardinality(Workers)
      /\ Cardinality(Workers) \in Nat
  BY WorkersCounted
<1>3. QED
  BY <1>1, <1>2, MaxIDAssumption DEF PoolLeft, PoolMost

LEMMA PhaseRanks ==
    ASSUME TypeInv, NEW c \in Callers
    PROVE  PhasesLeft[pc[c]] \in 0..6
<1>1. pc[c] \in JobPcs \cup {"idle"}
  BY DEF TypeInv, TypeOK, CallTypes
<1>2. QED
  BY <1>1 DEF PhasesLeft, JobPcs, UpdatePcs, DropPcs

\* A phase outweighs all that a pool can have left.
LEMMA Outweighs ==
    ASSUME NEW r \in Nat, NEW s \in Nat, r < s, NEW m \in Nat,
           NEW p \in 0..m, NEW q \in Nat
    PROVE  r * (m + 1) + p < s * (m + 1) + q
<1>1. r * (m + 1) + (m + 1) = (r + 1) * (m + 1)
  OBVIOUS
<1>2. (r + 1) * (m + 1) <= s * (m + 1)
  OBVIOUS
<1>3. r * (m + 1) \in Nat /\ s * (m + 1) \in Nat
  OBVIOUS
<1>4. QED
  BY <1>1, <1>2, <1>3

LEMMA PhaseFalls ==
    ASSUME TypeInv, TypeInv', NEW c \in Callers,
           PhasesLeft[pc'[c]] < PhasesLeft[pc[c]]
    PROVE  Left(c)' < Left(c)
<1>1. PoolMost \in Nat /\ PoolMost' = PoolMost
  BY PoolBounded DEF PoolMost
<1>2. PoolLeft(c)' \in 0..PoolMost /\ PoolLeft(c) \in Nat
  <2>1. (PoolLeft(c) \in 0..PoolMost)'
    BY PoolBounded, PTL
  <2>2. QED
    BY <1>1, <2>1, PoolBounded
<1>3. PhasesLeft[pc[c]] \in Nat /\ PhasesLeft[pc'[c]] \in Nat
  <2>1. (PhasesLeft[pc[c]] \in 0..6)'
    BY PhaseRanks, PTL
  <2>2. QED
    BY <2>1, PhaseRanks DEF PhasesLeft
<1>4. QED
  BY <1>1, <1>2, <1>3, Outweighs DEF Left, PhasesLeft


\* A worker that goes from one place to another.
LEMMA WorkerCounts ==
    ASSUME TypeInv, NEW c \in Callers, NEW w \in Workers, NEW to,
           wpc' = [wpc EXCEPT ![c][w] = to]
    PROVE  \A S : WorkersAt(c, S) \in Nat /\ WorkersAt(c, S)' =
             IF wpc[c][w] \in S
               THEN IF to \in S THEN WorkersAt(c, S) ELSE WorkersAt(c, S) - 1
               ELSE IF to \in S THEN WorkersAt(c, S) + 1 ELSE WorkersAt(c, S)
<1> TAKE S
<1> DEFINE W == {v \in Workers : wpc[c][v] \in S}
<1> DEFINE V == {v \in Workers : wpc'[c][v] \in S}
<1>1. IsFiniteSet(W) /\ WorkersAt(c, S) = Cardinality(W)
  BY WorkersCounted DEF WorkersAt
<1>2. WorkersAt(c, S)' = Cardinality(V)
  BY DEF WorkersAt
<1>3. wpc'[c] = [wpc[c] EXCEPT ![w] = to] /\ wpc[c] \in [Workers -> WorkerPcs]
  BY DEF TypeInv, TypeOK, PoolTypes, WorkerPcs
<1>4. V = IF to \in S THEN W \cup {w} ELSE W \ {w}
  BY <1>3
<1>5. w \in W <=> wpc[c][w] \in S
  OBVIOUS
<1>6. Cardinality(W) \in Nat
  BY <1>1, FS_CardinalityType
<1>7. CASE to \in S
  <2>1. Cardinality(V) =
          IF w \in W THEN Cardinality(W) ELSE Cardinality(W) + 1
    BY <1>1, <1>4, <1>7, FS_AddElement
  <2>2. QED
    BY <1>1, <1>2, <1>5, <1>6, <1>7, <2>1
<1>8. CASE to \notin S
  <2>1. Cardinality(V) =
          IF w \in W THEN Cardinality(W) - 1 ELSE Cardinality(W)
    BY <1>1, <1>4, <1>8, FS_RemoveElement
  <2>2. QED
    BY <1>1, <1>2, <1>5, <1>6, <1>8, <2>1
<1>9. QED
  BY <1>7, <1>8

\* What a worker does with an id uses up a step of the pool.
Forward == {<<"get", "norm">>, <<"get", "recv">>, <<"norm", "add">>,
            <<"norm", "recv">>, <<"add", "recv">>, <<"recv", "done">>}

LEMMA WorkerAdvances ==
    ASSUME TypeInv, NEW c \in Callers, NEW w \in Workers, NEW from, NEW to,
           <<from, to>> \in Forward, WorkerGoes(c, w, from, to)
    PROVE  Left(c)' < Left(c)
<1>1. /\ wpc[c][w] = from /\ wpc' = [wpc EXCEPT ![c][w] = to]
      /\ pc' = pc /\ todo' = todo
  BY DEF WorkerGoes, callVars
<1> DEFINE n1 == WorkersAt(c, Busy \cup {"recv"})
<1> DEFINE n2 == WorkersAt(c, Busy)
<1> DEFINE n3 == WorkersAt(c, {"get", "norm"})
<1> DEFINE n4 == WorkersAt(c, {"get"})
<1> DEFINE D(S, n) ==
      IF from \in S THEN IF to \in S THEN n ELSE n - 1
                    ELSE IF to \in S THEN n + 1 ELSE n
<1>0. \A S : WorkersAt(c, S) \in Nat
               /\ WorkersAt(c, S)' = D(S, WorkersAt(c, S))
  BY <1>1, WorkerCounts
<1>2. /\ n1 \in Nat /\ n2 \in Nat /\ n3 \in Nat /\ n4 \in Nat
  BY <1>0
<1>3. /\ n1' = D(Busy \cup {"recv"}, n1) /\ n2' = D(Busy, n2)
      /\ n3' = D({"get", "norm"}, n3) /\ n4' = D({"get"}, n4)
  BY <1>0 DEF Busy
<1>4. n1' + n2' + n3' + n4' < n1 + n2 + n3 + n4
  BY <1>2, <1>3 DEF Forward, Busy
<1>5. n1' \in Int /\ n2' \in Int /\ n3' \in Int /\ n4' \in Int
  BY <1>2, <1>3 DEF Forward, Busy
<1> HIDE DEF n1, n2, n3, n4
<1>6. Cardinality(todo[c]) \in Nat
  BY TodoCounted, MaxIDAssumption
<1>7. PoolLeft(c)' < PoolLeft(c)
  <2>1. /\ PoolLeft(c) = 4 * Cardinality(todo[c]) + n1 + n2 + n3 + n4
        /\ PoolLeft(c)' = 4 * Cardinality(todo[c]) + n1' + n2' + n3' + n4'
    BY <1>1 DEF PoolLeft, n1, n2, n3, n4
  <2>2. 4 * Cardinality(todo[c]) \in Nat
    BY <1>6
  <2>3. QED
    BY <1>2, <1>4, <1>5, <2>1, <2>2 DEF n1, n2, n3, n4
<1>8. PhasesLeft[pc[c]] * (PoolMost + 1) \in Nat
  BY PhaseRanks, PoolBounded
<1>9. /\ Left(c) = PhasesLeft[pc[c]] * (PoolMost + 1) + PoolLeft(c)
      /\ Left(c)' = PhasesLeft[pc[c]] * (PoolMost + 1) + PoolLeft(c)'
  BY <1>1 DEF Left, PhasesLeft, PoolMost
<1>10. PoolLeft(c) \in Nat /\ PoolLeft(c)' \in Int
  BY <1>1, <1>2, <1>5, <1>6, PoolBounded DEF PoolLeft, n1, n2, n3, n4
<1>11. QED
  BY <1>7, <1>8, <1>9, <1>10

\* An id that is sent makes one worker busy, and there is one less to send.
LEMMA SendAdvances ==
    ASSUME TypeInv, NEW c \in Callers, NEW w \in Workers, Send(c, w)
    PROVE  Left(c)' < Left(c)
<1>1. /\ wpc[c][w] = "recv" /\ wpc' = [wpc EXCEPT ![c][w] = "get"]
      /\ pc' = pc
      /\ todo[c] # {} /\ todo' = [todo EXCEPT ![c] = @ \ {Next1(todo[c])}]
  BY DEF Send
<1> DEFINE n1 == WorkersAt(c, Busy \cup {"recv"})
<1> DEFINE n2 == WorkersAt(c, Busy)
<1> DEFINE n3 == WorkersAt(c, {"get", "norm"})
<1> DEFINE n4 == WorkersAt(c, {"get"})
<1> DEFINE D(S, n) ==
      IF wpc[c][w] \in S THEN IF "get" \in S THEN n ELSE n - 1
                      ELSE IF "get" \in S THEN n + 1 ELSE n
<1>0. \A S : WorkersAt(c, S) \in Nat
               /\ WorkersAt(c, S)' = D(S, WorkersAt(c, S))
  BY <1>1, WorkerCounts
<1>2. /\ n1 \in Nat /\ n2 \in Nat /\ n3 \in Nat /\ n4 \in Nat
  BY <1>0
<1>3. n1' = n1 /\ n2' = n2 + 1 /\ n3' = n3 + 1 /\ n4' = n4 + 1
  BY <1>0, <1>1, <1>2 DEF Busy
<1> HIDE DEF n1, n2, n3, n4
<1>4. /\ Cardinality(todo[c]) \in Nat
      /\ Cardinality(todo'[c]) = Cardinality(todo[c]) - 1
  <2>1. todo[c] \subseteq Nat /\ todo'[c] = todo[c] \ {Next1(todo[c])}
    BY <1>1, MaxIDAssumption DEF TypeInv, TypeOK, CallTypes, IDs
  <2>2. Next1(todo[c]) \in todo[c]
    BY <1>1, <2>1, Next1InSet
  <2>3. IsFiniteSet(todo[c])
    BY TodoCounted
  <2>4. QED
    BY <2>1, <2>2, <2>3, FS_RemoveElement, FS_CardinalityType
<1>5. PoolLeft(c)' = PoolLeft(c) - 1 /\ PoolLeft(c) \in Nat
  <2>1. /\ PoolLeft(c) = 4 * Cardinality(todo[c]) + n1 + n2 + n3 + n4
        /\ PoolLeft(c)' = 4 * Cardinality(todo'[c]) + n1' + n2' + n3' + n4'
    BY DEF PoolLeft, n1, n2, n3, n4
  <2>2. QED
    BY <1>2, <1>3, <1>4, <2>1
<1>6. PhasesLeft[pc[c]] * (PoolMost + 1) \in Nat
  BY PhaseRanks, PoolBounded
<1>7. /\ Left(c) = PhasesLeft[pc[c]] * (PoolMost + 1) + PoolLeft(c)
      /\ Left(c)' = PhasesLeft[pc[c]] * (PoolMost + 1) + PoolLeft(c)'
  BY <1>1 DEF Left, PhasesLeft, PoolMost
<1>8. QED
  BY <1>5, <1>6, <1>7

LEMMA NothingLeftChanged ==
    ASSUME TypeInv, NEW c \in Callers,
           UNCHANGED <<pc[c], todo[c], wpc[c]>>
    PROVE  Left(c)' = Left(c)
BY DEF Left, PhasesLeft, PoolMost, PoolLeft, WorkersAt

LEMMA LeftIsNat ==
    ASSUME TypeInv, NEW c \in Callers
    PROVE  Left(c) \in Nat
BY PhaseRanks, PoolBounded DEF Left


\* Every step of a job brings it nearer to its end, however the workers, the
\* feeder, failures and cancellation interleave, and no step of anybody else
\* takes it further away: between its CompareAndSwap and its Store a call
\* takes a bounded number of steps (update/core/service.go:38-122, 173-188).
THEOREM JobsAdvance == Spec => JobAdvances
<1>1. ASSUME TypeInv, TypeInv', NEW c \in Callers, CallerStep(c)
      PROVE  Left(c)' < Left(c)
  <2>1. pc[c] \in JobPcs /\ pc \in [Callers -> JobPcs \cup {"idle"}]
    BY <1>1
    DEF CallerStep, LastIDReply, IDsReplyUpToDate, IDsReplyMissing,
        MissingIDsFail, Close, Abort, WaitDone, DropOk, DropFail, NotifyOk,
        NotifyFail, NotifyReturn, Release, JobPcs, UpdatePcs, DropPcs,
        TypeInv, TypeOK, CallTypes
  <2>2. PhasesLeft[pc'[c]] < PhasesLeft[pc[c]]
    BY <1>1, <2>1
    DEF CallerStep, LastIDReply, IDsReplyUpToDate, IDsReplyMissing,
        MissingIDsFail, Close, Abort, WaitDone, DropOk, DropFail, NotifyOk,
        NotifyFail, NotifyReturn, Release, ReturnWith, PhasesLeft
  <2>3. QED
    BY <1>1, <2>2, PhaseFalls
<1>2. ASSUME TypeInv, NEW c \in Callers, NEW w \in Workers, WorkerStep(c, w)
      PROVE  Left(c)' < Left(c)
  <2>1. CASE Send(c, w)
    BY <1>2, <2>1, SendAdvances
  <2>2. \/ \E from, to :
            <<from, to>> \in Forward /\ WorkerGoes(c, w, from, to)
        \/ Send(c, w)
    BY <1>2
    DEF WorkerStep, GetOk, GetSkip, NormOk, CallFail, AddOk, AddFail,
        WorkerExit, Forward
  <2>3. QED
    BY <1>2, <2>1, <2>2, WorkerAdvances
<1>3. ASSUME TypeInv, TypeInv', JobInv, [Next]_vars, NEW c \in Callers,
             pc[c] # "idle", ~JobStep(c)
      PROVE  Left(c)' <= Left(c)
  <2>1. CASE UNCHANGED <<pc[c], todo[c], wpc[c]>>
    BY <1>3, <2>1, NothingLeftChanged, LeftIsNat
  <2>2. ASSUME NEW d \in Callers, UpdateStart(d) \/ DropStart(d)
        PROVE  FALSE
    BY <1>3, <2>2 DEF UpdateStart, DropStart, NewCall, JobInv, OneCaller
  <2>3. ASSUME NEW d \in Callers, Reject(d) \/ Cancel(d)
        PROVE  UNCHANGED <<pc[c], todo[c], wpc[c]>>
    BY <2>3 DEF Reject, Cancel, poolVars
  <2>4. ASSUME NEW d \in Callers, CallerStep(d)
        PROVE  UNCHANGED <<pc[c], todo[c], wpc[c]>>
    <3>1. d # c
      BY <1>3, <2>4, Zenon DEF JobStep
    <3>2. \E p : pc' = [pc EXCEPT ![d] = p]
      BY <2>4
      DEF CallerStep, LastIDReply, IDsReplyUpToDate, IDsReplyMissing,
          MissingIDsFail, Close, Abort, WaitDone, DropOk, DropFail, NotifyOk,
          NotifyFail, NotifyReturn, Release, ReturnWith
    <3>3. todo'[c] = todo[c] /\ wpc'[c] = wpc[c]
      BY <1>3, <2>4, <3>1
      DEF CallerStep, LastIDReply, IDsReplyUpToDate, IDsReplyMissing,
          MissingIDsFail, Close, Abort, WaitDone, DropOk, DropFail, NotifyOk,
          NotifyFail, NotifyReturn, Release, ReturnWith, poolVars, TypeInv,
          TypeOK, CallTypes, PoolTypes
    <3>4. QED
      BY <1>3, <3>1, <3>2, <3>3 DEF TypeInv, TypeOK, CallTypes
  <2>5. ASSUME NEW d \in Callers, NEW w \in Workers, WorkerStep(d, w)
        PROVE  UNCHANGED <<pc[c], todo[c], wpc[c]>>
    <3>1. d # c
      BY <1>3, <2>5, Zenon DEF JobStep
    <3>2. \A at, to : WorkerGoes(d, w, at, to) =>
            pc'[c] = pc[c] /\ wpc'[c] = wpc[c]
      BY <1>3, <3>1
      DEF WorkerGoes, callVars, TypeInv, TypeOK, PoolTypes
    <3>3. todo'[c] = todo[c]
      BY <1>3, <2>5, <3>1
      DEF WorkerStep, Send, GetOk, GetSkip, NormOk, CallFail, AddOk, AddFail,
          WorkerExit, TypeInv, TypeOK, PoolTypes, CallTypes, WorkerGoes,
          callVars
    <3>4. CASE Send(d, w)
      BY <1>3, <3>1, <3>3, <3>4 DEF Send, TypeInv, TypeOK, PoolTypes
    <3>5. CASE \E at, to : WorkerGoes(d, w, at, to)
      BY <3>2, <3>3, <3>5
    <3>6. QED
      BY <2>5, <3>4, <3>5
      DEF WorkerStep, GetOk, GetSkip, NormOk, CallFail, AddOk, AddFail,
          WorkerExit
  <2>6. ASSUME \/ LateTruncate \/ Publish \/ UNCHANGED vars
               \/ \E i \in IDs : LateInsert(i)
        PROVE  UNCHANGED <<pc[c], todo[c], wpc[c]>>
    BY <2>6
    DEF LateTruncate, Publish, LateInsert, callVars, poolVars, vars
  <2>7. CASE Crash
    <3>1. pc'[c] = "idle"
      BY <2>7 DEF Crash
    <3>2. PhasesLeft[pc'[c]] < PhasesLeft[pc[c]]
      BY <1>3, <3>1
      DEF PhasesLeft, TypeInv, TypeOK, CallTypes, JobPcs, UpdatePcs, DropPcs
    <3>3. Left(c)' < Left(c) /\ Left(c) \in Nat
      BY <1>3, <3>2, PhaseFalls, LeftIsNat
    <3>4. (Left(c) \in Nat)'
      BY <1>3, LeftIsNat, PTL
    <3>5. QED
      BY <3>3, <3>4
  <2>8. QED
    BY <1>3, <2>1, <2>2, <2>3, <2>4, <2>5, <2>6, <2>7
    DEF Next, CallStart
<1>4. ASSUME TypeInv, TypeInv', JobInv, [Next]_vars, NEW c \in Callers,
             pc[c] # "idle"
      PROVE  Left(c)' <= Left(c) /\ (JobStep(c) => Left(c)' < Left(c))
  <2>1. Left(c) \in Nat
    BY <1>4, LeftIsNat
  <2>2. (Left(c) \in Nat)'
    BY <1>4, LeftIsNat, PTL
  <2>3. JobStep(c) => Left(c)' < Left(c)
    BY <1>1, <1>2, <1>4 DEF JobStep
  <2>4. QED
    BY <1>3, <1>4, <2>1, <2>2, <2>3
<1>5. TypeInv /\ TypeInv' /\ JobInv /\ [Next]_vars =>
        [\A c \in Callers :
          pc[c] # "idle" =>
            /\ Left(c)' <= Left(c)
            /\ JobStep(c) => Left(c)' < Left(c)]_vars
  BY <1>4
<1>6. QED
  BY <1>5, TypeInvariant, JobInvariant, PTL DEF Spec, JobAdvances


\* As long as ids are fed, nobody has left the pool.
PoolIsFull ==
    \A c \in Callers, w \in Workers :
        pc[c] = "feed" => wpc[c][w] # "done"

LEMMA PoolStaysFull == Spec => []PoolIsFull
<1>1. Init => PoolIsFull
  BY DEF Init, PoolIsFull
<1>2. ASSUME TypeInv, PoolIsFull, [Next]_vars PROVE PoolIsFull'
  <2>1. CASE UNCHANGED <<pc, wpc>>
    BY <1>2, <2>1 DEF PoolIsFull
  <2>2. ASSUME NEW c \in Callers, UpdateStart(c) \/ DropStart(c)
        PROVE  PoolIsFull'
    BY <1>2, <2>2
    DEF UpdateStart, DropStart, NewCall, poolVars, PoolIsFull, TypeInv,
        TypeOK, CallTypes
  <2>3. ASSUME NEW c \in Callers, Reject(c) \/ Cancel(c)
        PROVE  PoolIsFull'
    BY <2>1, <2>3 DEF Reject, Cancel, poolVars
  <2>4. ASSUME NEW c \in Callers, IDsReplyMissing(c) PROVE PoolIsFull'
    BY <1>2, <2>4
    DEF IDsReplyMissing, PoolIsFull, TypeInv, TypeOK, CallTypes, PoolTypes
  <2>5. ASSUME NEW c \in Callers, CallerStep(c), ~IDsReplyMissing(c)
        PROVE  PoolIsFull'
    BY <1>2, <2>5
    DEF CallerStep, LastIDReply, IDsReplyUpToDate, MissingIDsFail, Close,
        Abort, WaitDone, DropOk, DropFail, NotifyOk, NotifyFail,
        NotifyReturn, Release, ReturnWith, poolVars, PoolIsFull, TypeInv,
        TypeOK, CallTypes
  <2>6. ASSUME NEW c \in Callers, NEW w \in Workers, WorkerStep(c, w)
        PROVE  PoolIsFull'
    BY <1>2, <2>6
    DEF WorkerStep, WorkerGoes, Send, GetOk, GetSkip, NormOk, CallFail,
        AddOk, AddFail, WorkerExit, callVars, PoolIsFull, TypeInv, TypeOK,
        PoolTypes
  <2>7. ASSUME \/ LateTruncate \/ Publish \/ UNCHANGED vars
               \/ \E i \in IDs : LateInsert(i)
        PROVE  PoolIsFull'
    BY <2>1, <2>7
    DEF LateTruncate, Publish, LateInsert, callVars, poolVars, vars
  <2>8. CASE Crash
    BY <2>8 DEF Crash, PoolIsFull
  <2>9. QED
    BY <1>2, <2>2, <2>3, <2>4, <2>5, <2>6, <2>7, <2>8 DEF Next, CallStart
<1>3. QED
  BY <1>1, <1>2, TypeInvariant, PTL DEF Spec

\* A feeder has workers to take what it sends as long as it sends, so with
\* JobsAdvance every job ends if its goroutines are scheduled and its calls
\* return (update/core/service.go:97-121).
THEOREM FeedersAreServed == Spec => []FeederIsServed
<1>1. TypeInv /\ PoolIsFull => FeederIsServed
  BY WorkersAssumption
  DEF TypeInv, TypeOK, PoolTypes, PoolIsFull, FeederIsServed
<1>2. QED
  BY <1>1, TypeInvariant, PoolStaysFull, PTL

\* Something of a job that runs is always able to go on: the call is at a
\* port, which answers or fails, or has nothing left to feed, or a worker is
\* at a port, or receives what the feeder still has or finds the channel
\* closed, or all have ended and Wait returns.
JobIsAlive ==
    \A c \in Callers : pc[c] # "idle" =>
        \/ pc[c] \in {"lastID", "ids", "drop", "notify", "dropNotify",
                      "release"}
        \/ pc[c] = "feed" /\ todo[c] = {}
        \/ \E w \in Workers : wpc[c][w] \in Busy
        \/ pc[c] \in {"feed", "wait"} /\ \E w \in Workers : wpc[c][w] = "recv"
        \/ pc[c] = "wait" /\ \A w \in Workers : wpc[c][w] = "done"

\* With JobsAdvance the safety half of JobEnds: at no point does the whole of
\* a job wait, feeder for workers, workers for feeder, or Wait for either
\* (update/core/service.go:93-122).
THEOREM JobsNeverStick == Spec => []JobIsAlive
<1>1. TypeInv /\ FeederIsServed => JobIsAlive
  BY DEF TypeInv, TypeOK, CallTypes, PoolTypes, JobPcs, UpdatePcs, DropPcs,
         FeederIsServed, JobIsAlive
<1>2. QED
  BY <1>1, TypeInvariant, FeedersAreServed, PTL

-----------------------------------------------------------------------------
(* The two services together: what IndexPipeline promises over Catalogue   *)
(* holds of the detailed service.                                          *)

\* The pipeline with what is proved of it.
Proved == INSTANCE SearchIndexProofs WITH
            db <- version, pc <- builder,
            job <- Phase, rows <- db, owed <- orphans

LEMMA SystemIsService == SystemSpec => Spec
<1>1. SystemInit => Init
  BY DEF SystemInit
<1>2. [SystemNext]_systemVars => [Next]_vars
  BY DEF SystemNext, Update, Search, systemVars
<1>3. QED
  BY <1>1, <1>2, PTL DEF SystemSpec, Spec

\* Only a notification makes the service less silent.
LEMMA QuietStays ==
    ASSUME TypeInv, Next, ~ \E c \in Callers : NotifyOk(c)
    PROVE  announced' = announced /\ (silent' = silent \/ silent' = TRUE)
<1>1. ASSUME NEW c \in Callers, CallStart(c)
      PROVE  UNCHANGED tellVars
  BY <1>1 DEF CallStart, UpdateStart, DropStart, NewCall, Reject, Cancel
<1>2. ASSUME NEW c \in Callers, CallerStep(c), ~NotifyOk(c)
      PROVE  announced' = announced /\ (silent' = silent \/ silent' = TRUE)
  BY <1>2
  DEF CallerStep, LastIDReply, IDsReplyUpToDate, IDsReplyMissing,
      MissingIDsFail, Close, Abort, WaitDone, DropOk, DropFail, NotifyFail,
      Release, tellVars
<1>3. ASSUME NEW c \in Callers, NEW w \in Workers, WorkerStep(c, w)
      PROVE  UNCHANGED tellVars
  BY <1>3
  DEF WorkerStep, Send, GetOk, GetSkip, NormOk, CallFail, AddOk, AddFail,
      WorkerExit, WorkerGoes
<1>4. ASSUME NEW i \in IDs, LateInsert(i)
      PROVE  announced' = announced /\ (silent' = silent \/ silent' = TRUE)
  BY <1>4 DEF LateInsert
<1>5. ASSUME LateTruncate
      PROVE  announced' = announced /\ silent' = TRUE
  BY <1>5 DEF LateTruncate
<1>6. ASSUME Publish PROVE UNCHANGED tellVars
  BY <1>6 DEF Publish
<1>7. ASSUME Crash
      PROVE  announced' = announced /\ (silent' = silent \/ silent' = TRUE)
  BY <1>7 DEF Crash, TypeInv, TypeOK, TableTypes
<1>8. QED
  BY <1>1, <1>2, <1>3, <1>4, <1>5, <1>6, <1>7 DEF Next, tellVars

\* A notification ends the one job there is.
LEMMA NotifyTells ==
    ASSUME TypeInv, JobInv, NEW c \in Callers, NotifyOk(c)
    PROVE  P!C!Tell
<1>1. \E p \in {"notify", "dropNotify"} :
        pc[c] = p /\ pc' = [pc EXCEPT ![c] = "release"]
  BY DEF NotifyOk, NotifyReturn, ReturnWith
<1>2. PICK p \in {"notify", "dropNotify"} :
        pc[c] = p /\ pc' = [pc EXCEPT ![c] = "release"]
  BY <1>1
<1>3. Phase = PhaseAt(p) /\ Phase' = PhaseAt("release")
  BY <1>2, PhaseMoves
<1>4. Phase # "none" /\ Phase' = "none"
  BY <1>3, PhaseValues DEF UpdatePcs, DropPcs
<1>5. QED
  BY <1>4 DEF NotifyOk, NotifyReturn, lateVars, P!C!Tell

\* What the service does quietly is work or a write of the pipeline.
LEMMA QuietIsPipeline ==
    ASSUME Abstract!Next \/ UNCHANGED (Abstract!vars), Quiet,
           announced' = announced, silent' = silent \/ silent' = TRUE
    PROVE  P!Work \/ P!Write \/ UNCHANGED (P!pipelineVars)
<1>1. CASE Abstract!Begin \/ Abstract!Owe \/ Abstract!Stop
  BY <1>1
  DEF Quiet, indexVars, P!vars, P!Work,
      Abstract!Begin, Abstract!Owe, Abstract!Stop,
      P!C!Begin, P!C!Owe, P!C!Stop
<1>2. CASE Abstract!Insert \/ Abstract!Clear \/ Abstract!LateStatement
  BY <1>2
  DEF Quiet, indexVars, P!vars, P!Write,
      Abstract!Insert, Abstract!Clear, Abstract!LateStatement,
      P!C!Insert, P!C!Clear, P!C!LateStatement
<1>3. CASE Abstract!Tell
  <2>1. {} \in SUBSET (0..MaxID) /\ orphans' = orphans \cup {}
    BY <1>3 DEF Abstract!Tell
  <2>2. P!C!Stop
    BY <1>3, <2>1 DEF Abstract!Tell, P!C!Stop
  <2>3. QED
    BY <1>3, <2>2 DEF Quiet, indexVars, P!vars, P!Work, Abstract!Tell
<1>4. CASE UNCHANGED (Abstract!vars)
  BY <1>4
  DEF Quiet, indexVars, Abstract!vars, P!vars, P!tableVars, P!pipelineVars
<1>5. QED
  BY <1>1, <1>2, <1>3, <1>4 DEF Abstract!Next

\* Every step of the two services is one of the pipeline over the catalogue
\* (service.go:38-66, 173-188).
THEOREM ServiceImplementsPipeline == SystemSpec => ImplementsPipeline
<1>1. SystemInit => P!PipelineInit
  BY DEF SystemInit, P!PipelineInit, Init, P!C!Init, Phase, UpdatePcs, DropPcs
<1>2. ASSUME TypeInv, JobInv, [Abstract!Next]_(Abstract!vars),
             [SystemNext]_systemVars
      PROVE  [P!PipelineNext]_(P!pipelineVars)
  <2>1. ASSUME Update, NEW c \in Callers, NotifyOk(c) PROVE P!Tell
    BY <1>2, <2>1, NotifyTells
    DEF Update, Announce, indexVars, P!vars, P!Tell
  <2>2. ASSUME Update, ~ \E c \in Callers : NotifyOk(c)
        PROVE  P!Work \/ P!Write \/ UNCHANGED (P!pipelineVars)
    BY <1>2, <2>2, QuietStays, QuietIsPipeline DEF Update
  <2>3. CASE Search
    BY <2>3 DEF Search, P!PipelineNext
  <2>4. CASE UNCHANGED systemVars
    BY <2>4, PhaseStays
    DEF systemVars, vars, indexVars, P!vars, P!tableVars, P!pipelineVars
  <2>5. QED
    BY <1>2, <2>1, <2>2, <2>3, <2>4 DEF SystemNext, P!PipelineNext
<1>3. Spec => [][Abstract!Next]_(Abstract!vars)
  BY ServiceImplementsCatalogue, PTL DEF ImplementsCatalogue, Abstract!Spec
<1>4. QED
  BY <1>1, <1>2, <1>3, SystemIsService, TypeInvariant, JobInvariant, PTL
  DEF SystemSpec, ImplementsPipeline, P!PipelineSpec

\* What is proved of the pipeline is proved of the instance of it here.
LEMMA SamePipeline == P!PipelineSpec => Proved!PipelineSpec
<1>1. P!PipelineInit => Proved!PipelineInit
  BY DEF P!PipelineInit, Proved!PipelineInit, P!Init, Proved!Init,
         P!C!Init, Proved!C!Init, P!Started, Proved!Started,
         P!Nothing, Proved!Nothing, P!Nobody, Proved!Nobody,
         P!Builders, Proved!Builders
<1>2. P!PipelineNext <=> Proved!PipelineNext
  BY DEF P!PipelineNext, Proved!PipelineNext,
         P!Work, Proved!Work, P!Write, Proved!Write, P!Tell, Proved!Tell,
         P!Drop, Proved!Drop, P!Serve, Proved!Serve, P!Die, Proved!Die,
         P!C!Begin, Proved!C!Begin, P!C!Owe, Proved!C!Owe,
         P!C!Stop, Proved!C!Stop, P!C!Insert, Proved!C!Insert,
         P!C!Clear, Proved!C!Clear, P!C!Tell, Proved!C!Tell,
         P!C!LateStatement, Proved!C!LateStatement,
         P!vars, Proved!vars, P!tableVars, Proved!tableVars,
         P!Change, Proved!Change, P!Publish, Proved!Publish,
         P!Lose, Proved!Lose, P!Subscribed, Proved!Subscribed,
         P!Connect, Proved!Connect, P!Deliver, Proved!Deliver,
         P!TakeTrigger, Proved!TakeTrigger, P!Tick, Proved!Tick,
         P!Build, Proved!Build, P!ListOk, Proved!ListOk,
         P!ListFail, Proved!ListFail, P!Swap, Proved!Swap,
         P!Restart, Proved!Restart, P!Versions, Proved!Versions,
         P!Builders, Proved!Builders, P!Other, Proved!Other,
         P!Later, Proved!Later, P!Started, Proved!Started,
         P!Nothing, Proved!Nothing, P!Nobody, Proved!Nobody
<1>3. P!pipelineVars = Proved!pipelineVars
  BY DEF P!pipelineVars, Proved!pipelineVars, P!vars, Proved!vars,
         P!tableVars, Proved!tableVars
<1>4. [P!PipelineNext]_(P!pipelineVars)
        => [Proved!PipelineNext]_(Proved!pipelineVars)
  BY <1>2, <1>3 DEF P!pipelineVars, Proved!pipelineVars, P!vars, Proved!vars,
                    P!tableVars, Proved!tableVars
<1>5. QED
  BY <1>1, <1>4, PTL DEF P!PipelineSpec, Proved!PipelineSpec

\* The last version of the table has the rows that are in it.
ContentsInv ==
    /\ version \in 0..MaxVersion
    /\ contents \in [0..MaxVersion -> SUBSET IDs]
    /\ contents[version] = db

LEMMA ContentsKept == SystemSpec => []ContentsInv
<1>1. SystemInit => ContentsInv
  BY BoundsAssumption DEF SystemInit, Init, P!Init, ContentsInv
<1>2. ASSUME TypeInv', ContentsInv, [SystemNext]_systemVars
      PROVE  ContentsInv'
  <2>1. db' \in SUBSET IDs
    BY <1>2 DEF TypeInv, TypeOK, TableTypes
  <2>2. CASE UNCHANGED <<db, version, contents>>
    BY <1>2, <2>2 DEF ContentsInv
  <2>3. ASSUME Update, NEW c \in Callers, NotifyOk(c)
        PROVE  UNCHANGED <<db, version, contents>>
    BY <2>3
    DEF Update, NotifyOk, NotifyReturn, Announce, indexVars, P!Publish
  <2>4. CASE Quiet /\ db' # db
    BY <1>2, <2>1, <2>4, BoundsAssumption DEF Quiet, P!Change, ContentsInv
  <2>5. CASE Search
    BY <2>2, <2>5
    DEF Search, vars, P!Drop, P!Lose, P!Serve, P!Connect, P!Deliver,
        P!TakeTrigger, P!Tick, P!Build, P!ListOk, P!ListFail, P!Swap,
        P!Die, P!Restart
  <2>6. QED
    BY <1>2, <2>2, <2>3, <2>4, <2>5
    DEF SystemNext, Update, Quiet, indexVars, systemVars, vars
<1>3. QED
  BY <1>1, <1>2, SystemIsService, TypeInvariant, PTL DEF SystemSpec

\* From the handlers of Update and Drop, through whatever the workers, late
\* statements, crashes and NATS do, to the index (service.go:48-64, 173-188,
\* update_subscriber.go:39-64).
THEOREM AnnouncementsAreIndexed == SystemSpec => []AnnouncedIsIndexed
<1>1. Proved!PipelineSpec => []Proved!AnnouncedIsIndexed
  BY Proved!AnnouncementsReachIndex, BoundsAssumption
<1>2. Proved!AnnouncedIsIndexed /\ ContentsInv => AnnouncedIsIndexed
  BY DEF Proved!AnnouncedIsIndexed, AnnouncedIsIndexed, ContentsInv,
         Proved!Caught, P!Caught
<1>3. QED
  BY <1>1, <1>2, SamePipeline, ServiceImplementsPipeline, ContentsKept, PTL
  DEF ImplementsPipeline

=============================================================================
