-------------------------- MODULE SearchGateProofs -------------------------
(***************************************************************************)
(* The semaphore, the reservations and the rate of SearchGate, and what    *)
(* the search page of SearchPage shows, for every set of connections,      *)
(* limit and rate.                                                         *)
(***************************************************************************)
EXTENDS SearchPage, FiniteSetTheorems, TLAPS

\* An element of the channel for each search in its handler.
SlotInv == sema = Cardinality(Searching)

\* Index searches wait, and the tokens that they wait for lie
\* an interval apart and before the next.
GapInv ==
    /\ \A r \in Waiting : route[r] = "isearch" /\ slot[r] + Interval <= due
    /\ \A r, q \in Waiting :
        r # q => \/ slot[r] + Interval <= slot[q]
                 \/ slot[q] + Interval <= slot[r]

Types ==
    /\ phase \in {"serving", "draining", "stopped"}
    /\ pc \in [Requests -> {"off", "accepted", "wait", "inside"}]
    /\ route \in [Requests -> Routes]
    /\ gone \in [Requests -> BOOLEAN]
    /\ status \in [Requests -> Statuses]
    /\ sema \in 0..Limit
    /\ clock \in 0..MaxClock
    /\ due \in Nat
    /\ slot \in [Requests -> Nat]
    /\ passed \in Nat

Inv == Types /\ SlotInv /\ GapInv

\* A search enters its handler or leaves it: the set of searches and its size.
LEMMA CountOfSearches ==
    ASSUME NEW r \in Requests
    PROVE  /\ Cardinality(Searching) \in Nat
           /\ r \notin Searching =>
                Cardinality(Searching \cup {r}) = Cardinality(Searching) + 1
           /\ r \in Searching =>
                Cardinality(Searching \ {r}) = Cardinality(Searching) - 1
<1>1. IsFiniteSet(Searching)
  BY RequestsAssumption, FS_Subset DEF Searching
<1>2. QED
  BY <1>1, FS_CardinalityType, FS_AddElement, FS_RemoveElement

LEMMA InitInv == Init => Inv
<1> SUFFICES ASSUME Init PROVE Inv
  OBVIOUS
<1>1. Types
  BY LimitAssumption, IntervalAssumption DEF Init, Types, Routes, Statuses
<1>2. Searching = {} /\ Waiting = {}
  BY DEF Init, Searching, Waiting
<1>3. SlotInv
  BY <1>2, FS_EmptySet DEF Init, SlotInv
<1>4. GapInv
  BY <1>2 DEF GapInv
<1>5. QED
  BY <1>1, <1>3, <1>4 DEF Inv

\* A step that changes neither who searches nor who waits for what.
LEMMA Bystander ==
    ASSUME Inv, Types', Searching' = Searching, Waiting' = Waiting,
           sema' = sema, slot' = slot, due' = due,
           \A r \in Waiting : route'[r] = route[r]
    PROVE  Inv'
BY DEF Inv, SlotInv, GapInv

\* The connections and the end of the server (main.go:79-120).
LEMMA ServerKeepsInv ==
    ASSUME Inv,
           \/ \E r \in Requests :
                (\E rt \in Routes : Accept(r, rt)) \/ Disconnect(r) \/ Busy(r)
                \/ Refuse(r)
           \/ Tick \/ Signal \/ Drained \/ UNCHANGED vars
    PROVE  Inv'
<1>1. Types
  BY DEF Inv
<1>2. Types'
  <2>1. ASSUME NEW r \in Requests, NEW rt \in Routes, Accept(r, rt)
        PROVE  Types'
    BY <1>1, <2>1 DEF Types, Accept, limiterVars, Statuses
  <2>2. ASSUME NEW r \in Requests, Disconnect(r) PROVE Types'
    BY <1>1, <2>2 DEF Types, Disconnect, limiterVars
  <2>3. ASSUME NEW r \in Requests, Busy(r) \/ Refuse(r) PROVE Types'
    BY <1>1, <2>3 DEF Types, Busy, Refuse, ReplyWith, limiterVars, Statuses
  <2>4. CASE Tick \/ Signal \/ Drained \/ UNCHANGED vars
    BY <1>1, <2>4, IntervalAssumption
    DEF Types, Tick, Signal, Drained, vars, limiterVars
  <2>5. QED
    BY <2>1, <2>2, <2>3, <2>4
<1>3. Searching' = Searching /\ Waiting' = Waiting
  BY <1>1
  DEF Types, Accept, Disconnect, Busy, Refuse, ReplyWith, Arrives, Tick,
      Signal, Drained, vars, limiterVars, Searching, Waiting
<1>4. sema' = sema /\ slot' = slot /\ due' = due
  BY DEF Accept, Disconnect, Busy, Refuse, Tick, Signal, Drained, vars,
         limiterVars
<1>5. ASSUME NEW q \in Waiting PROVE route'[q] = route[q]
  BY <1>1
  DEF Types, Accept, Disconnect, Busy, Refuse, Tick, Signal, Drained, vars,
      limiterVars, Waiting
<1>6. QED
  BY <1>2, <1>3, <1>4, <1>5, Bystander

\* Concurrency (concurrency.go:10-16).
LEMMA EnterKeepsInv ==
    ASSUME Inv, NEW r \in Requests, Enter(r) PROVE Inv'
<1>1. Types /\ SlotInv /\ GapInv
  BY DEF Inv
<1>2. Types'
  BY <1>1, LimitAssumption DEF Types, Enter, limiterVars
<1>3. Searching' = Searching \cup {r} /\ r \notin Searching
        /\ Waiting' = Waiting
  BY <1>1 DEF Types, Enter, Arrives, Searching, Waiting
<1>4. SlotInv'
  BY <1>1, <1>3, CountOfSearches DEF SlotInv, Enter
<1>5. GapInv'
  BY <1>1, <1>3 DEF GapInv, Enter, limiterVars
<1>6. QED
  BY <1>2, <1>4, <1>5 DEF Inv

\* The deferred receive (concurrency.go:12).
LEMMA AnswerKeepsInv ==
    ASSUME Inv, NEW r \in Requests, NEW s \in Answers, Answer(r, s)
    PROVE  Inv'
<1>1. Types /\ SlotInv /\ GapInv
  BY DEF Inv
<1>2. Waiting' = Waiting
  BY <1>1 DEF Types, Answer, ReplyWith, Waiting
<1>3. GapInv'
  BY <1>1, <1>2 DEF GapInv, Answer, limiterVars
<1>4. SlotInv'
  <2>1. CASE route[r] = "search"
    <3>1. r \in Searching /\ Searching' = Searching \ {r}
      BY <1>1, <2>1 DEF Types, Answer, ReplyWith, Searching
    <3>2. QED
      BY <1>1, <2>1, <3>1, CountOfSearches DEF SlotInv, Answer, Release
  <2>2. CASE route[r] # "search"
    <3>1. Searching' = Searching
      BY <1>1, <2>2 DEF Types, Answer, ReplyWith, Searching
    <3>2. QED
      BY <1>1, <2>2, <3>1 DEF SlotInv, Answer, Release
  <2>3. QED
    BY <2>1, <2>2
<1>5. sema' \in 0..Limit
  <2>1. Cardinality(Searching)' \in Nat
    BY CountOfSearches, RequestsAssumption, FS_Subset, FS_CardinalityType
    DEF Searching
  <2>2. QED
    BY <1>1, <1>4, <2>1, LimitAssumption DEF Types, SlotInv, Answer, Release
<1>6. Types'
  BY <1>1, <1>5 DEF Types, Answer, Answers, ReplyWith, limiterVars, Statuses
<1>7. QED
  BY <1>3, <1>4, <1>6 DEF Inv

\* Rate (rate.go:10-19).
LEMMA LimiterKeepsInv ==
    ASSUME Inv, NEW r \in Requests,
           Pass(r) \/ Reserve(r) \/ TurnComes(r) \/ Leave(r)
    PROVE  Inv'
<1>1. Types /\ SlotInv /\ GapInv
  BY DEF Inv
<1>2. Types'
  BY <1>1, IntervalAssumption
  DEF Types, Pass, Reserve, TurnComes, Leave, ReplyWith, Statuses
<1>3. SlotInv'
  <2>1. Searching' = Searching
    <3>1. pc[r] = "wait" => route[r] = "isearch"
      BY <1>1 DEF GapInv, Waiting
    <3>2. route' = route
      BY DEF Pass, Reserve, TurnComes, Leave
    <3>3. QED
      BY <1>1, <3>1, <3>2
      DEF Types, Pass, Reserve, TurnComes, Leave, Arrives, ReplyWith, Searching
  <2>2. QED
    BY <1>1, <2>1 DEF SlotInv, Pass, Reserve, TurnComes, Leave
<1>4. CASE Pass(r)
  <2>1. Waiting' = Waiting
    BY <1>1, <1>4 DEF Types, Pass, Arrives, Waiting
  <2>2. due' \in Nat /\ due \in Nat /\ due <= due'
    BY <1>1, <1>4, IntervalAssumption DEF Types, Pass
  <2>3. \A q \in Waiting : slot[q] \in Nat /\ slot[q] + Interval <= due
    BY <1>1 DEF Types, GapInv, Waiting
  <2>4. \A q \in Waiting : slot[q] + Interval <= due'
    BY <2>2, <2>3, IntervalAssumption
  <2>5. slot' = slot /\ route' = route
    BY <1>4 DEF Pass
  <2>6. GapInv'
    BY <1>1, <2>1, <2>4, <2>5 DEF GapInv
  <2>7. QED
    BY <1>2, <1>3, <2>6 DEF Inv
<1>5. CASE Reserve(r)
  <2>1. Waiting' = Waiting \cup {r} /\ r \notin Waiting
    BY <1>1, <1>5 DEF Types, Reserve, Arrives, Waiting
  <2>2. due' = due + Interval /\ due \in Nat /\ slot'[r] = due /\ route' = route
          /\ route[r] = "isearch"
    BY <1>1, <1>5 DEF Types, Reserve, Arrives
  <2>3. \A q \in Waiting : slot'[q] = slot[q]
    BY <1>1, <1>5, <2>1 DEF Types, Reserve, Waiting
  <2>4. \A q \in Waiting :
            slot[q] \in Nat /\ slot[q] + Interval <= due /\ route[q] = "isearch"
    BY <1>1 DEF Types, GapInv, Waiting
  <2>5. \A q \in Waiting : slot[q] + Interval <= due'
    BY <2>2, <2>4, IntervalAssumption
  <2>6. GapInv'
    BY <1>1, <2>1, <2>2, <2>3, <2>4, <2>5, IntervalAssumption DEF GapInv
  <2>7. QED
    BY <1>2, <1>3, <2>6 DEF Inv
<1>6. CASE TurnComes(r)
  <2>1. Waiting' = Waiting \ {r}
    BY <1>1, <1>6 DEF Types, TurnComes, Waiting
  <2>2. QED
    BY <1>1, <1>2, <1>3, <1>6, <2>1, IntervalAssumption
    DEF Inv, Types, TurnComes, GapInv, Waiting
<1>7. CASE Leave(r)
  <2>1. Waiting' = Waiting \ {r} /\ r \in Waiting
    BY <1>1, <1>7 DEF Types, Leave, ReplyWith, Waiting
  <2>2. \A q \in Waiting' : q \in Waiting /\ q # r /\ slot'[q] = slot[q]
                              /\ route'[q] = route[q]
    BY <1>1, <1>7, <2>1 DEF Types, Leave, Waiting
  <2>3. due' = due \/ (due' = slot[r] /\ slot[r] + Interval = due)
    BY <1>7 DEF Leave
  <2>4. \A q \in Waiting : slot[q] \in Nat
    BY <1>1 DEF Types, Waiting
  <2>5. ASSUME NEW q \in Waiting' PROVE slot[q] + Interval <= due'
    <3>1. slot[q] + Interval <= due
      BY <1>1, <2>2 DEF GapInv
    <3>2. \/ slot[r] + Interval <= slot[q]
          \/ slot[q] + Interval <= slot[r]
      BY <1>1, <2>1, <2>2 DEF GapInv
    <3>3. due \in Nat /\ slot[q] \in Nat /\ slot[r] \in Nat
      BY <1>1, <2>1, <2>2, <2>4 DEF Types
    <3>4. QED
      BY <2>3, <3>1, <3>2, <3>3, IntervalAssumption
  <2>6. GapInv'
    BY <1>1, <2>2, <2>5 DEF GapInv
  <2>7. QED
    BY <1>2, <1>3, <2>6 DEF Inv
<1>8. QED
  BY <1>4, <1>5, <1>6, <1>7

\* The process ends and takes the handlers with it (main.go:101-120).
LEMMA TimeoutKeepsInv ==
    ASSUME Inv, DrainTimeout PROVE Inv'
<1>1. Types
  BY DEF Inv
<1>2. Types'
  BY <1>1, LimitAssumption DEF Types, DrainTimeout, Statuses
<1>3. Searching' = {} /\ Waiting' = {}
  BY DEF DrainTimeout, Searching, Waiting
<1>4. SlotInv'
  BY <1>3, FS_EmptySet DEF SlotInv, DrainTimeout
<1>5. GapInv'
  BY <1>3 DEF GapInv
<1>6. QED
  BY <1>2, <1>4, <1>5 DEF Inv

\* The invariant of the gateway.
THEOREM InvHolds == Spec => []Inv
<1>1. Inv /\ [Next]_vars => Inv'
  <2> SUFFICES ASSUME Inv, [Next]_vars PROVE Inv'
    OBVIOUS
  <2>1. QED
    BY ServerKeepsInv, EnterKeepsInv, AnswerKeepsInv, LimiterKeepsInv,
       TimeoutKeepsInv DEF Next, Begin, Handle
<1>2. QED
  BY <1>1, InitInv, PTL DEF Spec

\* Types; the channel is never over its room and no two requests hold the
\* same token of the limiter (concurrency.go:10-16, rate.go:13).
THEOREM TypeCorrect == Spec => []TypeOK
<1>1. Inv => TypeOK
  BY IntervalAssumption DEF Inv, Types, GapInv, TypeOK, Waiting
<1>2. QED
  BY <1>1, InvHolds, PTL

\* A search is refused for want of a slot only while as many searches as
\* there are slots are in their handlers (concurrency.go:10-16).
BusyIsTrue ==
    [][\A r \in Requests : Busy(r) => Cardinality(Searching) = Limit]_vars

\* A search is refused only while Limit others run (concurrency.go:10-16).
THEOREM RefusalIsTrue == Spec => BusyIsTrue
<1>1. ASSUME Inv, NEW r \in Requests, Busy(r)
      PROVE  Cardinality(Searching) = Limit
  BY <1>1, LimitAssumption DEF Inv, Types, SlotInv, Busy
<1>2. Inv => \A r \in Requests : Busy(r) => Cardinality(Searching) = Limit
  BY <1>1
<1>3. Inv /\ [Next]_vars =>
        [\A r \in Requests : Busy(r) => Cardinality(Searching) = Limit]_vars
  BY <1>2
<1>4. QED
  BY <1>3, InvHolds, PTL DEF Spec, BusyIsTrue

\* The steps the handler of r still takes after the signal, at most.
ToGo(r) ==
    CASE pc[r] \in {"accepted", "wait"} -> 2
      [] pc[r] = "inside" -> 1
      [] OTHER -> 0

\* After the signal no request comes, each step of a handler brings it nearer
\* to its end, and nothing else moves it but the end of the process.
EndsAfterSignal ==
    [][phase = "draining" =>
        \A r \in Requests :
            \/ ToGo(r)' = ToGo(r) /\ ~Handle(r)
            \/ ToGo(r)' < ToGo(r) /\ (Handle(r) \/ phase' = "stopped")]_vars

\* A handler takes two steps at most once the signal has come: the safety half
\* of Drains (api/main.go:86-110).
THEOREM HandlersEnd == Spec => EndsAfterSignal
<1> DEFINE Ends ==
            phase = "draining" =>
              \A r \in Requests :
                \/ ToGo(r)' = ToGo(r) /\ ~Handle(r)
                \/ ToGo(r)' < ToGo(r) /\ (Handle(r) \/ phase' = "stopped")
<1>1. ASSUME Inv, Next, phase = "draining", NEW r \in Requests
      PROVE  \/ ToGo(r)' = ToGo(r) /\ ~Handle(r)
             \/ ToGo(r)' < ToGo(r) /\ (Handle(r) \/ phase' = "stopped")
  <2>1. Done(r)
    BY <1>1 DEF Done
  <2>2. pc \in [Requests -> {"off", "accepted", "wait", "inside"}]
    BY <1>1 DEF Inv, Types
  <2>3. Handle(r) => ToGo(r)' < ToGo(r)
    BY <2>1, <2>2
    DEF Handle, Begin, Enter, Busy, Pass, Reserve, Refuse, TurnComes, Leave,
        Answer, ReplyWith, Arrives, ToGo
  <2>4. ~Handle(r) => pc'[r] = pc[r] \/ DrainTimeout
    BY <1>1, <2>2
    DEF Next, Handle, Begin, Enter, Busy, Pass, Reserve, Refuse, TurnComes,
        Leave, Answer, ReplyWith, Arrives, Accept, Disconnect, Tick, Signal,
        Drained
  <2>5. pc'[r] = pc[r] => ToGo(r)' = ToGo(r)
    BY DEF ToGo
  <2>6. DrainTimeout =>
            \/ pc'[r] = pc[r]
            \/ ToGo(r)' < ToGo(r) /\ phase' = "stopped"
    BY <2>2 DEF DrainTimeout, ToGo
  <2>7. QED
    BY <2>3, <2>4, <2>5, <2>6
<1>2. ASSUME Inv, [Next]_vars PROVE [Ends]_vars
  BY <1>1, <1>2
<1>3. [][Ends]_vars <=> EndsAfterSignal
  BY PTL DEF EndsAfterSignal
<1>4. QED
  BY <1>2, <1>3, InvHolds, PTL DEF Spec

-----------------------------------------------------------------------------
(* The rate *)

\* The waiting requests that the limiter lets in by time t.
DueBy(t) == {q \in Waiting : slot[q] <= t}

\* Every index search let in, and every one that waits, has a token of its
\* own; and those let in by a time yet to come keep to the rate.
RateInv ==
    /\ (passed + Cardinality(Waiting)) * Interval <= due
    /\ \A t \in Nat : t >= clock =>
        (passed + Cardinality(DueBy(t))) * Interval <= t + Interval

\* One token more is one interval more.
LEMMA OneMore ==
    \A n \in Nat : n * Interval \in Nat
                    /\ (n + 1) * Interval = n * Interval + Interval
BY IntervalAssumption

\* More tokens take more time.
LEMMA NoFewer ==
    ASSUME NEW n \in Nat, NEW k \in Nat, n <= k
    PROVE  n * Interval <= k * Interval
<1>1. PICK d \in Nat : k = n + d
  BY k - n \in Nat
<1>2. k * Interval = n * Interval + d * Interval
  BY <1>1, IntervalAssumption
<1>3. n * Interval \in Nat /\ d * Interval \in Nat /\ k * Interval \in Nat
  BY OneMore
<1>4. QED
  BY <1>2, <1>3

\* A request joins a set of requests or leaves it.
LEMMA CountOf ==
    ASSUME NEW S \in SUBSET Requests
    PROVE  /\ Cardinality(S) \in Nat
           /\ \A r \in Requests \ S :
                Cardinality(S \cup {r}) = Cardinality(S) + 1
           /\ \A r \in S : Cardinality(S \ {r}) + 1 = Cardinality(S)
           /\ \A T \in SUBSET S : Cardinality(T) <= Cardinality(S)
<1>1. IsFiniteSet(S)
  BY RequestsAssumption, FS_Subset
<1>2. Cardinality(S) \in Nat
  BY <1>1, FS_CardinalityType
<1>3. \A r \in Requests \ S : Cardinality(S \cup {r}) = Cardinality(S) + 1
  BY <1>1, FS_AddElement
<1>4. \A r \in S : Cardinality(S \ {r}) + 1 = Cardinality(S)
  <2>1. \A r \in S : Cardinality(S \ {r}) = Cardinality(S) - 1
    BY <1>1, FS_RemoveElement
  <2>2. QED
    BY <1>2, <2>1
<1>5. \A T \in SUBSET S : Cardinality(T) <= Cardinality(S)
  BY <1>1, FS_Subset
<1>6. QED
  BY <1>2, <1>3, <1>4, <1>5

\* No token is spent or promised before the first request comes.
LEMMA InitRate == Init => RateInv
<1> SUFFICES ASSUME Init PROVE RateInv
  OBVIOUS
<1>1. Waiting = {} /\ passed = 0 /\ due = 0 /\ clock = 0
  BY DEF Init, Waiting
<1>2. Cardinality({}) = 0
  BY FS_EmptySet
<1>3. \A t \in Nat : DueBy(t) = {}
  BY <1>1 DEF DueBy
<1>4. (0 + 0) * Interval = 0
  BY IntervalAssumption
<1>5. \A t \in Nat : 0 <= t + Interval
  BY IntervalAssumption
<1>6. QED
  BY <1>1, <1>2, <1>3, <1>4, <1>5 DEF RateInv

\* Steps by which nobody gets a token: requests that wait may be taken away,
\* time may go on.
LEMMA FewerTokens ==
    ASSUME Inv, Types', RateInv, passed' = passed, due' = due,
           clock' >= clock, Waiting' \subseteq Waiting,
           \A q \in Waiting' : slot'[q] = slot[q]
    PROVE  RateInv'
<1>1. Waiting \in SUBSET Requests /\ passed \in Nat /\ due \in Nat
        /\ clock \in Nat /\ clock' \in Nat
  BY IntervalAssumption DEF Waiting, Inv, Types
<1>2. ASSUME NEW S \in SUBSET Requests, NEW T \in SUBSET S
      PROVE  (passed + Cardinality(T)) * Interval
                <= (passed + Cardinality(S)) * Interval
  <2>1. Cardinality(S) \in Nat /\ Cardinality(T) \in Nat
            /\ Cardinality(T) <= Cardinality(S)
    BY CountOf
  <2>2. QED
    BY <1>1, <2>1, NoFewer
<1>3. \A S \in SUBSET Requests : (passed + Cardinality(S)) * Interval \in Nat
  BY <1>1, CountOf, OneMore
<1>4. (passed + Cardinality(Waiting')) * Interval <= due
  <2>1. (passed + Cardinality(Waiting')) * Interval
            <= (passed + Cardinality(Waiting)) * Interval
    BY <1>1, <1>2
  <2>2. Waiting' \in SUBSET Requests
    BY <1>1
  <2>3. QED
    BY <1>1, <1>3, <2>1, <2>2 DEF RateInv
<1>5. ASSUME NEW t \in Nat, t >= clock'
      PROVE  (passed + Cardinality(DueBy(t)')) * Interval <= t + Interval
  <2>1. DueBy(t)' \in SUBSET DueBy(t) /\ DueBy(t) \in SUBSET Requests
    BY DEF DueBy, Waiting
  <2>2. (passed + Cardinality(DueBy(t)')) * Interval
            <= (passed + Cardinality(DueBy(t))) * Interval
    BY <1>2, <2>1
  <2>3. t >= clock
    BY <1>1, <1>5
  <2>4. DueBy(t)' \in SUBSET Requests
    BY <2>1
  <2>5. QED
    BY <1>3, <2>1, <2>2, <2>3, <2>4, IntervalAssumption DEF RateInv
<1>6. QED
  BY <1>4, <1>5 DEF RateInv

\* A free token at once (rate.go:13).
LEMMA PassKeepsRate ==
    ASSUME Inv, Inv', RateInv, NEW r \in Requests, Pass(r)
    PROVE  RateInv'
<1>1. passed \in Nat /\ due \in Nat /\ clock \in Nat /\ due <= clock
  BY IntervalAssumption DEF Inv, Types, Pass
<1>2. passed' = passed + 1 /\ due' = clock + Interval /\ clock' = clock
        /\ slot' = slot /\ Waiting' = Waiting
  BY DEF Inv, Types, Pass, Arrives, Waiting
<1>3. \A S \in SUBSET Requests :
        /\ (passed + Cardinality(S)) * Interval \in Nat
        /\ (passed' + Cardinality(S)) * Interval
                = (passed + Cardinality(S)) * Interval + Interval
  <2>1. TAKE S \in SUBSET Requests
  <2>2. Cardinality(S) \in Nat
    BY CountOf
  <2>3. passed' + Cardinality(S) = (passed + Cardinality(S)) + 1
    BY <1>1, <1>2, <2>2
  <2>4. passed + Cardinality(S) \in Nat
    BY <1>1, <2>2
  <2>5. QED
    BY <2>3, <2>4, OneMore
<1>4. Waiting \in SUBSET Requests
  BY DEF Waiting
<1>5. (passed + Cardinality(Waiting)) * Interval <= due
  BY DEF RateInv
<1>6. (passed' + Cardinality(Waiting)) * Interval <= clock + Interval
  BY <1>1, <1>3, <1>4, <1>5, IntervalAssumption
<1>7. ASSUME NEW t \in Nat, t >= clock
      PROVE  (passed' + Cardinality(DueBy(t)')) * Interval <= t + Interval
  <2>1. DueBy(t)' = Waiting
    BY <1>1, <1>2, <1>7, IntervalAssumption
    DEF DueBy, Inv, Types, GapInv, Waiting
  <2>2. QED
    BY <1>1, <1>3, <1>4, <1>6, <1>7, <2>1, IntervalAssumption
<1>8. QED
  BY <1>2, <1>6, <1>7 DEF RateInv

\* A token still to come (rate.go:13).
LEMMA ReserveKeepsRate ==
    ASSUME Inv, Inv', RateInv, NEW r \in Requests, Reserve(r)
    PROVE  RateInv'
<1>1. passed \in Nat /\ due \in Nat /\ clock \in Nat
  BY IntervalAssumption DEF Inv, Types
<1>2. passed' = passed /\ due' = due + Interval /\ clock' = clock
        /\ slot'[r] = due /\ (\A q \in Waiting : slot'[q] = slot[q])
        /\ Waiting' = Waiting \cup {r} /\ r \in Requests \ Waiting
  BY DEF Inv, Types, Reserve, Arrives, Waiting
<1>3. ASSUME NEW S \in SUBSET Requests, r \notin S
      PROVE  /\ (passed + Cardinality(S)) * Interval \in Nat
             /\ (passed + Cardinality(S \cup {r})) * Interval
                    = (passed + Cardinality(S)) * Interval + Interval
  <2>1. Cardinality(S) \in Nat /\ Cardinality(S \cup {r}) = Cardinality(S) + 1
    BY <1>3, CountOf
  <2>2. passed + Cardinality(S \cup {r}) = (passed + Cardinality(S)) + 1
    BY <1>1, <2>1
  <2>3. passed + Cardinality(S) \in Nat
    BY <1>1, <2>1
  <2>4. QED
    BY <2>2, <2>3, OneMore
<1>4. Waiting \in SUBSET Requests
  BY DEF Waiting
<1>5. (passed + Cardinality(Waiting)) * Interval <= due
  BY DEF RateInv
<1>6. (passed + Cardinality(Waiting \cup {r})) * Interval <= due + Interval
  BY <1>1, <1>2, <1>3, <1>4, <1>5, IntervalAssumption
<1>7. ASSUME NEW t \in Nat, t >= clock
      PROVE  (passed + Cardinality(DueBy(t)')) * Interval <= t + Interval
  <2>1. CASE due <= t
    <3>1. DueBy(t)' = Waiting \cup {r}
      BY <1>1, <1>2, <2>1, IntervalAssumption
      DEF DueBy, Inv, Types, GapInv, Waiting
    <3>2. (passed + Cardinality(Waiting \cup {r})) * Interval \in Nat
      BY <1>2, <1>3, <1>4, IntervalAssumption
    <3>3. QED
      BY <1>1, <1>6, <2>1, <3>1, <3>2, IntervalAssumption
  <2>2. CASE ~(due <= t)
    <3>1. DueBy(t)' = DueBy(t)
      BY <1>2, <2>2 DEF DueBy
    <3>2. QED
      BY <1>7, <3>1 DEF RateInv
  <2>3. QED
    BY <2>1, <2>2
<1>8. QED
  BY <1>2, <1>6, <1>7 DEF RateInv

\* The wait is over: the token that was promised is spent (rate.go:13-18).
LEMMA TurnKeepsRate ==
    ASSUME Inv, Inv', RateInv, NEW r \in Requests, TurnComes(r)
    PROVE  RateInv'
<1>1. passed \in Nat /\ clock \in Nat
  BY IntervalAssumption DEF Inv, Types
<1>2. passed' = passed + 1 /\ due' = due /\ clock' = clock
        /\ slot[r] <= clock /\ (\A q \in Waiting \ {r} : slot'[q] = slot[q])
        /\ Waiting' = Waiting \ {r} /\ r \in Waiting
  BY DEF Inv, Types, TurnComes, Waiting
<1>3. ASSUME NEW S \in SUBSET Requests, r \in S
      PROVE  passed' + Cardinality(S \ {r}) = passed + Cardinality(S)
  BY <1>1, <1>2, <1>3, CountOf
<1>4. Waiting \in SUBSET Requests
  BY DEF Waiting
<1>5. (passed' + Cardinality(Waiting')) * Interval <= due'
  BY <1>2, <1>3, <1>4 DEF RateInv
<1>6. ASSUME NEW t \in Nat, t >= clock
      PROVE  (passed' + Cardinality(DueBy(t)')) * Interval <= t + Interval
  <2>1. r \in DueBy(t) /\ slot[r] <= t
    BY <1>1, <1>2, <1>6 DEF DueBy, Inv, Types, Waiting
  <2>2. DueBy(t)' = DueBy(t) \ {r}
    BY <1>2 DEF DueBy
  <2>3. DueBy(t) \in SUBSET Requests
    BY DEF DueBy, Waiting
  <2>4. QED
    BY <1>3, <1>6, <2>1, <2>2, <2>3 DEF RateInv
<1>7. QED
  BY <1>2, <1>5, <1>6 DEF RateInv

\* The context is done: a token that was the last one goes back
\* (rate.go:13-18).
LEMMA LeaveKeepsRate ==
    ASSUME Inv, Inv', RateInv, NEW r \in Requests, Leave(r)
    PROVE  RateInv'
<1>1. passed \in Nat /\ clock \in Nat /\ due \in Nat
  BY IntervalAssumption DEF Inv, Types
<1>2. passed' = passed /\ clock' = clock
        /\ (\A q \in Waiting' : slot'[q] = slot[q])
        /\ Waiting' = Waiting \ {r} /\ r \in Waiting
  BY DEF Inv, Types, Leave, ReplyWith, Waiting
<1>3. Types'
  BY DEF Inv
<1>4. CASE due' = due
  <2>1. clock' >= clock /\ Waiting' \subseteq Waiting
    BY <1>1, <1>2
  <2>2. QED
    BY <1>2, <1>3, <1>4, <2>1, FewerTokens
<1>5. CASE due' # due
  <2>1. slot[r] + Interval = due /\ due' = slot[r]
    BY <1>5 DEF Leave
  <2>2. Waiting \in SUBSET Requests /\ slot[r] \in Nat
    BY DEF Waiting, Inv, Types
  <2>3. Cardinality(Waiting) = Cardinality(Waiting \ {r}) + 1
            /\ Cardinality(Waiting \ {r}) \in Nat
    <3>1. Waiting \ {r} \in SUBSET Requests
      BY <2>2
    <3>2. QED
      BY <1>2, <2>2, <3>1, CountOf
  <2>4. (passed + Cardinality(Waiting)) * Interval
            = (passed + Cardinality(Waiting \ {r})) * Interval + Interval
    <3>1. passed + Cardinality(Waiting)
            = (passed + Cardinality(Waiting \ {r})) + 1
      BY <1>1, <2>3
    <3>2. QED
      BY <1>1, <2>3, <3>1, OneMore
  <2>5. (passed + Cardinality(Waiting \ {r})) * Interval \in Nat
    BY <1>1, <2>3, OneMore
  <2>6. (passed' + Cardinality(Waiting')) * Interval <= due'
    BY <1>1, <1>2, <2>1, <2>2, <2>4, <2>5, IntervalAssumption DEF RateInv
  <2>7. ASSUME NEW t \in Nat, t >= clock
        PROVE  (passed + Cardinality(DueBy(t)')) * Interval <= t + Interval
    <3>1. DueBy(t)' \in SUBSET DueBy(t) /\ DueBy(t) \in SUBSET Requests
      BY <1>2 DEF DueBy, Waiting
    <3>2. Cardinality(DueBy(t)') \in Nat /\ Cardinality(DueBy(t)) \in Nat
            /\ Cardinality(DueBy(t)') <= Cardinality(DueBy(t))
      <4>1. DueBy(t)' \in SUBSET Requests
        BY <3>1
      <4>2. QED
        BY <3>1, <4>1, CountOf
    <3>3. (passed + Cardinality(DueBy(t)')) * Interval
            <= (passed + Cardinality(DueBy(t))) * Interval
      BY <1>1, <3>2, NoFewer
    <3>4. (passed + Cardinality(DueBy(t)')) * Interval \in Nat
            /\ (passed + Cardinality(DueBy(t))) * Interval \in Nat
      BY <1>1, <3>2, OneMore
    <3>5. QED
      BY <2>7, <3>3, <3>4, IntervalAssumption DEF RateInv
  <2>8. QED
    BY <1>2, <2>6, <2>7 DEF RateInv
<1>6. QED
  BY <1>4, <1>5

\* Every other step gives nobody a token.
LEMMA NextKeepsRate ==
    ASSUME Inv, Inv', RateInv, [Next]_vars PROVE RateInv'
<1>1. Types /\ Types'
  BY DEF Inv
<1>2. CASE \E r \in Requests :
            Pass(r) \/ Reserve(r) \/ TurnComes(r) \/ Leave(r)
  BY <1>2, PassKeepsRate, ReserveKeepsRate, TurnKeepsRate, LeaveKeepsRate
<1>3. CASE \/ \E r \in Requests :
                \/ (\E rt \in Routes : Accept(r, rt)) \/ Disconnect(r)
                \/ Enter(r) \/ Busy(r) \/ Refuse(r)
                \/ \E s \in Answers : Answer(r, s)
           \/ Tick \/ Signal \/ Drained \/ DrainTimeout \/ UNCHANGED vars
  <2>1. passed' = passed /\ due' = due
    BY <1>3
    DEF Accept, Disconnect, Enter, Busy, Refuse, Answer, Tick, Signal, Drained,
        DrainTimeout, vars, limiterVars
  <2>2. clock \in Nat /\ clock' >= clock
    BY <1>1, <1>3, IntervalAssumption
    DEF Types, Accept, Disconnect, Enter, Busy, Refuse, Answer, Tick, Signal,
        Drained, DrainTimeout, vars, limiterVars
  <2>3. Waiting' \subseteq Waiting
    BY <1>1, <1>3
    DEF Types, Waiting, Accept, Disconnect, Enter, Busy, Refuse, Answer, Tick,
        Signal, Drained, DrainTimeout, ReplyWith, vars, limiterVars
  <2>4. \A q \in Waiting' : slot'[q] = slot[q]
    BY <1>3
    DEF Waiting, Accept, Disconnect, Enter, Busy, Refuse, Answer, Tick,
        Signal, Drained, DrainTimeout, vars, limiterVars
  <2>5. QED
    BY <1>1, <2>1, <2>2, <2>3, <2>4, FewerTokens
<1>4. QED
  BY <1>2, <1>3 DEF Next, Handle, Begin

\* The invariant of the limiter (rate.go:11-19).
THEOREM RateInvHolds == Spec => []RateInv
<1>1. Inv /\ Inv' /\ RateInv /\ [Next]_vars => RateInv'
  BY NextKeepsRate
<1>2. QED
  BY <1>1, InitRate, InvHolds, PTL DEF Spec

\* The rate of the limiter is kept whoever comes, waits and leaves
\* (rate.go:11-19).
THEOREM RateHolds == Spec => []RateIsKept
<1>1. Inv /\ RateInv => RateIsKept
  <2> SUFFICES ASSUME Inv, RateInv PROVE RateIsKept
    OBVIOUS
  <2>1. clock \in Nat /\ passed \in Nat
    BY IntervalAssumption DEF Inv, Types
  <2>2. DueBy(clock) \in SUBSET Requests
    BY DEF DueBy, Waiting
  <2>3. Cardinality(DueBy(clock)) \in Nat
    BY <2>2, CountOf
  <2>4. passed * Interval <= (passed + Cardinality(DueBy(clock))) * Interval
    BY <2>1, <2>3, NoFewer
  <2>5. (passed + Cardinality(DueBy(clock))) * Interval <= clock + Interval
    BY <2>1 DEF RateInv
  <2>6. passed * Interval \in Nat
            /\ (passed + Cardinality(DueBy(clock))) * Interval \in Nat
    BY <2>1, <2>3, OneMore
  <2>7. QED
    BY <2>1, <2>4, <2>5, <2>6, IntervalAssumption DEF RateIsKept
<1>2. QED
  BY <1>1, RateInvHolds, InvHolds, PTL

-----------------------------------------------------------------------------
(* The gateway that clients see *)

\* What a handler is seen to do, and how it is seen to move.
LEMMA StatesOf ==
    ASSUME Types
    PROVE  /\ Promise!Cardinality(Promise!Searching) = Cardinality(Searching)
           /\ \A r \in Requests :
                /\ States[r] = "off" <=> pc[r] = "off"
                /\ States[r] = "inside" <=> pc[r] = "inside"
                /\ States[r] = "asked" <=> pc[r] \in {"accepted", "wait"}
<1>1. \A r \in Requests :
        /\ States[r] = "off" <=> pc[r] = "off"
        /\ States[r] = "inside" <=> pc[r] = "inside"
        /\ States[r] = "asked" <=> pc[r] \in {"accepted", "wait"}
  BY DEF Types, States
<1>2. Promise!Searching = Searching
  BY <1>1 DEF Promise!Searching, Searching
<1>3. Promise!Cardinality(Searching) = Cardinality(Searching)
  BY DEF Promise!Cardinality, Cardinality
<1>4. QED
  BY <1>1, <1>2, <1>3

LEMMA StatesMove ==
    ASSUME Types, NEW r \in Requests, NEW v, pc' = [pc EXCEPT ![r] = v]
    PROVE  States' = [States EXCEPT ![r] =
                        IF v \in {"accepted", "wait"} THEN "asked" ELSE v]
BY DEF Types, States

\* Whoever the limiter lets in, and however long he has waited, all let in
\* before him have had their interval.
LEMMA TurnIsDue ==
    ASSUME Inv, RateInv, NEW r \in Requests, Pass(r) \/ TurnComes(r)
    PROVE  passed * Interval <= clock
<1>1. /\ passed \in Nat /\ clock \in Nat /\ due \in Nat
      /\ passed * Interval \in Nat
  BY IntervalAssumption, OneMore DEF Inv, Types
<1>2. CASE Pass(r)
  <2>1. due <= clock
    BY <1>2 DEF Pass
  <2>2. Waiting \in SUBSET Requests
    BY DEF Waiting
  <2>3. Cardinality(Waiting) \in Nat
    BY <2>2, CountOf
  <2>4. passed * Interval <= (passed + Cardinality(Waiting)) * Interval
    BY <1>1, <2>3, NoFewer
  <2>5. (passed + Cardinality(Waiting)) * Interval \in Nat
    BY <1>1, <2>3, OneMore
  <2>6. (passed + Cardinality(Waiting)) * Interval <= due
    BY DEF RateInv
  <2>7. QED
    BY <1>1, <2>1, <2>4, <2>5, <2>6
<1>3. CASE TurnComes(r)
  <2>1. r \in DueBy(clock) /\ DueBy(clock) \in SUBSET Requests
    BY <1>3 DEF TurnComes, DueBy, Waiting
  <2>2. Cardinality(DueBy(clock)) \in Nat /\ Cardinality(DueBy(clock)) >= 1
    <3>1. DueBy(clock) \ {r} \in SUBSET Requests
      BY <2>1
    <3>2. /\ Cardinality(DueBy(clock)) \in Nat
          /\ Cardinality(DueBy(clock) \ {r}) \in Nat
          /\ Cardinality(DueBy(clock) \ {r}) + 1 = Cardinality(DueBy(clock))
      BY <2>1, <3>1, CountOf
    <3>3. QED
      BY <3>2
  <2>3. (passed + 1) * Interval
            <= (passed + Cardinality(DueBy(clock))) * Interval
    BY <1>1, <2>2, NoFewer
  <2>4. (passed + Cardinality(DueBy(clock))) * Interval \in Nat
    BY <1>1, <2>2, OneMore
  <2>5. (passed + Cardinality(DueBy(clock))) * Interval <= clock + Interval
    BY <1>1 DEF RateInv
  <2>6. (passed + 1) * Interval = passed * Interval + Interval
    BY <1>1, OneMore
  <2>7. QED
    BY <1>1, <2>3, <2>4, <2>5, <2>6, IntervalAssumption
<1>4. QED
  BY <1>2, <1>3

\* Each step of a handler is a step of the gateway, or is not seen.
LEMMA HandlerRefines ==
    ASSUME Inv, RateInv, NEW r \in Requests, Handle(r)
    PROVE  [Promise!Next]_(Promise!vars)
<1>1. Types /\ SlotInv /\ GapInv
  BY DEF Inv
<1>2. CASE Enter(r)
  <2>1. Promise!Cardinality(Promise!Searching) < Limit
    <3>1. Cardinality(Searching) < Limit
      BY <1>1, <1>2 DEF Enter, SlotInv
    <3>2. QED
      BY <1>1, <3>1, StatesOf, Zenon
  <2>2. Promise!Asks(r, "search")
    BY <1>1, <1>2, StatesOf DEF Enter, Arrives, Promise!Asks
  <2>3. Promise!Enters(r) /\ UNCHANGED passed
    BY <1>1, <1>2, StatesMove DEF Enter, limiterVars, Promise!Enters
  <2>4. QED
    BY <2>1, <2>2, <2>3 DEF Promise!Admit, Promise!Next
<1>3. CASE Busy(r)
  <2>1. Promise!Cardinality(Promise!Searching) = Limit
    <3>1. Cardinality(Searching) = Limit
      BY <1>1, <1>3, LimitAssumption DEF Busy, Types, SlotInv
    <3>2. QED
      BY <1>1, <3>1, StatesOf, Zenon
  <2>2. Promise!Asks(r, "search")
    BY <1>1, <1>3, StatesOf DEF Busy, Arrives, Promise!Asks
  <2>3. Promise!Ends(r, "busy")
    BY <1>1, <1>3, StatesMove DEF Busy, ReplyWith, limiterVars, Promise!Ends
  <2>4. QED
    BY <2>1, <2>2, <2>3 DEF Promise!Decline, Promise!Next
<1>4. CASE Pass(r) \/ TurnComes(r)
  <2>1. passed * Interval <= clock
    BY <1>4, TurnIsDue
  <2>2. route[r] = "isearch" /\ pc[r] \in {"accepted", "wait"}
    BY <1>1, <1>4 DEF Pass, TurnComes, Arrives, GapInv, Waiting
  <2>3. Promise!Let(r)
    BY <1>1, <1>4, <2>1, <2>2, StatesOf, StatesMove
    DEF Pass, TurnComes, Promise!Let, Promise!Asks, Promise!Enters
  <2>4. QED
    BY <2>3 DEF Promise!Next
<1>5. CASE Reserve(r)
  <2>1. States' = States
    BY <1>1, <1>5 DEF Types, States, Reserve, Arrives
  <2>2. QED
    BY <1>5, <2>1 DEF Reserve, Promise!vars
<1>6. CASE Refuse(r) \/ Leave(r)
  <2>1. route[r] = "isearch" /\ pc[r] \in {"accepted", "wait"} /\ Done(r)
    BY <1>1, <1>6 DEF Refuse, Leave, Arrives, GapInv, Waiting
  <2>2. Promise!Dismiss(r)
    BY <1>1, <1>6, <2>1, StatesOf, StatesMove
    DEF Refuse, Leave, Done, ReplyWith, limiterVars, Promise!Dismiss,
        Promise!Asks, Promise!Done, Promise!Ends
  <2>3. QED
    BY <2>2 DEF Promise!Next
<1>7. ASSUME NEW s \in Answers, Answer(r, s)
      PROVE  [Promise!Next]_(Promise!vars)
  <2>1. Promise!Answer(r, s)
    BY <1>1, <1>7, StatesOf, StatesMove
    DEF Answer, Done, ReplyWith, limiterVars, Promise!Answer, Promise!Done,
        Promise!Ends
  <2>2. s \in {"ok", "bad", "error"}
    BY DEF Answers
  <2>3. QED
    BY <2>1, <2>2 DEF Promise!Next
<1>8. QED
  BY <1>2, <1>3, <1>4, <1>5, <1>6, <1>7 DEF Handle, Begin

\* And so are the steps of the clients, of the clock and of the server.
LEMMA ServerRefines ==
    ASSUME Inv,
           \/ \E r \in Requests :
                (\E rt \in Routes : Accept(r, rt)) \/ Disconnect(r)
           \/ Tick \/ Signal \/ Drained \/ DrainTimeout \/ UNCHANGED vars
    PROVE  [Promise!Next]_(Promise!vars)
<1>1. Types
  BY DEF Inv
<1>2. ASSUME NEW r \in Requests, NEW rt \in Routes, Accept(r, rt)
      PROVE  [Promise!Next]_(Promise!vars)
  <2>1. Promise!Come(r, rt)
    BY <1>1, <1>2, StatesOf, StatesMove DEF Accept, limiterVars, Promise!Come
  <2>2. QED
    BY <2>1 DEF Promise!Next, Routes
<1>3. ASSUME NEW r \in Requests, Disconnect(r)
      PROVE  [Promise!Next]_(Promise!vars)
  <2>1. Promise!Go(r)
    BY <1>1, <1>3, StatesOf DEF Disconnect, limiterVars, States, Promise!Go
  <2>2. QED
    BY <2>1 DEF Promise!Next
<1>4. CASE Tick
  BY <1>4 DEF Tick, limiterVars, States, Promise!Tick, Promise!Next
<1>5. CASE Signal
  BY <1>5 DEF Signal, limiterVars, States, Promise!Signal, Promise!Next
<1>6. CASE Drained
  <2>1. States' = [r \in Requests |-> "off"]
    BY <1>6 DEF Drained, States
  <2>2. status' = [r \in Requests |->
                    IF States[r] = "off" THEN status[r] ELSE "lost"]
    BY <1>1, <1>6 DEF Drained, States, Types
  <2>3. Promise!Stop
    BY <1>6, <2>1, <2>2 DEF Drained, limiterVars, Promise!Stop
  <2>4. QED
    BY <2>3 DEF Promise!Next
<1>7. CASE DrainTimeout
  <2>1. States' = [r \in Requests |-> "off"]
    BY <1>7 DEF DrainTimeout, States
  <2>2. status' = [r \in Requests |->
                    IF States[r] = "off" THEN status[r] ELSE "lost"]
    BY <1>1, <1>7, StatesOf DEF DrainTimeout
  <2>3. Promise!Stop
    BY <1>7, <2>1, <2>2 DEF DrainTimeout, Promise!Stop
  <2>4. QED
    BY <2>3 DEF Promise!Next
<1>8. CASE UNCHANGED vars
  BY <1>8 DEF vars, States, Promise!vars
<1>9. QED
  BY <1>2, <1>3, <1>4, <1>5, <1>6, <1>7, <1>8

\* The API server is the gateway of Gateway: with the channel, the next token
\* and the tokens that are held hidden, each of its steps is one of a gateway
\* that refuses only when it is full and delays only to keep the rate
\* (concurrency.go:7-17, rate.go:10-19, main.go:79-120).
THEOREM ServerImplementsGateway == Spec => ImplementsGateway
<1>1. Init => Promise!Init
  BY DEF Init, Promise!Init, States
<1>2. Inv /\ RateInv /\ [Next]_vars => [Promise!Next]_(Promise!vars)
  <2> SUFFICES ASSUME Inv, RateInv, [Next]_vars
               PROVE  [Promise!Next]_(Promise!vars)
    OBVIOUS
  <2>1. QED
    BY HandlerRefines, ServerRefines DEF Next
<1>3. QED
  BY <1>1, <1>2, InvHolds, RateInvHolds, PTL
  DEF Spec, ImplementsGateway, Promise!Spec

-----------------------------------------------------------------------------
(* The search page *)

\* A visit is an index search of a visitor who is there, so it is never
\* refused for want of a slot, and by the limiter only after the signal.
VisitInv ==
    /\ \A r \in Requests : page[r] = "asked" =>
        /\ route[r] = "isearch" /\ ~gone[r]
        /\ pc[r] = "off" => status[r] # "none"
        /\ status[r] # "busy"
        /\ status[r] = "down" => phase # "serving"
    /\ WaitMeansDown

PageTypes == page \in [Requests -> Messages \cup {"none", "asked"}]

PageInv == PageTypes /\ VisitInv

\* A page takes steps of the gateway, or none (client.go:44-80).
LEMMA PageIsGate == PageSpec => Spec
<1>1. PageInit => Init
  BY DEF PageInit
<1>2. [PageNext]_allVars => [Next]_vars
  <2> SUFFICES ASSUME [PageNext]_allVars PROVE [Next]_vars
    OBVIOUS
  <2>1. ASSUME NEW r \in Requests, Ask(r) PROVE [Next]_vars
    BY <2>1 DEF Ask, Next, Routes
  <2>2. ASSUME NEW r \in Requests, Receive(r) PROVE [Next]_vars
    BY <2>2 DEF Receive
  <2>3. ASSUME NEW r \in Requests, GiveUp(r, "error") \/ GiveUp(r, "none")
        PROVE  [Next]_vars
    BY <2>3 DEF GiveUp, Next
  <2>4. ASSUME NEW r \in Requests, Elsewhere(r) PROVE [Next]_vars
    BY <2>4 DEF Elsewhere, Next, Routes
  <2>5. QED
    BY <2>1, <2>2, <2>3, <2>4 DEF PageNext, Next, allVars
<1>3. QED
  BY <1>1, <1>2, PTL DEF PageSpec, Spec

\* The steps of the frontend itself.
LEMMA FrontendKeepsPage ==
    ASSUME Inv, PageInv, NEW r \in Requests,
           Ask(r) \/ Receive(r) \/ GiveUp(r, "error") \/ GiveUp(r, "none")
    PROVE  PageInv'
<1>1. Types /\ PageTypes /\ VisitInv /\ WaitMeansDown
  BY DEF Inv, PageInv, VisitInv
<1>2. CASE Ask(r)
  <2>1. PageTypes'
    BY <1>1, <1>2 DEF PageTypes, Ask, Shows, Messages
  <2>2. VisitInv'
    BY <1>1, <1>2
    DEF Types, PageTypes, VisitInv, WaitMeansDown, Ask, Shows, Accept, vars
  <2>3. QED
    BY <2>1, <2>2 DEF PageInv
<1>3. CASE Receive(r)
  <2>1. Message(status[r]) \in Messages
            /\ (Message(status[r]) = "limited" => phase # "serving")
    BY <1>1, <1>3 DEF Message, Messages, Receive, VisitInv
  <2>2. PageTypes'
    BY <1>1, <1>3, <2>1 DEF PageTypes, Receive, Shows
  <2>3. VisitInv'
    BY <1>1, <1>3, <2>1
    DEF PageTypes, VisitInv, WaitMeansDown, Receive, Shows, Messages, vars
  <2>4. QED
    BY <2>2, <2>3 DEF PageInv
<1>4. CASE GiveUp(r, "error") \/ GiveUp(r, "none")
  <2>1. PageTypes'
    BY <1>1, <1>4 DEF PageTypes, GiveUp, Shows, Messages
  <2>2. VisitInv'
    BY <1>1, <1>4
    DEF Types, PageTypes, VisitInv, WaitMeansDown, GiveUp, Disconnect, Shows
  <2>3. QED
    BY <2>1, <2>2 DEF PageInv
<1>5. QED
  BY <1>2, <1>3, <1>4

\* The steps of the API server and of the other clients.
LEMMA GateKeepsPage ==
    ASSUME Inv, PageInv, UNCHANGED page,
           \/ \E r \in Requests : Elsewhere(r) \/ Handle(r)
           \/ Tick \/ Signal \/ Drained \/ DrainTimeout \/ UNCHANGED vars
    PROVE  PageInv'
<1>1. Types /\ GapInv /\ PageTypes /\ VisitInv /\ WaitMeansDown
  BY DEF Inv, PageInv, VisitInv
<1>2. PageTypes'
  BY <1>1 DEF PageTypes
<1>3. WaitMeansDown'
  BY <1>1
  DEF WaitMeansDown, Elsewhere, Accept, Disconnect, Handle, Begin, Enter,
      Busy, Pass, Reserve, Refuse, TurnComes, Leave, Answer, Tick, Signal,
      Drained, DrainTimeout, vars
<1>4. CASE \E r \in Requests : Elsewhere(r)
  BY <1>1, <1>2, <1>3, <1>4
  DEF PageInv, Types, VisitInv, Elsewhere, Accept, Disconnect
<1>5. CASE \E r \in Requests : Handle(r)
  <2>1. PICK r \in Requests : Handle(r)
    BY <1>5
  <2>2. CASE Enter(r) \/ Pass(r) \/ Reserve(r) \/ TurnComes(r)
    BY <1>1, <1>2, <1>3, <2>2
    DEF PageInv, Types, VisitInv, Enter, Pass, Reserve, TurnComes
  <2>3. CASE Busy(r) \/ Refuse(r) \/ Leave(r)
    BY <1>1, <1>2, <1>3, <2>3
    DEF PageInv, Types, VisitInv, Busy, Refuse, Leave, ReplyWith, Arrives, Done
  <2>4. CASE \E s \in Answers : Answer(r, s)
    BY <1>1, <1>2, <1>3, <2>4
    DEF PageInv, Types, VisitInv, Answer, Answers, ReplyWith
  <2>5. QED
    BY <2>1, <2>2, <2>3, <2>4 DEF Handle, Begin
<1>6. CASE Tick \/ Signal \/ Drained \/ DrainTimeout \/ UNCHANGED vars
  BY <1>1, <1>2, <1>3, <1>6
  DEF PageInv, Types, VisitInv, Tick, Signal, Drained, DrainTimeout, vars
<1>7. QED
  BY <1>4, <1>5, <1>6

\* The invariant of the search page.
THEOREM PageHolds == PageSpec => []PageInv
<1>1. PageInit => PageInv
  BY DEF PageInit, PageInv, PageTypes, VisitInv, WaitMeansDown, Messages
<1>2. Inv /\ PageInv /\ [PageNext]_allVars => PageInv'
  <2> SUFFICES ASSUME Inv, PageInv, [PageNext]_allVars PROVE PageInv'
    OBVIOUS
  <2>1. QED
    BY FrontendKeepsPage, GateKeepsPage DEF PageNext, allVars
<1>3. QED
  BY <1>1, <1>2, PageIsGate, InvHolds, PTL DEF PageSpec

\* The types of the gate and the page; every visit has a request of its own
\* behind it, which no visitor left (client.go:53-69).
THEOREM PageTypeCorrect == PageSpec => []PageTypeOK
<1>1. PageInv /\ TypeOK => PageTypeOK
  BY DEF PageInv, PageTypes, VisitInv, PageTypeOK
<1>2. QED
  BY <1>1, PageHolds, PageIsGate, TypeCorrect, PTL

\* A visitor is asked to wait only by a server that is going down
\* (client.go:71-77, rate.go:13-18).
THEOREM WaitingMeansDown == PageSpec => []WaitMeansDown
<1>1. PageInv => WaitMeansDown
  BY DEF PageInv, VisitInv
<1>2. QED
  BY <1>1, PageHolds, PTL

============================================================================
