------------------------- MODULE TableSearchProofs -------------------------
(***************************************************************************)
(* The safety properties of Search for every set of comics and keywords,   *)
(* every limit, and any insertions and truncations between its statements. *)
(***************************************************************************)
EXTENDS TableSearch, RankingTheorems

Counted(i) == Relevance(query \ left, i)

\* No statement names a keyword twice; a comic that stayed has been counted
\* by every one of them; and every comic counted was seen.
ScoresInv ==
    /\ \A i \in Comics : scores[i] <= Counted(i)
    /\ \A i \in stayed : scores[i] = Counted(i)
    /\ Found(scores) \subseteq seen

\* What a place in the call says of the rest.
PhaseInv ==
    /\ pc = "norm" => query = {}
    /\ pc \in {"norm", "ask"} => result = <<>>
    /\ pc \in {"get", "done"} => left = {}
    /\ pc = "done" => sorted = <<>>
    /\ ~dropped => table = seen
    /\ pc = "gone" => dropped

\* The comics read and the ids still to read are one ranking.
RankInv ==
    pc \in {"get", "done"} => IsRanking(result \o sorted, scores, limit)

IInv == TypeOK /\ ScoresInv /\ PhaseInv /\ RankInv

-----------------------------------------------------------------------------
\* The names of the places of a call are different.
LEMMA PcFacts == 
    /\ {"norm", "ask", "get", "done", "gone", "failed", "idle"} \subseteq Pcs
    /\ \A p \in Resting : p \notin {"norm", "ask", "get"}
BY DEF Pcs, Resting

LEMMA CountedIsNat ==
    ASSUME NEW i \in Comics, query \in SUBSET Keywords
    PROVE  /\ Counted(i) \in Nat
           /\ Cardinality(query \ left) \in Nat
<1>1. /\ IsFiniteSet((query \ left) \cap WordsOf[i])
      /\ IsFiniteSet(query \ left)
  BY FS_Subset, ComicsAssumption
<1>2. QED
  BY <1>1, FS_CardinalityType DEF Counted, Relevance

LEMMA ZeroFacts ==
    /\ Zero \in [Comics -> 0..0]
    /\ Found(Zero) = {}
    /\ \A q : \A i \in Comics : Relevance(q \ q, i) = 0
    /\ \A q : Cardinality(q \ q) = 0
<1>1. \A q : \A i \in Comics : (q \ q) \cap WordsOf[i] = {}
  OBVIOUS
<1>2. \A q : q \ q = {}
  OBVIOUS
<1>3. QED
  BY <1>1, <1>2, FS_EmptySet DEF Zero, Found, Relevance

LEMMA InitHolds == Init => IInv
<1> SUFFICES ASSUME Init PROVE IInv
  OBVIOUS
<1>1. TypeOK
  <2>1. Cardinality(query \ left) = 0
    BY ZeroFacts DEF Init
  <2>2. scores \in [Comics -> 0..Cardinality(query \ left)]
    BY <2>1, ZeroFacts DEF Init
  <2>3. QED
    BY <2>2, EmptySeq DEF Init, TypeOK, Pcs, Resting
<1>2. ScoresInv
  <2>1. \A i \in Comics : Counted(i) = 0
    BY ZeroFacts DEF Counted, Init
  <2>2. QED
    BY <2>1, ZeroFacts DEF Init, ScoresInv
<1>3. PhaseInv /\ RankInv
  BY DEF Init, PhaseInv, RankInv
<1>4. QED
  BY <1>1, <1>2, <1>3 DEF IInv

-----------------------------------------------------------------------------
(* Every step keeps the invariant: one lemma per action. *)

LEMMA InsertStep ==
    ASSUME IInv, NEW i \in Comics, Insert(i)
    PROVE  IInv'
<1>1. TypeOK'
  BY DEF IInv, TypeOK, Insert, callVars
<1>2. ScoresInv'
  BY DEF IInv, ScoresInv, Insert, callVars, Counted, Found
<1>3. PhaseInv'
  BY DEF IInv, PhaseInv, Insert, callVars
<1>4. RankInv'
  BY DEF IInv, RankInv, Insert, callVars, IsRanking, Found
<1>5. QED
  BY <1>1, <1>2, <1>3, <1>4 DEF IInv

LEMMA TruncateStep ==
    ASSUME IInv, Truncate
    PROVE  IInv'
<1>1. TypeOK'
  BY DEF IInv, TypeOK, Truncate, callVars
<1>2. ScoresInv'
  BY DEF IInv, ScoresInv, Truncate, callVars, Counted, Found
<1>3. PhaseInv'
  BY DEF IInv, PhaseInv, Truncate, callVars
<1>4. RankInv'
  BY DEF IInv, RankInv, Truncate, callVars, IsRanking, Found
<1>5. QED
  BY <1>1, <1>2, <1>3, <1>4 DEF IInv

LEMMA BeginStep ==
    ASSUME IInv, NEW l \in Limits, Begin(l)
    PROVE  IInv'
<1>1. TypeOK'
  <2>1. Effective(l) \in Nat
    BY LimitsAssumption DEF Effective, DefaultLimit
  <2>2. Cardinality((query \ left)') = 0
    BY ZeroFacts DEF Begin
  <2>3. scores' \in [Comics -> 0..Cardinality((query \ left)')]
    BY <2>2, ZeroFacts DEF Begin
  <2>4. QED
    BY <2>1, <2>3, PcFacts, EmptySeq DEF IInv, TypeOK, Begin
<1>2. ScoresInv'
  <2>1. \A i \in Comics : Counted(i)' = 0
    BY ZeroFacts DEF Counted, Begin
  <2>2. stayed' \subseteq Comics
    BY DEF IInv, TypeOK, Begin
  <2>3. QED
    BY <2>1, <2>2, ZeroFacts DEF Begin, ScoresInv
<1>3. PhaseInv' /\ RankInv'
  BY DEF Begin, PhaseInv, RankInv
<1>4. QED
  BY <1>1, <1>2, <1>3 DEF IInv

LEMMA NormOkStep ==
    ASSUME IInv, NEW q \in SUBSET Keywords, NormOk(q)
    PROVE  IInv'
<1>1. \A i \in Comics : scores[i] = 0
  <2>1. TAKE i \in Comics
  <2>2. query = {} /\ query \ left = {}
    BY DEF IInv, PhaseInv, NormOk
  <2>3. Cardinality(query \ left) = 0
    BY <2>2, FS_EmptySet
  <2>4. scores[i] \in 0..0
    BY <2>3 DEF IInv, TypeOK
  <2>5. QED
    BY <2>4
<1>2. \A i \in Comics : Counted(i)' = 0
  BY ZeroFacts DEF Counted, NormOk
<1>3. TypeOK'
  <2>1. Cardinality((query \ left)') = 0
    BY ZeroFacts DEF NormOk
  <2>2. scores' \in [Comics -> 0..Cardinality((query \ left)')]
    BY <1>1, <2>1 DEF IInv, TypeOK, NormOk
  <2>3. QED
    BY <2>2, PcFacts DEF IInv, TypeOK, NormOk, tableVars
<1>4. ScoresInv'
  <2>1. stayed \subseteq Comics
    BY DEF IInv, TypeOK
  <2>2. QED
    BY <1>1, <1>2, <2>1 DEF IInv, ScoresInv, NormOk, tableVars, Found
<1>5. PhaseInv' /\ RankInv'
  BY DEF IInv, PhaseInv, RankInv, NormOk, tableVars
<1>6. QED
  BY <1>3, <1>4, <1>5 DEF IInv

LEMMA AskStep ==
    ASSUME IInv, NEW k \in Keywords, Ask(k)
    PROVE  IInv'
<1>1. /\ query \in SUBSET Keywords /\ left \in SUBSET query /\ k \in left
      /\ left' = left \ {k} /\ query' = query
      /\ stayed \subseteq table /\ table \subseteq seen
      /\ seen \subseteq Comics
      /\ UNCHANGED <<table, stayed, seen, dropped>>
  BY DEF IInv, TypeOK, Ask, tableVars
<1>2. /\ scores \in [Comics -> Nat]
      /\ scores' \in [Comics -> Nat]
      /\ \A i \in Comics :
          scores'[i] = IF i \in table /\ k \in WordsOf[i]
                         THEN scores[i] + 1 ELSE scores[i]
  <2>1. Cardinality(query \ left) \in Nat
    BY <1>1, FS_Subset, FS_CardinalityType, ComicsAssumption
  <2>2. scores \in [Comics -> Nat]
    BY <2>1 DEF IInv, TypeOK
  <2>3. QED
    BY <2>2 DEF Ask, Count, Matching
<1>3. /\ query \ left \subseteq Keywords
      /\ k \notin query \ left
      /\ query' \ left' = (query \ left) \cup {k}
  BY <1>1
<1>3a. \A i \in Comics :
        /\ Counted(i) \in Nat
        /\ k \in WordsOf[i] => Counted(i)' = Counted(i) + 1
        /\ k \notin WordsOf[i] => Counted(i)' = Counted(i)
  <2>1. TAKE i \in Comics
  <2>2. Counted(i)' = Relevance((query \ left) \cup {k}, i)
    BY <1>3 DEF Counted
  <2>3. Counted(i) = Relevance(query \ left, i)
    BY DEF Counted
  <2>4. /\ Relevance(query \ left, i) \in Nat
        /\ k \in WordsOf[i] =>
            Relevance((query \ left) \cup {k}, i) =
                Relevance(query \ left, i) + 1
        /\ k \notin WordsOf[i] =>
            Relevance((query \ left) \cup {k}, i) =
                Relevance(query \ left, i)
    <3> DEFINE S == query \ left
    <3>1. S \subseteq Keywords /\ k \notin S
      BY <1>3
    <3> HIDE DEF S
    <3>2. /\ Relevance(S, i) \in Nat
          /\ k \in WordsOf[i] => Relevance(S \cup {k}, i) = Relevance(S, i) + 1
          /\ k \notin WordsOf[i] => Relevance(S \cup {k}, i) = Relevance(S, i)
      BY <3>1, OneMoreKeyword
    <3>3. QED
      BY <3>2 DEF S
  <2>5. QED
    BY <2>2, <2>3, <2>4
<1>4. TypeOK'
  <2>1. ASSUME NEW i \in Comics
        PROVE  scores'[i] \in 0..Cardinality((query \ left)')
    <3>1. /\ Cardinality(query \ left) \in Nat
          /\ Cardinality((query \ left)') = Cardinality(query \ left) + 1
      BY <1>3, OneMoreKeyword
    <3>2. scores[i] \in 0..Cardinality(query \ left)
      BY DEF IInv, TypeOK
    <3>3. QED
      BY <1>2, <3>1, <3>2
  <2>2. scores' \in [Comics -> 0..Cardinality((query \ left)')]
    BY <1>2, <2>1
  <2>3. QED
    BY <1>1, <2>2, PcFacts DEF IInv, TypeOK, Ask
<1>5. ScoresInv'
  <2>1. ASSUME NEW i \in Comics PROVE scores'[i] <= Counted(i)'
    <3>1. scores[i] <= Counted(i)
      BY DEF IInv, ScoresInv
    <3>2. QED
      BY <1>2, <1>3a, <3>1
  <2>2. ASSUME NEW i \in stayed' PROVE scores'[i] = Counted(i)'
    <3>1. i \in stayed /\ i \in table /\ i \in Comics
      BY <1>1
    <3>2. scores[i] = Counted(i)
      BY <3>1 DEF IInv, ScoresInv
    <3>3. QED
      BY <1>2, <1>3a, <3>1, <3>2
  <2>3. ASSUME NEW i \in Found(scores)' PROVE i \in seen'
    <3>1. i \in Comics /\ scores'[i] > 0
      BY DEF Found
    <3>2. CASE i \in table
      BY <1>1, <3>2
    <3>3. CASE i \notin table
      <4>1. i \in Found(scores)
        BY <1>2, <3>1, <3>3 DEF Found
      <4>2. QED
        BY <1>1, <4>1 DEF IInv, ScoresInv
    <3>4. QED
      BY <3>2, <3>3
  <2>4. QED
    BY <2>1, <2>2, <2>3 DEF ScoresInv
<1>6. PhaseInv' /\ RankInv'
  BY <1>1 DEF IInv, PhaseInv, RankInv, Ask
<1>7. QED
  BY <1>4, <1>5, <1>6 DEF IInv

LEMMA RankStep ==
    ASSUME IInv, Rank
    PROVE  IInv'
<1>1. scores \in [Comics -> Nat] /\ limit \in Nat
  BY CountedIsNat DEF IInv, TypeOK
<1>2. PICK s \in Sorts(scores) : sorted' = Cut(s, limit)
  BY DEF Rank
<1>3. sorted' \in Seq(Comics) /\ IsRanking(sorted', scores, limit)
  BY <1>1, <1>2, CutIsRanking
<1>4. TypeOK'
  BY <1>3, PcFacts DEF IInv, TypeOK, Rank, tableVars
<1>5. ScoresInv'
  BY DEF IInv, ScoresInv, Rank, tableVars, Counted, Found
<1>6. PhaseInv'
  BY DEF IInv, PhaseInv, Rank, tableVars
<1>7. RankInv'
  <2>1. result = <<>>
    BY DEF IInv, PhaseInv, Rank
  <2>2. QED
    BY <1>3, <2>1, ConcatEmptySeq DEF RankInv, Rank
<1>8. QED
  BY <1>4, <1>5, <1>6, <1>7 DEF IInv

LEMMA GetOkStep ==
    ASSUME IInv, GetOk
    PROVE  IInv'
<1>1. /\ sorted \in Seq(Comics) /\ result \in Seq(Comics) /\ sorted # <<>>
      /\ pc = "get" /\ sorted' = Tail(sorted)
      /\ result' = Append(result, Head(sorted))
      /\ UNCHANGED <<pc, limit, query, left, scores, table, stayed, seen,
                     dropped>>
  BY DEF IInv, TypeOK, GetOk, tableVars
<1>2. /\ sorted' \in Seq(Comics) /\ result' \in Seq(Comics)
      /\ result' \o sorted' = result \o sorted
  BY <1>1, MoveHead
<1>3. TypeOK'
  BY <1>1, <1>2 DEF IInv, TypeOK
<1>4. ScoresInv'
  BY <1>1 DEF IInv, ScoresInv, Counted, Found
<1>5. PhaseInv'
  BY <1>1 DEF IInv, PhaseInv
<1>6. RankInv'
  BY <1>1, <1>2 DEF IInv, RankInv, IsRanking, Found
<1>7. QED
  BY <1>3, <1>4, <1>5, <1>6 DEF IInv

LEMMA GetGoneStep ==
    ASSUME IInv, GetGone
    PROVE  IInv'
<1>1. TypeOK'
  BY PcFacts DEF IInv, TypeOK, GetGone, tableVars
<1>2. ScoresInv'
  BY DEF IInv, ScoresInv, GetGone, tableVars, Counted, Found
<1>3. Head(sorted) \in Found(scores)
  <2>1. sorted \in Seq(Comics) /\ result \in Seq(Comics) /\ sorted # <<>>
    BY DEF IInv, TypeOK, GetGone
  <2>2. PICK a \in 1..Len(result \o sorted) :
            (result \o sorted)[a] = Head(sorted)
    BY <2>1, MoveHead
  <2>3. IsRanking(result \o sorted, scores, limit)
    BY DEF IInv, RankInv, GetGone
  <2>4. QED
    BY <2>2, <2>3 DEF IsRanking
<1>4. Head(sorted) \in seen /\ Head(sorted) \notin table
  BY <1>3 DEF IInv, ScoresInv, GetGone
<1>5. dropped
  BY <1>4 DEF IInv, PhaseInv, TypeOK
<1>6. PhaseInv' /\ RankInv'
  BY <1>5 DEF IInv, PhaseInv, RankInv, GetGone, tableVars
<1>7. QED
  BY <1>1, <1>2, <1>6 DEF IInv

LEMMA CallFailStep ==
    ASSUME IInv, CallFail
    PROVE  IInv'
<1>1. TypeOK'
  BY PcFacts DEF IInv, TypeOK, CallFail, tableVars
<1>2. ScoresInv'
  BY DEF IInv, ScoresInv, CallFail, tableVars, Counted, Found
<1>3. PhaseInv' /\ RankInv'
  BY DEF IInv, PhaseInv, RankInv, CallFail, tableVars
<1>4. QED
  BY <1>1, <1>2, <1>3 DEF IInv

LEMMA ReturnStep ==
    ASSUME IInv, Return
    PROVE  IInv'
<1>1. TypeOK'
  BY PcFacts DEF IInv, TypeOK, Return, tableVars
<1>2. ScoresInv'
  BY DEF IInv, ScoresInv, Return, tableVars, Counted, Found
<1>3. PhaseInv'
  BY DEF IInv, PhaseInv, Return, tableVars
<1>4. RankInv'
  BY DEF IInv, RankInv, Return, tableVars, IsRanking, Found
<1>5. QED
  BY <1>1, <1>2, <1>3, <1>4 DEF IInv

LEMMA StutterStep ==
    ASSUME IInv, UNCHANGED vars
    PROVE  IInv'
<1>1. TypeOK'
  BY DEF IInv, TypeOK, vars, callVars, tableVars
<1>2. ScoresInv'
  BY DEF IInv, ScoresInv, vars, callVars, tableVars, Counted, Found
<1>3. PhaseInv'
  BY DEF IInv, PhaseInv, vars, callVars, tableVars
<1>4. RankInv'
  BY DEF IInv, RankInv, vars, callVars, tableVars, IsRanking, Found
<1>5. QED
  BY <1>1, <1>2, <1>3, <1>4 DEF IInv

\* The inductive invariant.
THEOREM SearchInvariant == Spec => []IInv
<1>1. ASSUME IInv, [Next]_vars PROVE IInv'
  BY <1>1, InsertStep, TruncateStep, BeginStep, NormOkStep, AskStep, RankStep,
     GetOkStep, GetGoneStep, CallFailStep, ReturnStep, StutterStep
  DEF Next
<1>2. QED
  BY <1>1, InitHolds, PTL DEF Spec

-----------------------------------------------------------------------------
(* What follows from it *)

\* The types, and that no statement counts a keyword twice.
THEOREM TypeCorrect == Spec => []TypeOK
<1>1. IInv => TypeOK
  BY DEF IInv
<1>2. QED
  BY <1>1, SearchInvariant, PTL

\* A search meets a row that is gone only if the table was truncated while it
\* ran (search/core/service.go:139-143).
THEOREM RowsGoOnlyByDrop == Spec => []GoneOnlyByDrop
<1>1. IInv => GoneOnlyByDrop
  BY DEF IInv, PhaseInv, GoneOnlyByDrop
<1>2. QED
  BY <1>1, SearchInvariant, PTL

\* At the return the answer is a ranking, and the scores are bounded by the
\* relevance of the comics and equal to it for the comics that stayed.
LEMMA AnswerFacts ==
    ASSUME IInv, pc = "done"
    PROVE  /\ result \in Seq(Comics)
           /\ IsRanking(result, scores, limit)
           /\ scores \in [Comics -> Nat]
           /\ Found(scores) \subseteq seen
           /\ \A i \in Comics :
                /\ scores[i] <= Relevance(query, i)
                /\ Relevance(query, i) \in Nat
           /\ \A i \in stayed : scores[i] = Relevance(query, i)
           /\ stayed \subseteq Comics
<1>1. left = {} /\ sorted = <<>> /\ result \in Seq(Comics)
      /\ stayed \subseteq Comics /\ query \in SUBSET Keywords
  BY DEF IInv, PhaseInv, TypeOK
<1>2. \A i \in Comics : Counted(i) = Relevance(query, i)
                        /\ Counted(i) \in Nat
  BY <1>1, CountedIsNat DEF Counted, Relevance
<1>3. result \o sorted = result
  BY <1>1, ConcatEmptySeq
<1>4. scores \in [Comics -> Nat]
  BY CountedIsNat DEF IInv, TypeOK
<1>5. QED
  BY <1>1, <1>2, <1>3, <1>4 DEF IInv, RankInv, ScoresInv

\* An answer is within its limit, names nobody twice, and only comics that
\* were there and match (search/core/service.go:115-148).
THEOREM AnswersAreSound == Spec => []AnswerIsSound
<1>1. ASSUME IInv, pc = "done"
      PROVE  /\ Len(result) <= limit
             /\ IsInjective(result)
             /\ Range(result) \subseteq Relevant(seen, query)
  <2>1. \A i \in Found(scores) : i \in Relevant(seen, query)
    BY <1>1, AnswerFacts DEF Found, Relevant
  <2>2. DOMAIN result = 1..Len(result)
    BY <1>1, AnswerFacts, LenProperties
  <2>3. Range(result) \subseteq Found(scores)
    BY <1>1, <2>2, AnswerFacts DEF IsRanking, Range
  <2>4. QED
    BY <1>1, <2>1, <2>3, AnswerFacts DEF IsRanking
<1>2. IInv => AnswerIsSound
  BY <1>1 DEF AnswerIsSound
<1>3. QED
  BY <1>2, SearchInvariant, PTL

\* No comic that stayed is passed over for a worse one
\* (search/core/service.go:116-135).
THEOREM AnswersAreBest == Spec => []BestFirst
<1>1. ASSUME IInv, pc = "done"
      PROVE  BestFirst
  <2>1. DOMAIN result = 1..Len(result)
        /\ \A a \in 1..Len(result) : result[a] \in Comics
    BY <1>1, AnswerFacts, LenProperties, ElementOfSeq
  <2>2. ASSUME NEW a \in DOMAIN result, NEW b \in DOMAIN result,
               a < b, result[b] \in stayed
        PROVE  Relevance(query, result[a]) >= Relevance(query, result[b])
    <3>1. scores[result[a]] >= scores[result[b]]
      BY <1>1, <2>1, <2>2, AnswerFacts DEF IsRanking
    <3>2. /\ scores[result[b]] = Relevance(query, result[b])
          /\ scores[result[a]] <= Relevance(query, result[a])
          /\ Relevance(query, result[a]) \in Nat
          /\ scores[result[a]] \in Nat /\ scores[result[b]] \in Nat
      BY <1>1, <2>1, <2>2, AnswerFacts
    <3>3. QED
      BY <3>1, <3>2
  <2>3. ASSUME NEW i \in Relevant(stayed, query) \ Range(result)
        PROVE  /\ Len(result) = limit
               /\ \A a \in DOMAIN result :
                    Relevance(query, result[a]) >= Relevance(query, i)
    <3>1. i \in stayed /\ i \in Comics /\ Relevance(query, i) > 0
      BY <1>1, AnswerFacts DEF Relevant
    <3>2. scores[i] = Relevance(query, i) /\ i \in Found(scores)
      BY <1>1, <3>1, AnswerFacts DEF Found
    <3>3. Len(result) = limit
          /\ \A a \in 1..Len(result) : scores[result[a]] >= scores[i]
      BY <1>1, <2>3, <3>2, AnswerFacts DEF IsRanking
    <3>4. ASSUME NEW a \in DOMAIN result
          PROVE  Relevance(query, result[a]) >= Relevance(query, i)
      <4>1. scores[result[a]] >= scores[i] /\ result[a] \in Comics
        BY <2>1, <3>3
      <4>2. /\ scores[result[a]] <= Relevance(query, result[a])
            /\ Relevance(query, result[a]) \in Nat
            /\ scores[result[a]] \in Nat /\ scores[i] \in Nat
        BY <1>1, <3>1, <4>1, AnswerFacts
      <4>3. QED
        BY <3>2, <4>1, <4>2
    <3>5. QED
      BY <3>3, <3>4
  <2>4. QED
    BY <2>2, <2>3 DEF BestFirst
<1>2. IInv => BestFirst
  BY <1>1 DEF BestFirst
<1>3. QED
  BY <1>2, SearchInvariant, PTL

\* A search that no insertion and no truncation crosses gives the answer of
\* the reference, though it reads the table in several statements, and so one
\* that no ISearch over an index of the same comics can better: the two may
\* differ in the order of comics of one relevance, and in which of them the
\* limit cuts (search/core/service.go:31-71, 107-148).
QuietIsReference ==
    pc = "done" /\ stayed = seen =>
        /\ IsAnswer(result, stayed, query, limit)
        /\ \A t \in Seq(Comics) : IsAnswer(t, stayed, query, limit) =>
            /\ Len(t) = Len(result)
            /\ \A a \in 1..Len(t) :
                Relevance(query, t[a]) = Relevance(query, result[a])

\* A search of a table that does not change is the reference's.
THEOREM QuietSearchIsReference == Spec => []QuietIsReference
<1>1. ASSUME IInv, pc = "done", stayed = seen
      PROVE  /\ stayed \in SUBSET Comics /\ query \in SUBSET Keywords
             /\ limit \in Nat /\ result \in Seq(Comics)
             /\ IsAnswer(result, stayed, query, limit)
  <2>1. /\ stayed \in SUBSET Comics /\ query \in SUBSET Keywords
        /\ limit \in Nat /\ result \in Seq(Comics)
        /\ scores \in [Comics -> Nat]
        /\ IsRanking(result, scores, limit)
    BY <1>1, AnswerFacts DEF IInv, TypeOK
  <2>2. \A i \in Comics :
            scores[i] = IF i \in stayed THEN Relevance(query, i) ELSE 0
    <3>1. TAKE i \in Comics
    <3>2. i \in stayed => scores[i] = Relevance(query, i)
      BY <1>1, AnswerFacts
    <3>3. scores[i] \in Nat /\ (scores[i] > 0 => i \in stayed)
      BY <1>1, <2>1, AnswerFacts DEF Found
    <3>4. QED
      BY <3>2, <3>3
  <2>3. QED
    BY <2>1, <2>2, RankingIsAnswer
<1>2. ASSUME IInv, pc = "done", stayed = seen,
             NEW t \in Seq(Comics), IsAnswer(t, stayed, query, limit)
      PROVE  /\ Len(t) = Len(result)
             /\ \A a \in 1..Len(t) :
                    Relevance(query, t[a]) = Relevance(query, result[a])
  BY <1>1, <1>2, AnswersAgree
<1>3. IInv => QuietIsReference
  BY <1>1, <1>2 DEF QuietIsReference
<1>4. QED
  BY <1>3, SearchInvariant, PTL

=============================================================================
