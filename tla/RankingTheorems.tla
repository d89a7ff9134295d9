-------------------------- MODULE RankingTheorems --------------------------
(***************************************************************************)
(* What the ranking that Search and ISearch share gives, for every set of  *)
(* comics, every scores and every limit.                                   *)
(***************************************************************************)
EXTENDS Ranking, FiniteSetTheorems, SequenceTheorems, TLAPS

\* s lists ids with a score above zero, by falling score, and leaves out none
\* that scores more than one it lists, or any before the limit is reached.
IsRanking(s, scores, limit) ==
    /\ s \in [1..Len(s) -> Found(scores)]
    /\ Len(s) \in Nat /\ Len(s) <= limit
    /\ IsInjective(s)
    /\ \A a, b \in 1..Len(s) : a < b => scores[s[a]] >= scores[s[b]]
    /\ \A i \in Found(scores) \ Range(s) :
        /\ Len(s) = limit
        /\ \A a \in 1..Len(s) : scores[s[a]] >= scores[i]

\* The ids an answer may name are finitely many.
LEMMA FoundFinite ==
    ASSUME NEW scores \in [Comics -> Nat]
    PROVE  Found(scores) \in SUBSET Comics /\ IsFiniteSet(Found(scores))
<1>1. Found(scores) \in SUBSET Comics
  BY DEF Found
<1>2. QED
  BY <1>1, FS_Subset, ComicsAssumption

\* What slices.SortedFunc over the keys of the map may return
\* (search/core/service.go:48-50, 128-130).
LEMMA SortFacts ==
    ASSUME NEW scores \in [Comics -> Nat], NEW s \in Sorts(scores)
    PROVE  /\ s \in Seq(Found(scores))
           /\ Len(s) \in Nat
           /\ DOMAIN s = 1..Len(s)
           /\ Range(s) = Found(scores)
           /\ IsInjective(s)
           /\ \A a, b \in 1..Len(s) : a < b => scores[s[a]] >= scores[s[b]]
<1> DEFINE F == Found(scores)
           n == Cardinality(F)
<1>1. n \in Nat
  BY FoundFinite, FS_CardinalityType
<1>2. /\ s \in [1..n -> F]
      /\ IsInjective(s)
      /\ \A t \in F : \E a \in 1..n : s[a] = t
      /\ \A a, b \in DOMAIN s : a < b => scores[s[a]] >= scores[s[b]]
  BY DEF Sorts, Bijection, Injection, Surjection
<1>3. s \in Seq(F)
  BY <1>1, <1>2, SeqDef
<1>4. Len(s) \in Nat /\ DOMAIN s = 1..Len(s)
  BY <1>3
<1>5. Range(s) = F
  BY <1>2 DEF Range
<1>6. QED
  BY <1>2, <1>3, <1>4, <1>5

\* The cut keeps the ranking: what it drops is not better than what it keeps,
\* and it drops nothing unless the limit is reached
\* (search/core/service.go:52-56, 132-135).
LEMMA CutIsRanking ==
    ASSUME NEW scores \in [Comics -> Nat], NEW s \in Sorts(scores),
           NEW limit \in Nat
    PROVE  /\ Cut(s, limit) \in Seq(Comics)
           /\ IsRanking(Cut(s, limit), scores, limit)
<1> DEFINE F == Found(scores)
           m == IF Len(s) < limit THEN Len(s) ELSE limit
           c == Cut(s, limit)
<1>1. /\ s \in Seq(F) /\ Len(s) \in Nat /\ DOMAIN s = 1..Len(s)
      /\ s \in [1..Len(s) -> F]
      /\ Range(s) = F /\ IsInjective(s)
      /\ \A a, b \in 1..Len(s) : a < b => scores[s[a]] >= scores[s[b]]
  <2>1. s \in Seq(F) => s \in [1..Len(s) -> F]
    OBVIOUS
  <2>2. QED
    BY <2>1, SortFacts
<1>2. m \in Nat /\ m <= Len(s) /\ m <= limit
  BY <1>1
<1>3. c = [a \in 1..m |-> s[a]]
  BY <1>1, <1>2 DEF Cut
<1>4. \A a \in 1..m : a \in 1..Len(s) /\ s[a] \in F
  BY <1>1, <1>2
<1>5. c \in [1..m -> F] /\ c \in Seq(F) /\ Len(c) = m
  BY <1>2, <1>3, <1>4
<1>6. c \in Seq(Comics)
  BY <1>5, FoundFinite
<1>7. IsInjective(c)
  BY <1>1, <1>3, <1>4 DEF IsInjective
<1>8. \A a, b \in 1..Len(c) : a < b => scores[c[a]] >= scores[c[b]]
  BY <1>1, <1>3, <1>4, <1>5
<1>9. ASSUME NEW i \in F \ Range(c)
      PROVE  /\ Len(c) = limit
             /\ \A a \in 1..Len(c) : scores[c[a]] >= scores[i]
  <2>1. PICK b \in 1..Len(s) : s[b] = i
    BY <1>1, <1>9 DEF Range
  <2>2. b \notin 1..m
    <3>1. SUFFICES ASSUME b \in 1..m PROVE FALSE
      OBVIOUS
    <3>2. c[b] = i /\ b \in DOMAIN c
      BY <1>3, <2>1, <3>1
    <3>3. QED
      BY <1>9, <3>2 DEF Range
  <2>3. m < b
    BY <1>2, <2>2
  <2>4. m = limit
    <3>1. m < Len(s)
      BY <1>1, <1>2, <2>1, <2>3
    <3>2. Len(s) \in Nat
      BY <1>1
    <3>3. ~(Len(s) < limit)
      BY <3>1, <3>2
    <3>4. QED
      BY <3>3
  <2>5. \A a \in 1..m : a < b /\ c[a] = s[a] /\ a \in 1..Len(s)
    BY <1>2, <1>3, <1>4, <2>3
  <2>6. QED
    BY <1>1, <1>5, <2>1, <2>4, <2>5
<1>10. QED
  BY <1>2, <1>5, <1>6, <1>7, <1>8, <1>9 DEF IsRanking

\* A ranking by scores that equal the relevance of every comic of T, and of
\* no other comic are above zero, is the reference's answer over T.
LEMMA RankingIsAnswer ==
    ASSUME NEW T \in SUBSET Comics, NEW q \in SUBSET Keywords,
           NEW limit \in Nat, NEW scores \in [Comics -> Nat], NEW s,
           IsRanking(s, scores, limit),
           \A i \in Comics :
            scores[i] = IF i \in T THEN Relevance(q, i) ELSE 0
    PROVE  IsAnswer(s, T, q, limit)
<1>1. \A i \in T : Relevance(q, i) = scores[i] /\ scores[i] \in Nat
  OBVIOUS
<1>2. Found(scores) = Relevant(T, q)
  BY <1>1 DEF Found, Relevant
<1>3. \A i \in Relevant(T, q) : i \in T
  BY DEF Relevant
<1>4. /\ s \in [1..Len(s) -> Relevant(T, q)]
      /\ Len(s) <= limit
      /\ IsInjective(s)
      /\ \A a, b \in 1..Len(s) : a < b => scores[s[a]] >= scores[s[b]]
      /\ \A i \in Relevant(T, q) \ Range(s) :
          /\ Len(s) = limit
          /\ \A a \in 1..Len(s) : scores[s[a]] >= scores[i]
  BY <1>2 DEF IsRanking
<1>5. \A a \in 1..Len(s) : s[a] \in T
  BY <1>3, <1>4
<1>6. \A a, b \in 1..Len(s) :
        a < b => Relevance(q, s[a]) >= Relevance(q, s[b])
  <2>1. \A a \in 1..Len(s) : Relevance(q, s[a]) = scores[s[a]]
    BY <1>1, <1>5
  <2>2. \A a, b \in 1..Len(s) : a < b => scores[s[a]] >= scores[s[b]]
    BY <1>4
  <2>3. QED
    BY <2>1, <2>2
<1>7. \A i \in Relevant(T, q) \ Range(s) :
        /\ Len(s) = limit
        /\ \A a \in 1..Len(s) : Relevance(q, s[a]) >= Relevance(q, i)
  <2>1. TAKE i \in Relevant(T, q) \ Range(s)
  <2>2. Len(s) = limit /\ scores[i] = Relevance(q, i)
    BY <1>1, <1>3, <1>4
  <2>3. ASSUME NEW a \in 1..Len(s)
        PROVE  Relevance(q, s[a]) >= Relevance(q, i)
    <3>1. scores[s[a]] >= scores[i]
      BY <1>4
    <3>2. scores[s[a]] = Relevance(q, s[a])
      BY <1>1, <1>5
    <3>3. QED
      BY <2>2, <3>1, <3>2
  <2>4. QED
    BY <2>2, <2>3
<1>8. QED
  BY <1>4, <1>6, <1>7 DEF IsAnswer

\* One more keyword counts once for every comic that has it.
LEMMA OneMoreKeyword ==
    ASSUME NEW S, S \subseteq Keywords, NEW k, k \notin S, NEW i \in Comics
    PROVE  /\ Cardinality(S) \in Nat
           /\ Cardinality(S \cup {k}) = Cardinality(S) + 1
           /\ Relevance(S, i) \in Nat
           /\ k \in WordsOf[i] =>
                Relevance(S \cup {k}, i) = Relevance(S, i) + 1
           /\ k \notin WordsOf[i] =>
                Relevance(S \cup {k}, i) = Relevance(S, i)
<1> DEFINE B == S \cap WordsOf[i]
<1>1. IsFiniteSet(S) /\ IsFiniteSet(B)
  BY FS_Subset, ComicsAssumption
<1>2. Cardinality(S) \in Nat /\ Cardinality(B) \in Nat
  BY <1>1, FS_CardinalityType
<1>3. /\ Cardinality(S \cup {k}) = Cardinality(S) + 1
      /\ Cardinality(B \cup {k}) = Cardinality(B) + 1
  BY <1>1, FS_AddElement
<1>4. ASSUME k \in WordsOf[i]
      PROVE  Relevance(S \cup {k}, i) = Relevance(S, i) + 1
  <2>1. (S \cup {k}) \cap WordsOf[i] = B \cup {k}
    BY <1>4
  <2>2. QED
    BY <1>3, <2>1 DEF Relevance
<1>5. ASSUME k \notin WordsOf[i]
      PROVE  Relevance(S \cup {k}, i) = Relevance(S, i)
  <2>1. (S \cup {k}) \cap WordsOf[i] = B
    BY <1>5
  <2>2. QED
    BY <2>1 DEF Relevance
<1>6. QED
  BY <1>2, <1>3, <1>4, <1>5 DEF Relevance

\* Reading the first id moves it from the ids still to read to the ids read.
LEMMA MoveHead ==
    ASSUME NEW S, NEW s \in Seq(S), NEW r \in Seq(S), s # <<>>
    PROVE  /\ Head(s) \in S /\ Tail(s) \in Seq(S)
           /\ Append(r, Head(s)) \in Seq(S)
           /\ Append(r, Head(s)) \o Tail(s) = r \o s
           /\ \E a \in 1..Len(r \o s) : (r \o s)[a] = Head(s)
<1> DEFINE h == <<Head(s)>>
<1>1. Head(s) \in S /\ Tail(s) \in Seq(S) /\ h \in Seq(S)
  BY HeadTailProperties
<1>2. Append(r, Head(s)) = r \o h /\ Append(r, Head(s)) \in Seq(S)
  BY <1>1, AppendIsConcat, AppendProperties
<1>3. s = h \o Tail(s)
  BY <1>1
<1>4. (r \o h) \o Tail(s) = r \o (h \o Tail(s))
  BY <1>1, ConcatAssociative
<1>5. Append(r, Head(s)) \o Tail(s) = r \o s
  BY <1>2, <1>3, <1>4, Zenon
<1>6. \E a \in 1..Len(r \o s) : (r \o s)[a] = Head(s)
  <2>1. Len(s) \in Nat \ {0} /\ Len(r) \in Nat
    BY EmptySeq, LenProperties
  <2>2. Len(r) + 1 \in 1..(Len(r) + Len(s))
    BY <2>1
  <2>3. Len(r \o s) = Len(r) + Len(s)
    BY ConcatProperties
  <2>4. (r \o s)[Len(r) + 1] = s[1]
    BY <2>1, <2>2, ConcatProperties
  <2>5. s[1] = Head(s)
    OBVIOUS
  <2>6. QED
    BY <2>2, <2>3, <2>4, <2>5
<1>7. QED
  BY <1>1, <1>2, <1>5, <1>6

-----------------------------------------------------------------------------
\* There is no room for the first m places in n, when n is less than m.
LEMMA NoRoom ==
    ASSUME NEW m \in Nat, NEW n \in Nat, n < m, NEW f \in [1..m -> 1..n]
    PROVE  \E a, b \in 1..m : a # b /\ f[a] = f[b]
<1>1. /\ IsFiniteSet(1..m) /\ Cardinality(1..m) = m
      /\ IsFiniteSet(1..n) /\ Cardinality(1..n) = n
  BY FS_Interval
<1>2. QED
  BY <1>1, FS_PigeonHole

\* An answer lists comics that match, and the relevance of a comic is a number.
LEMMA AnswerTypes ==
    ASSUME NEW T \in SUBSET Comics, NEW q \in SUBSET Keywords,
           NEW limit \in Nat, NEW s \in Seq(Comics), IsAnswer(s, T, q, limit)
    PROVE  /\ Len(s) \in Nat /\ DOMAIN s = 1..Len(s) /\ Len(s) <= limit
           /\ \A a \in 1..Len(s) : /\ s[a] \in Relevant(T, q)
                                   /\ Relevance(q, s[a]) \in Nat
<1>1. Len(s) \in Nat /\ DOMAIN s = 1..Len(s)
  BY LenProperties
<1>2. \A a \in 1..Len(s) : s[a] \in Relevant(T, q)
  BY DEF IsAnswer
<1>3. \A i \in T : Relevance(q, i) \in Nat
  <2>1. TAKE i \in T
  <2>2. IsFiniteSet(q \cap WordsOf[i])
    BY FS_Subset, ComicsAssumption
  <2>3. QED
    BY <2>2, FS_CardinalityType DEF Relevance
<1>4. Relevant(T, q) \subseteq T
  BY DEF Relevant
<1>5. QED
  BY <1>1, <1>2, <1>3, <1>4 DEF IsAnswer

\* The first m elements of t, which repeats none, are not all among the first
\* n of s, when n is less than m.
LEMMA NotAllAmong ==
    ASSUME NEW s, NEW t, NEW m \in Nat, NEW n \in Nat, n < m,
           IsInjective(t), 1..m \subseteq DOMAIN t,
           \A b \in 1..m : \E c \in 1..n : s[c] = t[b]
    PROVE  FALSE
<1> DEFINE f == [b \in 1..m |-> CHOOSE c \in 1..n : s[c] = t[b]]
<1>1. \A b \in 1..m : f[b] \in 1..n /\ s[f[b]] = t[b]
  OBVIOUS
<1>2. f \in [1..m -> 1..n]
  BY <1>1
<1> HIDE DEF f
<1>3. PICK a \in 1..m, b \in 1..m : a # b /\ f[a] = f[b]
  BY <1>2, NoRoom
<1>4. t[a] = t[b]
  BY <1>1, <1>3
<1>5. QED
  BY <1>3, <1>4 DEF IsInjective

\* An answer is as long as any other, and at each place as good.
LEMMA NotWorse ==
    ASSUME NEW T \in SUBSET Comics, NEW q \in SUBSET Keywords,
           NEW limit \in Nat, NEW s \in Seq(Comics), NEW t \in Seq(Comics),
           IsAnswer(s, T, q, limit), IsAnswer(t, T, q, limit)
    PROVE  /\ Len(s) >= Len(t)
           /\ \A a \in 1..Len(t) : Relevance(q, s[a]) >= Relevance(q, t[a])
<1>1. /\ Len(s) \in Nat /\ DOMAIN s = 1..Len(s) /\ Len(s) <= limit
      /\ \A a \in 1..Len(s) : Relevance(q, s[a]) \in Nat
  BY AnswerTypes
<1>2. /\ Len(t) \in Nat /\ DOMAIN t = 1..Len(t) /\ Len(t) <= limit
      /\ \A a \in 1..Len(t) : /\ t[a] \in Relevant(T, q)
                              /\ Relevance(q, t[a]) \in Nat
  BY AnswerTypes
<1>3. IsInjective(t) /\ IsInjective(s)
  BY DEF IsAnswer
<1>4. Len(s) >= Len(t)
  <2> DEFINE m == Len(t)
             n == Len(s)
  <2>1. m \in Nat /\ n \in Nat /\ m <= limit
    BY <1>1, <1>2
  <2>2. SUFFICES ASSUME n < m PROVE FALSE
    BY <2>1
  <2>3. n # limit
    <3> HIDE DEF n, m
    <3>1. QED
      BY <2>1, <2>2
  <2>4. Relevant(T, q) \subseteq Range(s)
    BY <2>3 DEF IsAnswer
  <2>5. \A b \in 1..m : \E c \in 1..n : s[c] = t[b]
    BY <1>1, <1>2, <2>4 DEF Range
  <2>6. 1..m \subseteq DOMAIN t
    BY <1>2
  <2> HIDE DEF m, n
  <2>7. QED
    BY <1>3, <2>1, <2>2, <2>5, <2>6, NotAllAmong
<1>5. ASSUME NEW a \in 1..Len(t), Relevance(q, s[a]) < Relevance(q, t[a])
      PROVE  FALSE
  <2>1. a \in Nat /\ a - 1 \in Nat /\ a - 1 < a /\ a <= Len(t)
        /\ a \in 1..Len(s)
    BY <1>1, <1>2, <1>4
  <2>2. ASSUME NEW b \in 1..a PROVE \E c \in 1..(a - 1) : s[c] = t[b]
    <3>1. b \in 1..Len(t) /\ Relevance(q, s[a]) < Relevance(q, t[b])
      <4>1. b \in 1..Len(t) /\ (b = a \/ b < a)
        BY <1>2, <2>1
      <4>2. b < a => Relevance(q, t[b]) >= Relevance(q, t[a])
        BY <4>1 DEF IsAnswer
      <4>3. QED
        BY <1>1, <1>2, <1>5, <2>1, <4>1, <4>2
    <3>2. t[b] \in Range(s)
      <4>1. SUFFICES ASSUME t[b] \notin Range(s) PROVE FALSE
        OBVIOUS
      <4>2. Relevance(q, s[a]) >= Relevance(q, t[b])
        BY <1>2, <2>1, <3>1, <4>1 DEF IsAnswer
      <4>3. QED
        BY <1>1, <1>2, <2>1, <3>1, <4>2
    <3>3. PICK c \in 1..Len(s) : s[c] = t[b]
      BY <1>1, <3>2 DEF Range
    <3>4. ~(a < c)
      <4>1. a < c => Relevance(q, s[a]) >= Relevance(q, s[c])
        BY <2>1 DEF IsAnswer
      <4>2. QED
        BY <1>1, <2>1, <3>1, <3>3, <4>1
    <3>5. c # a
      BY <1>1, <2>1, <3>1, <3>3
    <3>6. c \in 1..(a - 1)
      BY <1>1, <2>1, <3>4, <3>5
    <3>7. QED
      BY <3>3, <3>6
  <2>3. 1..a \subseteq DOMAIN t
    BY <1>2, <2>1
  <2>4. QED
    BY <1>3, <2>1, <2>2, <2>3, NotAllAmong
<1>6. \A a \in 1..Len(t) : Relevance(q, s[a]) >= Relevance(q, t[a])
  BY <1>1, <1>2, <1>4, <1>5
<1>7. QED
  BY <1>4, <1>6

\* The limit and the comics decide an answer but for ties: whatever order the
\* keys of the map come in and however the sort orders equal scores, any two
\* answers are of one length and of one relevance at each place
\* (search/core/service.go:45-56, 126-135).
THEOREM AnswersAgree ==
    ASSUME NEW T \in SUBSET Comics, NEW q \in SUBSET Keywords,
           NEW limit \in Nat, NEW s \in Seq(Comics), NEW t \in Seq(Comics),
           IsAnswer(s, T, q, limit), IsAnswer(t, T, q, limit)
    PROVE  /\ Len(s) = Len(t)
           /\ \A a \in 1..Len(s) : Relevance(q, s[a]) = Relevance(q, t[a])
<1>1. /\ Len(s) \in Nat
      /\ \A a \in 1..Len(s) : Relevance(q, s[a]) \in Nat
  BY AnswerTypes
<1>2. /\ Len(t) \in Nat
      /\ \A a \in 1..Len(t) : Relevance(q, t[a]) \in Nat
  BY AnswerTypes
<1>3. /\ Len(s) >= Len(t)
      /\ \A a \in 1..Len(t) : Relevance(q, s[a]) >= Relevance(q, t[a])
  BY NotWorse
<1>4. /\ Len(t) >= Len(s)
      /\ \A a \in 1..Len(s) : Relevance(q, t[a]) >= Relevance(q, s[a])
  BY NotWorse
<1>5. Len(s) = Len(t)
  BY <1>1, <1>2, <1>3, <1>4
<1>6. QED
  BY <1>1, <1>2, <1>3, <1>4, <1>5

=============================================================================
