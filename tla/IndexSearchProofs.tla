------------------------- MODULE IndexSearchProofs -------------------------
(***************************************************************************)
(* The safety properties of ISearch for every set of comics, keywords,     *)
(* builders and concurrent searches.                                       *)
(***************************************************************************)
EXTENDS IndexSearch, RankingTheorems

Holding(b) == bpc[b] \in {"drain", "index", "comics", "unlock"}

\* The builder that is the lock's writer is the one past its first half, it
\* writes when no reader is left, and whoever reads holds the lock.
LockInv ==
    /\ \A b \in Builders : Holding(b) <=> writer = b
    /\ \A b \in Builders :
        bpc[b] \in {"index", "comics", "unlock"} => active = {}
    /\ \A r \in Readers : Reading(r) => r \in active

\* Between the two assignments the index is already the builder's; otherwise
\* it belongs to the comics.
MapInv ==
    /\ \A b \in Builders : bpc[b] = "comics" => index = IndexOf(rows[b])
    /\ (\A b \in Builders : bpc[b] # "comics") => index = IndexOf(comics)

\* What a search has so far, at each place of the call.
ReadInv(r) ==
    /\ rpc[r] \in {"norm", "rlock"} => scores[r] = Zero
    /\ rpc[r] = "rlock" => left[r] = query[r]
    /\ rpc[r] \in {"norm", "rlock", "scan"} => result[r] = <<>>
    /\ Reading(r) => base[r] = comics
    /\ rpc[r] \in {"scan", "fetch", "done"} =>
        \A i \in Comics :
            scores[r][i] = IF i \in base[r]
                             THEN Relevance(query[r] \ left[r], i) ELSE 0
    /\ left[r] \subseteq query[r]
    /\ rpc[r] \in {"fetch", "done"} =>
        /\ left[r] = {}
        /\ IsRanking(result[r] \o sorted[r], scores[r], limit[r])
    /\ rpc[r] = "done" => sorted[r] = <<>>

IInv ==
    /\ TypeOK
    /\ LockInv
    /\ MapInv
    /\ \A r \in Readers : ReadInv(r)

-----------------------------------------------------------------------------
\* A keyword not asked for counts for no comic.
LEMMA NothingCounted ==
    ASSUME NEW i \in Comics, NEW S, S = {}
    PROVE  Relevance(S, i) = 0
<1>1. S \cap WordsOf[i] = {}
  OBVIOUS
<1>2. QED
  BY <1>1, FS_EmptySet DEF Relevance

LEMMA ZeroType == Zero \in [Comics -> Nat]
BY DEF Zero

LEMMA InitHolds == Init => IInv
<1> SUFFICES ASSUME Init PROVE IInv
  OBVIOUS
<1>1. TypeOK
  BY ZeroType, EmptySeq
  DEF Init, TypeOK, Reading, ReaderPcs, BuilderPcs, Resting, IndexOf,
      Matching
<1>2. LockInv
  BY IndexAssumption DEF Init, LockInv, Holding, Reading
<1>3. MapInv
  BY DEF Init, MapInv
<1>4. \A r \in Readers : ReadInv(r)
  BY DEF Init, ReadInv, Reading
<1>5. QED
  BY <1>1, <1>2, <1>3, <1>4 DEF IInv

-----------------------------------------------------------------------------
(* Every step keeps the invariant: one lemma per action. *)

LEMMA InsertStep ==
    ASSUME IInv, NEW i \in Comics,
           Insert(i)
    PROVE  IInv'
<1>1. TypeOK'
  BY DEF IInv, TypeOK, Reading, ReaderPcs, BuilderPcs, Resting, Insert,
     lockVars, mapVars, buildVars, callVars
<1>2. LockInv'
  BY DEF IInv, TypeOK, LockInv, Reading, Holding, Insert, lockVars, mapVars,
     buildVars, callVars
<1>3. MapInv'
  BY DEF IInv, TypeOK, MapInv, Insert, lockVars, mapVars, buildVars, callVars
<1>4. (\A x \in Readers : ReadInv(x))'
  BY DEF IInv, ReadInv, Reading, Insert, mapVars, callVars
<1>5. QED
  BY <1>1, <1>2, <1>3, <1>4 DEF IInv

LEMMA TruncateStep ==
    ASSUME IInv,
           Truncate
    PROVE  IInv'
<1>1. TypeOK'
  BY DEF IInv, TypeOK, Reading, ReaderPcs, BuilderPcs, Resting, Truncate,
     lockVars, mapVars, buildVars, callVars
<1>2. LockInv'
  BY DEF IInv, TypeOK, LockInv, Reading, Holding, Truncate, lockVars, mapVars,
     buildVars, callVars
<1>3. MapInv'
  BY DEF IInv, TypeOK, MapInv, Truncate, lockVars, mapVars, buildVars,
     callVars
<1>4. (\A x \in Readers : ReadInv(x))'
  BY DEF IInv, ReadInv, Reading, Truncate, mapVars, callVars
<1>5. QED
  BY <1>1, <1>2, <1>3, <1>4 DEF IInv

LEMMA StartStep ==
    ASSUME IInv, NEW b \in Builders,
           Start(b)
    PROVE  IInv'
<1>1. TypeOK'
  BY DEF IInv, TypeOK, Reading, ReaderPcs, BuilderPcs, Resting, Start, At,
     lockVars, mapVars, buildVars, callVars
<1>2. LockInv'
  BY DEF IInv, TypeOK, LockInv, Reading, Holding, Start, At, lockVars,
     mapVars, buildVars, callVars
<1>3. MapInv'
  BY DEF IInv, TypeOK, MapInv, Start, At, lockVars, mapVars, buildVars,
     callVars
<1>4. (\A x \in Readers : ReadInv(x))'
  BY DEF IInv, TypeOK, ReadInv, Reading, Start, At, lockVars, mapVars,
     buildVars, callVars
<1>5. QED
  BY <1>1, <1>2, <1>3, <1>4 DEF IInv

LEMMA ListOkStep ==
    ASSUME IInv, NEW b \in Builders,
           ListOk(b)
    PROVE  IInv'
<1>1. TypeOK'
  BY DEF IInv, TypeOK, Reading, ReaderPcs, BuilderPcs, Resting, ListOk, At,
     lockVars, mapVars, buildVars, callVars
<1>2. LockInv'
  BY DEF IInv, TypeOK, LockInv, Reading, Holding, ListOk, At, lockVars,
     mapVars, buildVars, callVars
<1>3. MapInv'
  BY DEF IInv, TypeOK, MapInv, ListOk, At, lockVars, mapVars, buildVars,
     callVars
<1>4. (\A x \in Readers : ReadInv(x))'
  BY DEF IInv, TypeOK, ReadInv, Reading, ListOk, At, lockVars, mapVars,
     buildVars, callVars
<1>5. QED
  BY <1>1, <1>2, <1>3, <1>4 DEF IInv

LEMMA ListFailStep ==
    ASSUME IInv, NEW b \in Builders,
           ListFail(b)
    PROVE  IInv'
<1>1. TypeOK'
  BY DEF IInv, TypeOK, Reading, ReaderPcs, BuilderPcs, Resting, ListFail, At,
     lockVars, mapVars, buildVars, callVars
<1>2. LockInv'
  BY DEF IInv, TypeOK, LockInv, Reading, Holding, ListFail, At, lockVars,
     mapVars, buildVars, callVars
<1>3. MapInv'
  BY DEF IInv, TypeOK, MapInv, ListFail, At, lockVars, mapVars, buildVars,
     callVars
<1>4. (\A x \in Readers : ReadInv(x))'
  BY DEF IInv, TypeOK, ReadInv, Reading, ListFail, At, lockVars, mapVars,
     buildVars, callVars
<1>5. QED
  BY <1>1, <1>2, <1>3, <1>4 DEF IInv

LEMMA LockAskStep ==
    ASSUME IInv, NEW b \in Builders,
           LockAsk(b)
    PROVE  IInv'
<1>1. TypeOK'
  BY DEF IInv, TypeOK, Reading, ReaderPcs, BuilderPcs, Resting, LockAsk, At,
     lockVars, mapVars, buildVars, callVars
<1>2. LockInv'
  <2>1. \A c \in Builders : ~Holding(c)
    BY IndexAssumption DEF IInv, LockInv, LockAsk
  <2>2. ASSUME NEW c \in Builders, c # b
        PROVE  bpc'[c] = bpc[c] /\ writer' # c
    BY <2>2 DEF LockAsk, At, IInv, TypeOK
  <2>3. bpc'[b] = "drain" /\ writer' = b
    BY DEF LockAsk, At, IInv, TypeOK
  <2>4. UNCHANGED <<active, rpc>>
    BY DEF LockAsk, callVars
  <2>5. QED
    BY <2>1, <2>2, <2>3, <2>4 DEF IInv, LockInv, Holding, Reading
<1>3. MapInv'
  BY DEF IInv, TypeOK, MapInv, LockAsk, At, lockVars, mapVars, buildVars,
     callVars
<1>4. (\A x \in Readers : ReadInv(x))'
  BY DEF IInv, TypeOK, ReadInv, Reading, LockAsk, At, lockVars, mapVars,
     buildVars, callVars
<1>5. QED
  BY <1>1, <1>2, <1>3, <1>4 DEF IInv

LEMMA LockedStep ==
    ASSUME IInv, NEW b \in Builders,
           Locked(b)
    PROVE  IInv'
<1>1. TypeOK'
  BY DEF IInv, TypeOK, Reading, ReaderPcs, BuilderPcs, Resting, Locked, At,
     lockVars, mapVars, buildVars, callVars
<1>2. LockInv'
  BY DEF IInv, TypeOK, LockInv, Reading, Holding, Locked, At, lockVars,
     mapVars, buildVars, callVars
<1>3. MapInv'
  BY DEF IInv, TypeOK, MapInv, Locked, At, lockVars, mapVars, buildVars,
     callVars
<1>4. (\A x \in Readers : ReadInv(x))'
  BY DEF IInv, TypeOK, ReadInv, Reading, Locked, At, lockVars, mapVars,
     buildVars, callVars
<1>5. QED
  BY <1>1, <1>2, <1>3, <1>4 DEF IInv

LEMMA SetIndexStep ==
    ASSUME IInv, NEW b \in Builders,
           SetIndex(b)
    PROVE  IInv'
<1>1. TypeOK'
  <2>1. IndexOf(rows[b]) \in [Keywords -> SUBSET Comics]
    BY DEF IndexOf, Matching, IInv, TypeOK
  <2>2. index' \in [Keywords -> SUBSET Comics]
    BY <2>1 DEF SetIndex
  <2>3. QED
    BY <2>2
    DEF IInv, TypeOK, Reading, BuilderPcs, SetIndex, At, lockVars, callVars
<1>2. LockInv'
  BY DEF IInv, TypeOK, LockInv, Reading, Holding, SetIndex, At, lockVars,
     mapVars, buildVars, callVars
<1>3. MapInv'
  <2>1. ASSUME NEW c \in Builders, c # b PROVE bpc'[c] # "comics"
    <3>1. writer = b
      BY DEF IInv, LockInv, Holding, SetIndex, At
    <3>2. ~Holding(c)
      BY <2>1, <3>1 DEF IInv, LockInv
    <3>3. bpc'[c] = bpc[c]
      BY <2>1 DEF IInv, TypeOK, SetIndex, At
    <3>4. QED
      BY <3>2, <3>3 DEF Holding
  <2>2. bpc'[b] = "comics" /\ index' = IndexOf(rows[b]) /\ rows' = rows
    BY DEF IInv, TypeOK, SetIndex, At
  <2>3. \A T : IndexOf(T)' = IndexOf(T)
    BY DEF IndexOf
  <2>4. QED
    BY <2>1, <2>2 DEF MapInv, IndexOf
<1>4. (\A x \in Readers : ReadInv(x))'
  BY DEF IInv, TypeOK, ReadInv, Reading, SetIndex, At, lockVars, mapVars,
     buildVars, callVars
<1>5. QED
  BY <1>1, <1>2, <1>3, <1>4 DEF IInv

LEMMA SetComicsStep ==
    ASSUME IInv, NEW b \in Builders,
           SetComics(b)
    PROVE  IInv'
<1>1. TypeOK'
  BY DEF IInv, TypeOK, Reading, ReaderPcs, BuilderPcs, Resting, SetComics, At,
     lockVars, mapVars, buildVars, callVars
<1>2. LockInv'
  BY DEF IInv, TypeOK, LockInv, Reading, Holding, SetComics, At, lockVars,
     mapVars, buildVars, callVars
<1>3. MapInv'
  BY DEF IInv, TypeOK, MapInv, SetComics, At, lockVars, mapVars, buildVars,
     callVars
<1>4. (\A x \in Readers : ReadInv(x))'
  <2>1. \A x \in Readers : ~Reading(x)
    BY DEF IInv, LockInv, SetComics, At
  <2>2. UNCHANGED callVars
    BY DEF SetComics
  <2>3. QED
    BY <2>1, <2>2 DEF IInv, ReadInv, Reading, callVars
<1>5. QED
  BY <1>1, <1>2, <1>3, <1>4 DEF IInv

LEMMA UnlockStep ==
    ASSUME IInv, NEW b \in Builders,
           Unlock(b)
    PROVE  IInv'
<1>1. TypeOK'
  <2>1. active = {}
    BY DEF IInv, LockInv, Unlock, At
  <2>2. /\ active' \cap parked' = {}
        /\ active' \cup parked' = active \cup parked
        /\ writer' = NoBuilder
        /\ UNCHANGED <<table, mapVars, rows, callVars>>
    BY <2>1 DEF Unlock
  <2>3. bpc' \in [Builders -> BuilderPcs]
    BY DEF IInv, TypeOK, Unlock, At, BuilderPcs
  <2>4. QED
    BY <2>2, <2>3 DEF IInv, TypeOK, Reading, mapVars, callVars
<1>2. LockInv'
  <2>1. writer = b /\ active = {}
    BY DEF IInv, LockInv, Holding, Unlock, At
  <2>2. ASSUME NEW c \in Builders, c # b
        PROVE  bpc'[c] = bpc[c] /\ ~Holding(c)
    BY <2>1, <2>2 DEF IInv, TypeOK, LockInv, Unlock, At
  <2>3. bpc'[b] = "wait" /\ writer' = NoBuilder /\ rpc' = rpc
    BY DEF IInv, TypeOK, Unlock, At, callVars
  <2>4. \A c \in Builders : ~Holding(c)' /\ writer' # c
    BY <2>2, <2>3, IndexAssumption DEF Holding
  <2>5. \A x \in Readers : ~Reading(x)'
    BY <2>1, <2>3 DEF IInv, LockInv, Reading
  <2>6. QED
    BY <2>4, <2>5 DEF LockInv, Holding
<1>3. MapInv'
  BY DEF IInv, TypeOK, MapInv, Unlock, At, lockVars, mapVars, buildVars,
     callVars
<1>4. (\A x \in Readers : ReadInv(x))'
  BY DEF IInv, TypeOK, ReadInv, Reading, Unlock, At, lockVars, mapVars,
     buildVars, callVars
<1>5. QED
  BY <1>1, <1>2, <1>3, <1>4 DEF IInv

LEMMA BeginStep ==
    ASSUME IInv, NEW r \in Readers, NEW l \in Limits,
           Begin(r, l)
    PROVE  IInv'
<1>1. TypeOK'
  <2>1. Effective(l) \in Nat
    BY IndexAssumption DEF Effective, DefaultLimit
  <2>2. /\ limit' \in [Readers -> Nat]
        /\ query' \in [Readers -> SUBSET Keywords]
        /\ left' \in [Readers -> SUBSET Keywords]
        /\ base' \in [Readers -> SUBSET Comics]
    BY <2>1 DEF IInv, TypeOK, Begin
  <2>3. /\ scores' \in [Readers -> [Comics -> Nat]]
        /\ sorted' \in [Readers -> Seq(Comics)]
        /\ result' \in [Readers -> Seq(Comics)]
    BY ZeroType, EmptySeq DEF IInv, TypeOK, Begin
  <2>4. /\ rpc' \in [Readers -> ReaderPcs]
        /\ active' \cup parked' =
            {x \in Readers : Reading(x)' \/ rpc'[x] = "rlock"}
    BY DEF IInv, TypeOK, Begin, Reading, ReaderPcs, Resting, lockVars
  <2>5. QED
    BY <2>2, <2>3, <2>4
    DEF IInv, TypeOK, Begin, lockVars, mapVars, buildVars
<1>2. LockInv'
  BY DEF IInv, TypeOK, LockInv, Reading, Holding, Begin, lockVars, mapVars,
     buildVars, callVars
<1>3. MapInv'
  BY DEF IInv, TypeOK, MapInv, Begin, lockVars, mapVars, buildVars, callVars
<1>4. (\A x \in Readers : ReadInv(x))'
  <2>1. ASSUME NEW x \in Readers, x # r PROVE ReadInv(x)'
    BY <2>1 DEF IInv, TypeOK, ReadInv, Reading, Begin, mapVars
  <2>2. /\ rpc'[r] = "norm" /\ scores'[r] = Zero /\ result'[r] = <<>>
        /\ left'[r] = {} /\ query'[r] = {}
    BY DEF IInv, TypeOK, Begin
  <2>3. ReadInv(r)'
    BY <2>2 DEF ReadInv, Reading
  <2>4. QED
    BY <2>1, <2>3
<1>5. QED
  BY <1>1, <1>2, <1>3, <1>4 DEF IInv

LEMMA NormOkStep ==
    ASSUME IInv, NEW r \in Readers, NEW q \in SUBSET Keywords,
           NormOk(r, q)
    PROVE  IInv'
<1>1. TypeOK'
  <2>1. /\ rpc[r] = "norm" /\ rpc' = [rpc EXCEPT ![r] = "rlock"]
        /\ query' = [query EXCEPT ![r] = q]
        /\ left' = [left EXCEPT ![r] = q]
    BY DEF NormOk, Goes
  <2>2. /\ query' \in [Readers -> SUBSET Keywords]
        /\ left' \in [Readers -> SUBSET Keywords]
        /\ rpc' \in [Readers -> ReaderPcs]
    BY <2>1 DEF IInv, TypeOK, ReaderPcs
  <2>3. r \notin active \cup parked
    BY <2>1 DEF IInv, TypeOK, Reading
  <2>4. /\ active' \cup parked' = (active \cup parked) \cup {r}
        /\ active' \cap parked' = {}
    BY <2>3 DEF IInv, TypeOK, NormOk
  <2>5. active' \cup parked' =
            {x \in Readers : Reading(x)' \/ rpc'[x] = "rlock"}
    BY <2>1, <2>4 DEF IInv, TypeOK, Reading
  <2>6. QED
    BY <2>2, <2>4, <2>5
    DEF IInv, TypeOK, NormOk, mapVars, buildVars
<1>2. LockInv'
  <2>1. \A c \in Builders : Holding(c)' <=> Holding(c)
    BY DEF NormOk, buildVars, Holding
  <2>2. CASE writer = NoBuilder
    <3>1. \A c \in Builders : ~Holding(c)
      BY <2>2, IndexAssumption DEF IInv, LockInv
    <3>2. \A x \in Readers : Reading(x)' => x \in active'
      BY <2>2 DEF IInv, TypeOK, LockInv, NormOk, Goes, Reading
    <3>3. QED
      BY <2>1, <3>1, <3>2, <2>2
      DEF IInv, LockInv, NormOk, Holding, buildVars
  <2>3. CASE writer # NoBuilder
    <3>1. \A x \in Readers : Reading(x)' => x \in active'
      BY <2>3 DEF IInv, TypeOK, LockInv, NormOk, Goes, Reading
    <3>2. QED
      BY <2>1, <2>3, <3>1 DEF IInv, LockInv, NormOk, Holding, buildVars
  <2>4. QED
    BY <2>2, <2>3
<1>3. MapInv'
  BY DEF IInv, TypeOK, MapInv, NormOk, Goes, lockVars, mapVars, buildVars,
     callVars
<1>4. (\A x \in Readers : ReadInv(x))'
  <2>1. ASSUME NEW x \in Readers, x # r PROVE ReadInv(x)'
    BY <2>1 DEF IInv, TypeOK, ReadInv, Reading, NormOk, Goes, mapVars
  <2>2. /\ rpc[r] = "norm" /\ rpc'[r] = "rlock"
        /\ left'[r] = q /\ query'[r] = q
        /\ scores' = scores /\ result' = result
    BY DEF IInv, TypeOK, NormOk, Goes
  <2>3. ReadInv(r)'
    BY <2>2 DEF IInv, ReadInv, Reading
  <2>4. QED
    BY <2>1, <2>3
<1>5. QED
  BY <1>1, <1>2, <1>3, <1>4 DEF IInv

LEMMA NormFailStep ==
    ASSUME IInv, NEW r \in Readers,
           NormFail(r)
    PROVE  IInv'
<1>1. TypeOK'
  BY DEF IInv, TypeOK, Reading, ReaderPcs, BuilderPcs, Resting, NormFail,
     Goes, lockVars, mapVars, buildVars, callVars
<1>2. LockInv'
  BY DEF IInv, TypeOK, LockInv, Reading, Holding, NormFail, Goes, lockVars,
     mapVars, buildVars, callVars
<1>3. MapInv'
  BY DEF IInv, TypeOK, MapInv, NormFail, Goes, lockVars, mapVars, buildVars,
     callVars
<1>4. (\A x \in Readers : ReadInv(x))'
  BY DEF IInv, TypeOK, ReadInv, Reading, NormFail, Goes, lockVars, mapVars,
     buildVars, callVars
<1>5. QED
  BY <1>1, <1>2, <1>3, <1>4 DEF IInv

LEMMA RLockedStep ==
    ASSUME IInv, NEW r \in Readers,
           RLocked(r)
    PROVE  IInv'
<1>1. TypeOK'
  BY DEF IInv, TypeOK, Reading, ReaderPcs, BuilderPcs, Resting, RLocked, Goes,
     lockVars, mapVars, buildVars, callVars
<1>2. LockInv'
  BY DEF IInv, TypeOK, LockInv, Reading, Holding, RLocked, Goes, lockVars,
     mapVars, buildVars, callVars
<1>3. MapInv'
  BY DEF IInv, TypeOK, MapInv, RLocked, Goes, lockVars, mapVars, buildVars,
     callVars
<1>4. (\A x \in Readers : ReadInv(x))'
  <2>1. ASSUME NEW x \in Readers, x # r PROVE ReadInv(x)'
    BY <2>1 DEF IInv, TypeOK, ReadInv, Reading, RLocked, Goes, mapVars
  <2>2. /\ rpc[r] = "rlock" /\ rpc'[r] = "scan" /\ base'[r] = comics
        /\ UNCHANGED <<comics, limit, query, left, scores, sorted, result>>
    BY DEF IInv, TypeOK, RLocked, Goes, mapVars
  <2>3. query[r] \ left[r] = {} /\ scores[r] = Zero /\ result[r] = <<>>
    BY <2>2 DEF IInv, ReadInv
  <2>4. \A i \in Comics :
            scores[r][i] = 0 /\ Relevance(query[r] \ left[r], i) = 0
    BY <2>3, NothingCounted DEF Zero
  <2>5. ReadInv(r)'
    BY <2>2, <2>3, <2>4 DEF IInv, ReadInv, Reading
  <2>6. QED
    BY <2>1, <2>5
<1>5. QED
  BY <1>1, <1>2, <1>3, <1>4 DEF IInv

LEMMA ScanStep ==
    ASSUME IInv, NEW r \in Readers, NEW k \in Keywords,
           Scan(r, k)
    PROVE  IInv'
<1>a. /\ rpc[r] = "scan" /\ k \in left[r] /\ left[r] \subseteq query[r]
      /\ query[r] \subseteq Keywords
      /\ left'[r] = left[r] \ {k}
      /\ scores'[r] = Count(scores[r], index[k])
      /\ scores[r] \in [Comics -> Nat]
      /\ UNCHANGED <<table, lockVars, mapVars, buildVars, rpc, limit, query,
                     sorted, result, base>>
  BY DEF IInv, TypeOK, ReadInv, Scan
<1>b. Count(scores[r], index[k]) \in [Comics -> Nat]
  BY <1>a DEF Count
<1>1. TypeOK'
  <2>1. scores' \in [Readers -> [Comics -> Nat]]
    BY <1>b DEF Scan, IInv, TypeOK
  <2>2. left' \in [Readers -> SUBSET Keywords]
    BY DEF Scan, IInv, TypeOK
  <2>3. QED
    BY <1>a, <2>1, <2>2
    DEF IInv, TypeOK, Reading, lockVars, mapVars, buildVars
<1>2. LockInv'
  BY DEF IInv, TypeOK, LockInv, Reading, Holding, Scan, lockVars, mapVars,
     buildVars, callVars
<1>3. MapInv'
  BY DEF IInv, TypeOK, MapInv, Scan, lockVars, mapVars, buildVars, callVars
<1>4. (\A x \in Readers : ReadInv(x))'
  <2>1. ASSUME NEW x \in Readers, x # r PROVE ReadInv(x)'
    BY <2>1 DEF IInv, TypeOK, ReadInv, Reading, Scan, mapVars
  <2>2. base[r] = comics /\ index = IndexOf(comics)
    <3>1. r \in active /\ base[r] = comics
      BY <1>a DEF IInv, LockInv, ReadInv, Reading
    <3>2. \A b \in Builders : bpc[b] # "comics"
      BY <3>1 DEF IInv, LockInv
    <3>3. QED
      BY <3>1, <3>2 DEF IInv, MapInv
  <2>3. /\ query[r] \ left[r] \subseteq Keywords
        /\ k \notin query[r] \ left[r]
        /\ query'[r] \ left'[r] = (query[r] \ left[r]) \cup {k}
    BY <1>a
  <2>4. ASSUME NEW i \in Comics
        PROVE  scores'[r][i] = IF i \in base[r]
                 THEN Relevance((query[r] \ left[r]) \cup {k}, i) ELSE 0
    <3>1. scores[r][i] = IF i \in base[r]
                           THEN Relevance(query[r] \ left[r], i) ELSE 0
      BY <1>a DEF IInv, ReadInv
    <3>2. scores'[r][i] = IF i \in base[r] /\ k \in WordsOf[i]
                            THEN scores[r][i] + 1 ELSE scores[r][i]
      BY <1>a, <2>2 DEF Count, IndexOf, Matching
    <3>3. /\ k \in WordsOf[i] =>
                Relevance((query[r] \ left[r]) \cup {k}, i) =
                    Relevance(query[r] \ left[r], i) + 1
          /\ k \notin WordsOf[i] =>
                Relevance((query[r] \ left[r]) \cup {k}, i) =
                    Relevance(query[r] \ left[r], i)
      <4> DEFINE S == query[r] \ left[r]
      <4>1. S \subseteq Keywords /\ k \notin S
        BY <2>3
      <4> HIDE DEF S
      <4>2. /\ k \in WordsOf[i] =>
                Relevance(S \cup {k}, i) = Relevance(S, i) + 1
            /\ k \notin WordsOf[i] =>
                Relevance(S \cup {k}, i) = Relevance(S, i)
        BY <4>1, OneMoreKeyword
      <4>3. QED
        BY <4>2 DEF S
    <3>4. CASE i \notin base[r]
      BY <3>1, <3>2, <3>4, Zenon
    <3>5. CASE i \in base[r] /\ k \in WordsOf[i]
      BY <3>1, <3>2, <3>3, <3>5, Zenon
    <3>6. CASE i \in base[r] /\ k \notin WordsOf[i]
      BY <3>1, <3>2, <3>3, <3>6, Zenon
    <3>7. QED
      BY <3>4, <3>5, <3>6
  <2>5. \A i \in Comics :
            scores'[r][i] = IF i \in base[r]
              THEN Relevance(query'[r] \ left'[r], i) ELSE 0
    BY <2>3, <2>4
  <2>6. ReadInv(r)'
    BY <1>a, <2>2, <2>5 DEF IInv, ReadInv, Reading, mapVars
  <2>7. QED
    BY <2>1, <2>6
<1>5. QED
  BY <1>1, <1>2, <1>3, <1>4 DEF IInv

LEMMA RankStep ==
    ASSUME IInv, NEW r \in Readers,
           Rank(r)
    PROVE  IInv'
<1>a. PICK s \in Sorts(scores[r]) :
            sorted' = [sorted EXCEPT ![r] = Cut(s, limit[r])]
  BY DEF Rank
<1>b. /\ Cut(s, limit[r]) \in Seq(Comics)
      /\ IsRanking(Cut(s, limit[r]), scores[r], limit[r])
  BY CutIsRanking DEF IInv, TypeOK
<1>1. TypeOK'
  <2>1. sorted' \in [Readers -> Seq(Comics)]
    BY <1>a, <1>b DEF IInv, TypeOK
  <2>2. QED
    BY <2>1
    DEF IInv, TypeOK, Reading, ReaderPcs, Rank, Goes, lockVars, mapVars,
        buildVars
<1>2. LockInv'
  BY DEF IInv, TypeOK, LockInv, Reading, Holding, Rank, Goes, lockVars,
     mapVars, buildVars, callVars
<1>3. MapInv'
  BY DEF IInv, TypeOK, MapInv, Rank, Goes, lockVars, mapVars, buildVars,
     callVars
<1>4. (\A x \in Readers : ReadInv(x))'
  <2>1. ASSUME NEW x \in Readers, x # r PROVE ReadInv(x)'
    BY <2>1 DEF IInv, TypeOK, ReadInv, Reading, Rank, Goes, mapVars
  <2>2. /\ rpc[r] = "scan" /\ rpc'[r] = "fetch" /\ left[r] = {}
        /\ sorted'[r] = Cut(s, limit[r])
        /\ UNCHANGED <<comics, limit, query, left, scores, result, base>>
    BY <1>a DEF IInv, TypeOK, Rank, Goes, mapVars
  <2>3. result[r] = <<>>
    BY <2>2 DEF IInv, ReadInv
  <2>4. result'[r] \o sorted'[r] = Cut(s, limit[r])
    BY <1>b, <2>2, <2>3, ConcatEmptySeq
  <2>5. IsRanking(result'[r] \o sorted'[r], scores'[r], limit'[r])
    BY <1>b, <2>2, <2>4
  <2>6. ReadInv(r)'
    BY <2>2, <2>5 DEF IInv, ReadInv, Reading
  <2>7. QED
    BY <2>1, <2>6
<1>5. QED
  BY <1>1, <1>2, <1>3, <1>4 DEF IInv

LEMMA FetchStep ==
    ASSUME IInv, NEW r \in Readers,
           Fetch(r)
    PROVE  IInv'
<1>1. TypeOK'
  BY DEF IInv, TypeOK, Reading, ReaderPcs, BuilderPcs, Resting, Fetch,
     lockVars, mapVars, buildVars, callVars
<1>2. LockInv'
  BY DEF IInv, TypeOK, LockInv, Reading, Holding, Fetch, lockVars, mapVars,
     buildVars, callVars
<1>3. MapInv'
  BY DEF IInv, TypeOK, MapInv, Fetch, lockVars, mapVars, buildVars, callVars
<1>4. (\A x \in Readers : ReadInv(x))'
  <2>1. ASSUME NEW x \in Readers, x # r PROVE ReadInv(x)'
    BY <2>1 DEF IInv, TypeOK, ReadInv, Reading, Fetch, mapVars
  <2>2. /\ rpc[r] = "fetch" /\ sorted[r] # <<>>
        /\ sorted[r] \in Seq(Comics) /\ result[r] \in Seq(Comics)
        /\ sorted'[r] = Tail(sorted[r])
        /\ result'[r] = IF Head(sorted[r]) \in comics
                          THEN Append(result[r], Head(sorted[r]))
                          ELSE result[r]
        /\ UNCHANGED <<comics, rpc, limit, query, left, scores, base>>
    BY DEF IInv, TypeOK, Fetch, mapVars
  <2>3. Head(sorted[r]) \in comics
    <3> DEFINE h == Head(sorted[r])
               full == result[r] \o sorted[r]
    <3>1. /\ sorted[r] \in Seq(Comics) /\ result[r] \in Seq(Comics)
          /\ sorted[r] # <<>>
      BY <2>2
    <3>2. \E a \in 1..Len(full) : full[a] = h
      BY <3>1, MoveHead, Zenon
    <3>3. full \in [1..Len(full) -> Found(scores[r])]
      BY <2>2 DEF IInv, ReadInv, IsRanking
    <3>4. h \in Found(scores[r])
      BY <3>2, <3>3
    <3>5. h \in Comics /\ scores[r][h] > 0
      BY <3>4 DEF Found
    <3>6. base[r] = comics
      BY <2>2 DEF IInv, ReadInv, Reading
    <3>7. \A i \in Comics : i \notin base[r] => scores[r][i] = 0
      BY <2>2 DEF IInv, ReadInv
    <3>8. h \in base[r]
      BY <3>5, <3>7
    <3>9. QED
      BY <3>6, <3>8
  <2>4. result'[r] \o sorted'[r] = result[r] \o sorted[r]
    <3>1. result'[r] = Append(result[r], Head(sorted[r]))
      BY <2>2, <2>3, Zenon
    <3>2. Append(result[r], Head(sorted[r])) \o Tail(sorted[r]) =
            result[r] \o sorted[r]
      <4> DEFINE t == result[r]
                 u == sorted[r]
      <4>1. t \in Seq(Comics) /\ u \in Seq(Comics) /\ u # <<>>
        BY <2>2
      <4> HIDE DEF t, u
      <4>2. Append(t, Head(u)) \o Tail(u) = t \o u
        BY <4>1, MoveHead
      <4>3. QED
        BY <4>2 DEF t, u
    <3>3. QED
      BY <2>2, <3>1, <3>2, Zenon
  <2>5. IsRanking(result'[r] \o sorted'[r], scores'[r], limit'[r])
    BY <2>2, <2>4 DEF IInv, ReadInv
  <2>6. ReadInv(r)'
    BY <2>2, <2>5 DEF IInv, ReadInv, Reading
  <2>7. QED
    BY <2>1, <2>6
<1>5. QED
  BY <1>1, <1>2, <1>3, <1>4 DEF IInv

LEMMA RUnlockStep ==
    ASSUME IInv, NEW r \in Readers,
           RUnlock(r)
    PROVE  IInv'
<1>1. TypeOK'
  <2>1. rpc' = [rpc EXCEPT ![r] = "done"] /\ rpc[r] = "fetch"
        /\ active' = active \ {r} /\ parked' = parked
    BY DEF RUnlock, Goes
  <2>2. r \in active /\ r \notin parked
    BY <2>1 DEF IInv, TypeOK, LockInv, Reading
  <2>3. active' \cup parked' =
            {x \in Readers : Reading(x)' \/ rpc'[x] = "rlock"}
    BY <2>1, <2>2 DEF IInv, TypeOK, Reading
  <2>4. rpc' \in [Readers -> ReaderPcs]
    BY <2>1 DEF IInv, TypeOK, ReaderPcs, Resting
  <2>5. active' \cap parked' = {}
    BY <2>1 DEF IInv, TypeOK
  <2>6. QED
    BY <2>3, <2>4, <2>5
    DEF IInv, TypeOK, RUnlock, mapVars, buildVars
<1>2. LockInv'
  BY DEF IInv, TypeOK, LockInv, Reading, Holding, RUnlock, Goes, lockVars,
     mapVars, buildVars, callVars
<1>3. MapInv'
  BY DEF IInv, TypeOK, MapInv, RUnlock, Goes, lockVars, mapVars, buildVars,
     callVars
<1>4. (\A x \in Readers : ReadInv(x))'
  BY DEF IInv, TypeOK, ReadInv, Reading, RUnlock, Goes, lockVars, mapVars,
     buildVars, callVars
<1>5. QED
  BY <1>1, <1>2, <1>3, <1>4 DEF IInv

LEMMA StutterStep ==
    ASSUME IInv,
           UNCHANGED vars
    PROVE  IInv'
<1>1. TypeOK'
  BY DEF IInv, TypeOK, Reading, ReaderPcs, BuilderPcs, Resting, vars,
     lockVars, mapVars, buildVars, callVars
<1>2. LockInv'
  BY DEF IInv, TypeOK, LockInv, Reading, Holding, vars, lockVars, mapVars,
     buildVars, callVars
<1>3. MapInv'
  BY DEF IInv, TypeOK, MapInv, vars, lockVars, mapVars, buildVars, callVars
<1>4. (\A x \in Readers : ReadInv(x))'
  BY DEF IInv, ReadInv, Reading, vars, mapVars, callVars
<1>5. QED
  BY <1>1, <1>2, <1>3, <1>4 DEF IInv

\* The inductive invariant.
THEOREM SearchInvariant == Spec => []IInv
<1>1. ASSUME IInv, [Next]_vars PROVE IInv'
  BY <1>1, InsertStep, TruncateStep, StartStep, ListOkStep, ListFailStep,
     LockAskStep, LockedStep, SetIndexStep, SetComicsStep, UnlockStep,
     BeginStep, NormOkStep, NormFailStep, RLockedStep, ScanStep, RankStep,
     FetchStep, RUnlockStep, StutterStep
  DEF Next, BuildStep, ReadStep
<1>2. QED
  BY <1>1, InitHolds, PTL DEF Spec

-----------------------------------------------------------------------------
(* What follows from it *)

\* The types, and that the lock knows its readers
\* (search/core/service.go:31-105).
THEOREM TypeCorrect == Spec => []TypeOK
<1>1. IInv => TypeOK
  BY DEF IInv
<1>2. QED
  BY <1>1, SearchInvariant, PTL

\* Whoever reads finds the maps of one build, from its RLock to its RUnlock
\* (search/core/service.go:40-66, 97-100).
THEOREM ReadersSeeOneBuild == Spec => []OneBuild
<1>1. ASSUME IInv, NEW r \in Readers, Reading(r)
      PROVE  base[r] = comics /\ index = IndexOf(comics)
  <2>1. r \in active /\ base[r] = comics
    BY <1>1 DEF IInv, LockInv, ReadInv
  <2>2. \A b \in Builders : bpc[b] # "comics"
    BY <1>1, <2>1 DEF IInv, LockInv
  <2>3. QED
    BY <1>1, <2>1, <2>2 DEF IInv, MapInv
<1>2. IInv => OneBuild
  BY <1>1 DEF OneBuild
<1>3. QED
  BY <1>2, SearchInvariant, PTL

\* An answer is the reference's answer over the comics of one build
\* (search/core/service.go:31-71).
THEOREM AnswersAreOfOneBuild == Spec => []AnswerOfOneBuild
<1>1. ASSUME IInv, NEW r \in Readers, rpc[r] = "done"
      PROVE  IsAnswer(result[r], base[r], query[r], limit[r])
  <2>1. /\ base[r] \in SUBSET Comics /\ query[r] \in SUBSET Keywords
        /\ limit[r] \in Nat /\ scores[r] \in [Comics -> Nat]
        /\ result[r] \in Seq(Comics)
    BY <1>1 DEF IInv, TypeOK
  <2>2. /\ left[r] = {} /\ sorted[r] = <<>>
        /\ IsRanking(result[r] \o sorted[r], scores[r], limit[r])
        /\ \A i \in Comics :
            scores[r][i] = IF i \in base[r]
                             THEN Relevance(query[r] \ left[r], i) ELSE 0
    BY <1>1 DEF IInv, ReadInv
  <2>3. /\ result[r] \o sorted[r] = result[r]
        /\ query[r] \ left[r] = query[r]
    BY <2>1, <2>2, ConcatEmptySeq
  <2>4. /\ IsRanking(result[r], scores[r], limit[r])
        /\ \A i \in Comics :
            scores[r][i] = IF i \in base[r]
                             THEN Relevance(query[r], i) ELSE 0
    BY <2>2, <2>3
  <2>5. QED
    BY <2>1, <2>4, RankingIsAnswer
<1>2. IInv => AnswerOfOneBuild
  BY <1>1 DEF AnswerOfOneBuild
<1>3. QED
  BY <1>2, SearchInvariant, PTL

-----------------------------------------------------------------------------
(* ISearch under the lock implements AtomicSearch: a build takes effect    *)
(* where it sets the comics, a search where it gives the lock back.        *)

\* A step of one reader changes what shows of that reader alone.
LEMMA OnlyReaderShows ==
    ASSUME NEW r \in Readers,
           \A s \in Readers \ {r} :
                /\ rpc'[s] = rpc[s]
                /\ query'[s] = query[s]
                /\ result'[s] = result[s]
    PROVE  /\ Calls' = [Calls EXCEPT ![r] = Calls'[r]]
           /\ Queries' = [Queries EXCEPT ![r] = Queries'[r]]
           /\ Answers' = [Answers EXCEPT ![r] = Answers'[r]]
BY DEF Calls, Queries, Answers, Shown

\* Nothing shows of what a call does between its request and its answer.
LEMMA ReaderHidden ==
    ASSUME NEW r \in Readers,
           \A s \in Readers \ {r} :
                /\ rpc'[s] = rpc[s]
                /\ query'[s] = query[s]
                /\ result'[s] = result[s],
           rpc[r] \notin Resting, rpc'[r] \notin Resting,
           UNCHANGED <<table, rows, bpc, comics, limit>>
    PROVE  UNCHANGED Atomic!vars
<1>1. Calls' = Calls /\ Queries' = Queries /\ Answers' = Answers
  BY OnlyReaderShows DEF Calls, Queries, Answers, Shown, Resting
<1>2. QED
  BY <1>1 DEF Atomic!vars, Atomic!tableVars, Atomic!callVars, Building

\* Nothing shows of what a builder does but its List and its last assignment.
LEMMA BuilderHidden ==
    ASSUME TypeOK, NEW b \in Builders, NEW from, NEW to, At(b, from, to),
           from \in {"lock", "drain", "index", "comics"}
                <=> to \in {"lock", "drain", "index", "comics"},
           UNCHANGED <<table, rows, comics, callVars>>
    PROVE  UNCHANGED Atomic!vars
<1>1. Building' = Building
  BY DEF At, Building, TypeOK
<1>2. QED
  BY <1>1 DEF Atomic!vars, Atomic!tableVars, Atomic!callVars, callVars,
              Calls, Queries, Answers, Shown

LEMMA CallsStay ==
    ASSUME UNCHANGED callVars
    PROVE  UNCHANGED <<Calls, Queries, Answers, limit>>
BY DEF callVars, Calls, Queries, Answers, Shown

\* At its RUnlock a call has the answer that the comics of the index have
\* then.
LEMMA AnswerIsCurrent ==
    ASSUME IInv, NEW r \in Readers, RUnlock(r)
    PROVE  IsAnswer(result[r], comics, query[r], limit[r])
<1>1. rpc[r] = "fetch" /\ sorted[r] = <<>>
  BY DEF RUnlock, Goes
<1>2. /\ comics \in SUBSET Comics /\ query[r] \in SUBSET Keywords
      /\ limit[r] \in Nat /\ scores[r] \in [Comics -> Nat]
      /\ result[r] \in Seq(Comics)
  BY DEF IInv, TypeOK
<1>3. /\ left[r] = {} /\ base[r] = comics
      /\ IsRanking(result[r] \o sorted[r], scores[r], limit[r])
      /\ \A i \in Comics :
          scores[r][i] = IF i \in base[r]
                           THEN Relevance(query[r] \ left[r], i) ELSE 0
  BY <1>1 DEF IInv, ReadInv, Reading
<1>4. /\ result[r] \o sorted[r] = result[r]
      /\ query[r] \ left[r] = query[r]
  BY <1>1, <1>2, <1>3, ConcatEmptySeq
<1>5. /\ IsRanking(result[r], scores[r], limit[r])
      /\ \A i \in Comics :
          scores[r][i] = IF i \in comics
                           THEN Relevance(query[r], i) ELSE 0
  BY <1>3, <1>4
<1>6. QED
  BY <1>2, <1>5, RankingIsAnswer

\* The reference of AtomicSearch is that of Ranking.
LEMMA SameReference ==
    ASSUME NEW s, NEW T, NEW q, NEW n
    PROVE  Atomic!IsAnswer(s, T, q, n) <=> IsAnswer(s, T, q, n)
BY DEF IsAnswer, Atomic!IsAnswer, Relevant, Atomic!Relevant,
       Relevance, Atomic!Relevance, IsInjective, Atomic!IsInjective,
       Range, Atomic!Range, Cardinality, Atomic!Cardinality

\* Each search reads as if at the instant it is answered, each build is
\* installed as a whole (search/core/service.go:40-66, 97-100).
THEOREM SearchesAreAtomic == Spec => AnswersAtOnce
<1>1. Init => Atomic!Init
  BY DEF Init, Atomic!Init, Building, Calls, Queries, Answers, Shown, Resting
<1>2. ASSUME IInv, [Next]_vars PROVE [Atomic!Next]_(Atomic!vars)
  <2>0. TypeOK
    BY <1>2 DEF IInv
  <2>1. ASSUME (\E i \in Comics : Insert(i)) \/ Truncate PROVE Atomic!Change
    <3>1. table' = {} \/ \E i \in Comics \ table : table' = table \cup {i}
      BY <2>1 DEF Insert, Truncate
    <3>2. UNCHANGED <<rows, bpc, comics, callVars>>
      BY <2>1 DEF Insert, Truncate, mapVars, buildVars
    <3>3. QED
      BY <3>1, <3>2, CallsStay DEF Atomic!Change, Atomic!callVars, Building
  <2>2. ASSUME NEW b \in Builders,
               Start(b) \/ ListFail(b) \/ LockAsk(b) \/ Locked(b)
                \/ SetIndex(b) \/ Unlock(b)
        PROVE  UNCHANGED Atomic!vars
    BY <2>0, <2>2, BuilderHidden
    DEF Start, ListFail, LockAsk, Locked, SetIndex, Unlock, mapVars
  <2>3. ASSUME NEW b \in Builders, ListOk(b) PROVE Atomic!List(b)
    <3>1. b \notin Building /\ Building' = Building \cup {b}
      BY <2>0, <2>3 DEF ListOk, At, Building, TypeOK
    <3>2. QED
      BY <2>3, <3>1, CallsStay
      DEF ListOk, mapVars, Atomic!List, Atomic!callVars
  <2>4. ASSUME NEW b \in Builders, SetComics(b) PROVE Atomic!Replace(b)
    <3>1. b \in Building /\ Building' = Building \ {b}
      BY <2>0, <2>4 DEF SetComics, At, Building, TypeOK
    <3>2. QED
      BY <2>4, <3>1, CallsStay
      DEF SetComics, Atomic!Replace, Atomic!callVars
  <2>5. ASSUME NEW r \in Readers, NEW l \in Limits, Begin(r, l)
        PROVE  Atomic!Ask(r, l)
    <3>1. /\ \A s \in Readers \ {r} :
                /\ rpc'[s] = rpc[s]
                /\ query'[s] = query[s]
                /\ result'[s] = result[s]
          /\ rpc[r] \in Resting /\ rpc'[r] = "norm"
      BY <2>0, <2>5 DEF Begin, TypeOK
    <3>2. /\ Calls[r] # "asked" /\ Calls'[r] = "asked"
          /\ Queries'[r] = {} /\ Answers'[r] = <<>>
      BY <3>1 DEF Calls, Queries, Answers, Shown, Resting
    <3>3. UNCHANGED <<table, rows, bpc, comics>>
          /\ limit' = [limit EXCEPT ![r] = Effective(l)]
      BY <2>5 DEF Begin, mapVars, buildVars
    <3>4. QED
      BY <3>1, <3>2, <3>3, OnlyReaderShows
      DEF Atomic!Ask, Atomic!tableVars, Atomic!Effective, Effective,
          Atomic!DefaultLimit, DefaultLimit, Building
  <2>6. ASSUME NEW r \in Readers, NormFail(r) PROVE Atomic!Fail(r)
    <3>1. /\ \A s \in Readers \ {r} :
                /\ rpc'[s] = rpc[s]
                /\ query'[s] = query[s]
                /\ result'[s] = result[s]
          /\ rpc[r] = "norm" /\ rpc'[r] = "failed"
      BY <2>0, <2>6 DEF NormFail, Goes, TypeOK
    <3>2. /\ Calls[r] = "asked" /\ Calls'[r] = "failed"
          /\ Queries'[r] = Queries[r] /\ Answers'[r] = Answers[r]
      BY <3>1 DEF Calls, Queries, Answers, Shown, Resting
    <3>3. UNCHANGED <<table, rows, bpc, comics, limit>>
      BY <2>6 DEF NormFail, mapVars, buildVars
    <3>4. Queries' = Queries /\ Answers' = Answers
      BY <3>1, <3>2, OnlyReaderShows DEF Queries, Answers
    <3>5. QED
      BY <3>1, <3>2, <3>3, <3>4, OnlyReaderShows
      DEF Atomic!Fail, Atomic!tableVars, Building
  <2>7. ASSUME NEW r \in Readers,
               (\E q \in SUBSET Keywords : NormOk(r, q)) \/ RLocked(r)
                \/ (\E k \in Keywords : Scan(r, k)) \/ Rank(r) \/ Fetch(r)
        PROVE  UNCHANGED Atomic!vars
    <3>1. \A s \in Readers \ {r} :
            /\ rpc'[s] = rpc[s]
            /\ query'[s] = query[s]
            /\ result'[s] = result[s]
      BY <2>0, <2>7 DEF NormOk, RLocked, Scan, Rank, Fetch, Goes, TypeOK
    <3>2. rpc[r] \notin Resting /\ rpc'[r] \notin Resting
      BY <2>0, <2>7
      DEF NormOk, RLocked, Scan, Rank, Fetch, Goes, TypeOK, Resting
    <3>3. UNCHANGED <<table, rows, bpc, comics, limit>>
      BY <2>7 DEF NormOk, RLocked, Scan, Rank, Fetch, mapVars, buildVars
    <3>4. QED
      BY <3>1, <3>2, <3>3, ReaderHidden
  <2>8. ASSUME NEW r \in Readers, RUnlock(r)
        PROVE  Atomic!Answer(r, query[r]) /\ query[r] \in SUBSET Keywords
    <3>1. /\ \A s \in Readers \ {r} :
                /\ rpc'[s] = rpc[s]
                /\ query'[s] = query[s]
                /\ result'[s] = result[s]
          /\ rpc[r] = "fetch" /\ rpc'[r] = "done"
          /\ query'[r] = query[r] /\ result'[r] = result[r]
      BY <2>0, <2>8 DEF RUnlock, Goes, TypeOK
    <3>2. /\ Calls[r] = "asked" /\ Calls'[r] = "answered"
          /\ Queries'[r] = query[r] /\ Answers'[r] = result[r]
      BY <3>1 DEF Calls, Queries, Answers, Shown, Resting
    <3>3. UNCHANGED <<table, rows, bpc, comics, limit>>
      BY <2>8 DEF RUnlock, mapVars, buildVars
    <3>4. IsAnswer(result[r], comics, query[r], limit[r])
      BY <1>2, <2>8, AnswerIsCurrent
    <3>5. Atomic!IsAnswer(Answers'[r], comics, query[r], limit[r])
      BY <3>2, <3>4, SameReference
    <3>6. query[r] \in SUBSET Keywords
      BY <2>0 DEF TypeOK
    <3>7. QED
      BY <3>1, <3>2, <3>3, <3>5, <3>6, OnlyReaderShows
      DEF Atomic!Answer, Atomic!tableVars, Building
  <2>9. CASE UNCHANGED vars
    BY <2>9, CallsStay
    DEF vars, mapVars, buildVars, Atomic!vars, Atomic!tableVars,
        Atomic!callVars, Building
  <2>10. QED
    BY <1>2, <2>1, <2>2, <2>3, <2>4, <2>5, <2>6, <2>7, <2>8, <2>9
    DEF Next, BuildStep, ReadStep, Atomic!Next
<1>3. QED
  BY <1>1, <1>2, SearchInvariant, PTL DEF Spec, AnswersAtOnce, Atomic!Spec

-----------------------------------------------------------------------------
(* Why neither builds nor searches wait for ever: who waits for the lock   *)
(* waits for those that hold it now, these run, and each of their steps    *)
(* brings them nearer to giving it back.                                   *)

\* A search that waits for the lock waits for a writer, a writer that waits
\* waits for searches, and a search that holds the lock waits for nothing.
WaitersWaitForRunners ==
    /\ parked # {} => \E b \in Builders : writer = b /\ Holding(b)
    /\ \A r \in parked : rpc[r] = "rlock"
    /\ \A b \in Builders : bpc[b] = "drain" =>
        \A r \in active : rpc[r] \in {"rlock", "scan", "fetch"}

\* While a builder has or waits for the lock no search comes to hold it, and
\* a search that waits for it waits for one builder only.
NobodyOvertakes ==
    [][/\ \A b \in Builders :
            writer = b /\ writer' = b => active' \subseteq active
       /\ parked \cap parked' # {} => writer' = writer]_vars

\* The steps that a search which asked for the lock still takes, at most.
ReadLeft(r) ==
    CASE rpc[r] = "rlock" -> Cardinality(Keywords) + Cardinality(Comics) + 3
      [] rpc[r] = "scan"  -> Cardinality(left[r]) + Cardinality(Comics) + 2
      [] rpc[r] = "fetch" -> Len(sorted[r]) + 1
      [] OTHER -> 0

\* Those of a builder from its Lock.
BuildLeft(b) ==
    CASE bpc[b] = "drain"  -> 4
      [] bpc[b] = "index"  -> 3
      [] bpc[b] = "comics" -> 2
      [] bpc[b] = "unlock" -> 1
      [] OTHER -> 0

HoldersAdvance ==
    [][/\ \A r \in active :
            IF ReadStep(r) THEN ReadLeft(r)' < ReadLeft(r)
                           ELSE ReadLeft(r)' = ReadLeft(r)
       /\ \A b \in Builders : Holding(b) =>
            IF BuildStep(b) THEN BuildLeft(b)' < BuildLeft(b)
                            ELSE BuildLeft(b)' = BuildLeft(b)]_vars

\* Only a writer makes a search wait.
Kept == parked # {} => writer # NoBuilder

LEMMA KeptByWriter == Spec => []Kept
<1>1. Init => Kept
  BY DEF Init, Kept
<1>2. ASSUME IInv, Kept, [Next]_vars PROVE Kept'
  <2>1. ASSUME NEW b \in Builders, LockAsk(b) PROVE Kept'
    BY <2>1, IndexAssumption DEF LockAsk, Kept
  <2>2. ASSUME NEW b \in Builders, Unlock(b) PROVE Kept'
    BY <2>2 DEF Unlock, Kept
  <2>3. ASSUME NEW r \in Readers, NEW q \in SUBSET Keywords, NormOk(r, q)
        PROVE  Kept'
    BY <1>2, <2>3 DEF NormOk, Kept
  <2>4. CASE UNCHANGED <<writer, parked>>
    BY <1>2, <2>4 DEF Kept
  <2>5. QED
    BY <1>2, <2>1, <2>2, <2>3, <2>4
    DEF Next, Insert, Truncate, BuildStep, Start, ListOk, ListFail, Locked,
        SetIndex, SetComics, ReadStep, Begin, NormFail, RLocked, Scan, Rank,
        Fetch, RUnlock, lockVars, vars
<1>3. QED
  BY <1>1, <1>2, SearchInvariant, PTL DEF Spec

\* Nobody waits for somebody who waits for him
\* (search/core/service.go:40, 66, 97, 100).
THEOREM LockNeverDeadlocks == Spec => []WaitersWaitForRunners
<1>1. ASSUME IInv, Kept PROVE WaitersWaitForRunners
  <2>1. ASSUME parked # {} PROVE \E b \in Builders : writer = b /\ Holding(b)
    BY <1>1, <2>1 DEF Kept, IInv, TypeOK, LockInv
  <2>2. ASSUME NEW r \in parked PROVE rpc[r] = "rlock"
    BY <1>1, <2>2 DEF IInv, TypeOK, LockInv
  <2>3. ASSUME NEW r \in active PROVE rpc[r] \in {"rlock", "scan", "fetch"}
    BY <1>1, <2>3 DEF IInv, TypeOK, Reading
  <2>4. QED
    BY <2>1, <2>2, <2>3 DEF WaitersWaitForRunners
<1>2. QED
  BY <1>1, SearchInvariant, KeptByWriter, PTL

\* New searches do not keep a builder from the lock, nor new builders a
\* search: the safety half of BuildSwaps and SearchAnswers
\* (search/core/service.go:40, 97).
THEOREM LockIsFair == Spec => NobodyOvertakes
<1> DEFINE Fair ==
            /\ \A b \in Builders :
                writer = b /\ writer' = b => active' \subseteq active
            /\ parked \cap parked' # {} => writer' = writer
<1>1. ASSUME IInv, Kept, [Next]_vars PROVE Fair
  <2>1. ASSUME NEW b \in Builders, LockAsk(b) PROVE Fair
    BY <1>1, <2>1, IndexAssumption DEF LockAsk, Kept
  <2>2. ASSUME NEW b \in Builders, Unlock(b) PROVE Fair
    BY <1>1, <2>2, IndexAssumption DEF Unlock, Kept
  <2>3. ASSUME NEW r \in Readers, NEW q \in SUBSET Keywords, NormOk(r, q)
        PROVE  Fair
    BY <1>1, <2>3, IndexAssumption DEF NormOk, Kept
  <2>4. ASSUME NEW r \in Readers, RUnlock(r) PROVE Fair
    BY <2>4 DEF RUnlock
  <2>5. CASE UNCHANGED lockVars
    BY <2>5 DEF lockVars
  <2>6. QED
    BY <1>1, <2>1, <2>2, <2>3, <2>4, <2>5
    DEF Next, Insert, Truncate, BuildStep, Start, ListOk, ListFail, Locked,
        SetIndex, SetComics, ReadStep, Begin, NormFail, RLocked, Scan, Rank,
        Fetch, vars
<1>2. [][Fair]_vars <=> NobodyOvertakes
  BY PTL DEF NobodyOvertakes
<1>3. QED
  BY <1>1, <1>2, SearchInvariant, KeptByWriter, PTL DEF Spec

\* The sort has a place for every comic at most.
LEMMA CutIsShort ==
    ASSUME NEW f \in [Comics -> Nat], NEW s \in Sorts(f), NEW n \in Nat
    PROVE  Len(Cut(s, n)) \in 0..Cardinality(Comics)
<1> DEFINE F == Found(f)
<1>1. F \in SUBSET Comics /\ IsFiniteSet(F)
  BY FoundFinite
<1>2. Cardinality(F) \in Nat /\ Cardinality(F) <= Cardinality(Comics)
  BY <1>1, FS_Subset, FS_CardinalityType, ComicsAssumption
<1>3. DOMAIN s = 1..Cardinality(F)
  BY DEF Sorts, Bijection, Injection, Surjection
<1>4. s \in Seq(F) /\ Len(s) \in Nat /\ DOMAIN s = 1..Len(s)
  BY SortFacts
<1>5. Len(s) = Cardinality(F)
  BY <1>2, <1>3, <1>4
<1>6. Len(Cut(s, n)) = IF Len(s) < n THEN Len(s) ELSE n
  BY <1>4 DEF Cut
<1>7. QED
  BY <1>2, <1>5, <1>6, FS_CardinalityType, ComicsAssumption

\* Counting a keyword leaves fewer to count.
LEMMA FewerLeft ==
    ASSUME NEW L \in SUBSET Keywords
    PROVE  /\ Cardinality(L) \in 0..Cardinality(Keywords)
           /\ Cardinality(Keywords) \in Nat /\ Cardinality(Comics) \in Nat
           /\ \A k \in L : Cardinality(L \ {k}) = Cardinality(L) - 1
<1>1. IsFiniteSet(L) /\ Cardinality(L) <= Cardinality(Keywords)
  BY FS_Subset, ComicsAssumption
<1>2. QED
  BY <1>1, FS_CardinalityType, FS_RemoveElement, ComicsAssumption

\* A search that holds the lock, and a builder from its Lock, take finitely
\* many steps, and nobody adds to them (search/core/service.go:40-66,
\* 97-100).
THEOREM LockIsGivenBack == Spec => HoldersAdvance
<1> DEFINE Advance ==
            /\ \A r \in active :
                IF ReadStep(r) THEN ReadLeft(r)' < ReadLeft(r)
                               ELSE ReadLeft(r)' = ReadLeft(r)
            /\ \A b \in Builders : Holding(b) =>
                IF BuildStep(b) THEN BuildLeft(b)' < BuildLeft(b)
                                ELSE BuildLeft(b)' = BuildLeft(b)
<1>1. ASSUME IInv, NEW r \in active, [Next]_vars
      PROVE  IF ReadStep(r) THEN ReadLeft(r)' < ReadLeft(r)
                            ELSE ReadLeft(r)' = ReadLeft(r)
  <2>1. r \in Readers /\ rpc[r] \in {"rlock", "scan", "fetch"}
    BY <1>1 DEF IInv, TypeOK, Reading
  <2>2. /\ left[r] \in SUBSET Keywords
        /\ Cardinality(left[r]) \in 0..Cardinality(Keywords)
        /\ Cardinality(Keywords) \in Nat /\ Cardinality(Comics) \in Nat
        /\ \A k \in left[r] :
            Cardinality(left[r] \ {k}) = Cardinality(left[r]) - 1
    BY <1>1, <2>1, FewerLeft DEF IInv, TypeOK
  <2>3. sorted[r] \in Seq(Comics) /\ Len(sorted[r]) \in Nat
    BY <1>1, <2>1 DEF IInv, TypeOK
  <2>4. ASSUME RLocked(r) PROVE ReadLeft(r)' < ReadLeft(r)
    <3>1. rpc[r] = "rlock" /\ rpc'[r] = "scan" /\ left'[r] = left[r]
      BY <1>1, <2>1, <2>4 DEF RLocked, Goes, IInv, TypeOK
    <3>2. QED
      BY <2>2, <3>1 DEF ReadLeft
  <2>5. ASSUME NEW k \in Keywords, Scan(r, k)
        PROVE  ReadLeft(r)' < ReadLeft(r)
    <3>1. /\ rpc[r] = "scan" /\ rpc'[r] = "scan"
          /\ k \in left[r] /\ left'[r] = left[r] \ {k}
      BY <1>1, <2>1, <2>5 DEF Scan, IInv, TypeOK
    <3>2. QED
      BY <2>2, <3>1 DEF ReadLeft
  <2>6. ASSUME Rank(r) PROVE ReadLeft(r)' < ReadLeft(r)
    <3>1. rpc[r] = "scan" /\ rpc'[r] = "fetch"
      BY <1>1, <2>1, <2>6 DEF Rank, Goes, IInv, TypeOK
    <3>2. PICK s \in Sorts(scores[r]) : sorted'[r] = Cut(s, limit[r])
      BY <1>1, <2>1, <2>6 DEF Rank, IInv, TypeOK
    <3>3. Len(sorted'[r]) \in 0..Cardinality(Comics)
      BY <1>1, <2>1, <3>2, CutIsShort DEF IInv, TypeOK
    <3>4. QED
      BY <2>2, <3>1, <3>3 DEF ReadLeft
  <2>7. ASSUME Fetch(r) PROVE ReadLeft(r)' < ReadLeft(r)
    <3>1. /\ rpc[r] = "fetch" /\ rpc'[r] = "fetch"
          /\ sorted[r] # <<>> /\ sorted'[r] = Tail(sorted[r])
      BY <1>1, <2>1, <2>7 DEF Fetch, IInv, TypeOK
    <3>2. Len(sorted'[r]) = Len(sorted[r]) - 1
      BY <2>3, <3>1
    <3>3. QED
      BY <2>3, <3>1, <3>2 DEF ReadLeft
  <2>8. ASSUME RUnlock(r) PROVE ReadLeft(r)' < ReadLeft(r)
    <3>1. rpc[r] = "fetch" /\ rpc'[r] = "done"
      BY <1>1, <2>1, <2>8 DEF RUnlock, Goes, IInv, TypeOK
    <3>2. QED
      BY <2>3, <3>1 DEF ReadLeft
  <2>9. ReadStep(r) => ReadLeft(r)' < ReadLeft(r)
    BY <2>4, <2>5, <2>6, <2>7, <2>8 DEF ReadStep
  <2>10. ASSUME NEW q \in Readers, q # r, ReadStep(q)
         PROVE  UNCHANGED <<rpc[r], left[r], sorted[r]>>
    BY <1>1, <2>1, <2>10
    DEF ReadStep, RLocked, Scan, Rank, Fetch, RUnlock, Goes, IInv, TypeOK
  <2>11. ASSUME NEW q \in Readers,
                (\E l \in Limits : Begin(q, l)) \/ NormFail(q)
                 \/ (\E x \in SUBSET Keywords : NormOk(q, x))
         PROVE  UNCHANGED <<rpc[r], left[r], sorted[r]>>
    <3>1. q # r
      BY <2>1, <2>11 DEF Begin, NormFail, NormOk, Goes, Resting
    <3>2. QED
      BY <1>1, <2>1, <2>11, <3>1
      DEF Begin, NormFail, NormOk, Goes, IInv, TypeOK
  <2>12. UNCHANGED callVars => UNCHANGED <<rpc[r], left[r], sorted[r]>>
    BY DEF callVars
  <2>13. ASSUME UNCHANGED <<rpc[r], left[r], sorted[r]>>
         PROVE  ReadLeft(r)' = ReadLeft(r)
    BY <2>13 DEF ReadLeft
  <2>14. ReadStep(r) \/ UNCHANGED <<rpc[r], left[r], sorted[r]>>
    BY <1>1, <2>10, <2>11, <2>12
    DEF Next, Insert, Truncate, BuildStep, Start, ListOk, ListFail, LockAsk,
        Locked, SetIndex, SetComics, Unlock, callVars, vars
  <2>15. QED
    BY <2>9, <2>13, <2>14
<1>2. ASSUME IInv, NEW b \in Builders, Holding(b), [Next]_vars
      PROVE  IF BuildStep(b) THEN BuildLeft(b)' < BuildLeft(b)
                             ELSE BuildLeft(b)' = BuildLeft(b)
  <2>1. ASSUME BuildStep(b) PROVE BuildLeft(b)' < BuildLeft(b)
    BY <1>2, <2>1
    DEF BuildStep, ListOk, ListFail, LockAsk, Locked, SetIndex, SetComics,
        Unlock, At, BuildLeft, Holding, IInv, TypeOK
  <2>2. ASSUME NEW c \in Builders, c # b, Start(c) \/ BuildStep(c)
        PROVE  bpc'[b] = bpc[b]
    BY <1>2, <2>2
    DEF Start, BuildStep, ListOk, ListFail, LockAsk, Locked, SetIndex,
        SetComics, Unlock, At, IInv, TypeOK
  <2>3. ~Start(b)
    BY <1>2 DEF Start, At, Holding
  <2>4. BuildStep(b) \/ bpc'[b] = bpc[b]
    BY <1>2, <2>2, <2>3
    DEF Next, Insert, Truncate, ReadStep, Begin, NormOk, NormFail, RLocked,
        Scan, Rank, Fetch, RUnlock, buildVars, vars
  <2>5. bpc'[b] = bpc[b] => BuildLeft(b)' = BuildLeft(b)
    BY DEF BuildLeft
  <2>6. QED
    BY <2>1, <2>4, <2>5
<1>3. IInv /\ [Next]_vars => Advance
  BY <1>1, <1>2
<1>4. [][Advance]_vars <=> HoldersAdvance
  BY PTL DEF HoldersAdvance
<1>5. QED
  BY <1>3, <1>4, SearchInvariant, PTL DEF Spec

=============================================================================
