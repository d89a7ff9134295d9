------------------------- MODULE AdminSessionProofs ------------------------
(***************************************************************************)
(* The safety properties of AdminSession, for every set of pollers, life   *)
(* of a token and bound.                                                   *)
(***************************************************************************)
EXTENDS AdminSession, FiniteSetTheorems, TLAPS

\* Every token in use was signed, and the last one signed is the youngest.
KnownInv ==
    /\ issued <= clock + TTL
    /\ cookie <= issued
    /\ \A e \in Elements :
        token[e] <= issued /\ \A c \in draft[e].cookies : c <= issued

\* The session is ended by an answer and for an expired token only.
EndsInv ==
    \A e \in Elements :
        Ends(draft[e]) => pc[e] = "reply" /\ token[e] <= clock

\* A command that goes on without an error has been done, or found another.
FateInv ==
    \A e \in {"update", "drop"} :
        /\ ~draft[e].err
        /\ pc[e] \in Reads \/ (pc[e] = "reply" /\ draft[e].page = "panel")
        => fate[e] \in {"done", "busy"}

Inv == TypeOK /\ KnownInv /\ EndsInv /\ FateInv

\* The part of Inv that is about one element e, whose state is given.
ElementOK(e, p, t, d, f, j, i, c) ==
    /\ p \in Places
    /\ t \in {None} \cup Tokens
    /\ d \in Drafts
    /\ f \in {"none", "busy", "done"}
    /\ p = "job" <=> j = e
    /\ t <= i /\ \A k \in d.cookies : k <= i
    /\ Ends(d) => p = "reply" /\ t <= c
    /\ e \in {"update", "drop"} /\ ~d.err
            /\ (p \in Reads \/ (p = "reply" /\ d.page = "panel"))
        => f \in {"done", "busy"}

Scalars ==
    /\ clock \in 0..MaxClock /\ cookie \in {None} \cup Tokens
    /\ page \in Pages /\ job \in Jobs
    /\ stray \in 0..MaxStray
    /\ issued \in {None} \cup Tokens
    /\ issued <= clock + TTL
    /\ cookie <= issued

Shapes ==
    /\ pc \in [Elements -> Places]
    /\ token \in [Elements -> {None} \cup Tokens]
    /\ draft \in [Elements -> Drafts]
    /\ fate \in [Elements -> {"none", "busy", "done"}]

StateOf(e) ==
    ElementOK(e, pc[e], token[e], draft[e], fate[e], job, issued, clock)

Everyone == \A e \in Elements : StateOf(e)

\* Inv is a fact of the whole and one of each element.
LEMMA ByElement == Inv <=> Scalars /\ Shapes /\ Everyone
<1>1. {"update", "drop"} \subseteq Elements
  BY DEF Elements
<1>2. ASSUME Inv PROVE Scalars /\ Shapes
  BY <1>2 DEF Inv, TypeOK, KnownInv, Scalars, Shapes
<1>3. ASSUME Inv, NEW e \in Elements PROVE StateOf(e)
  BY <1>3 DEF Inv, TypeOK, KnownInv, EndsInv, FateInv, StateOf, ElementOK
<1>4. ASSUME Scalars, Shapes, \A e \in Elements : StateOf(e) PROVE Inv
  <2>1. TypeOK
    BY <1>4 DEF Scalars, Shapes, StateOf, ElementOK, TypeOK
  <2>2. KnownInv
    BY <1>4 DEF Scalars, StateOf, ElementOK, KnownInv
  <2>3. EndsInv
    BY <1>4 DEF StateOf, ElementOK, EndsInv
  <2>4. FateInv
    BY <1>1, <1>4 DEF StateOf, ElementOK, FateInv
  <2>5. QED
    BY <2>1, <2>2, <2>3, <2>4 DEF Inv
<1>5. QED
  BY <1>2, <1>3, <1>4 DEF Everyone

\* The same of the state after a step.
LEMMA ByElementNext == Inv' <=> Scalars' /\ Shapes' /\ Everyone'
  BY ByElement, PTL

\* What is left to show of a step that changes the state of one element.
LEMMA OneElement ==
    ASSUME Inv, Scalars', NEW e \in Elements,
           NEW p, NEW t, NEW d, NEW f,
           pc' = [pc EXCEPT ![e] = p], token' = [token EXCEPT ![e] = t],
           draft' = [draft EXCEPT ![e] = d], fate' = [fate EXCEPT ![e] = f],
           issued <= issued', clock' = clock,
           \A x \in Elements \ {e} : job' = x <=> job = x,
           ElementOK(e, p, t, d, f, job', issued', clock)
    PROVE  Inv'
<1>1. Scalars /\ Shapes /\ \A x \in Elements : StateOf(x)
  BY ByElement DEF Everyone
<1>2. Shapes'
  BY <1>1 DEF Shapes, ElementOK
<1>3. ASSUME NEW x \in Elements PROVE StateOf(x)'
  <2>1. CASE x = e
    BY <1>1, <2>1 DEF Shapes, StateOf
  <2>2. CASE x # e
    <3>1. /\ pc'[x] = pc[x] /\ token'[x] = token[x] /\ draft'[x] = draft[x]
          /\ fate'[x] = fate[x] /\ (job' = x <=> job = x)
      BY <1>1, <2>2 DEF Shapes
    <3>2. \A k \in draft[x].cookies : k <= issued'
      <4>1. draft[x].cookies \subseteq {None} \cup Tokens
        BY <1>1 DEF Shapes, Drafts
      <4>2. issued \in Nat /\ issued' \in Nat
        BY <1>1, TTLAssumption, BoundsAssumption DEF Scalars, Tokens, None
      <4>3. \A k \in draft[x].cookies : k <= issued
        BY <1>1 DEF StateOf, ElementOK
      <4>4. QED
        BY <4>1, <4>2, <4>3, TTLAssumption, BoundsAssumption DEF Tokens, None
    <3>3. token[x] <= issued'
      BY <1>1, TTLAssumption, BoundsAssumption
      DEF Shapes, Scalars, Tokens, None, StateOf, ElementOK
    <3>4. StateOf(x)
      BY <1>1
    <3>5. QED
      BY <3>1, <3>2, <3>3, <3>4 DEF StateOf, ElementOK
  <2>3. QED
    BY <2>1, <2>2
<1>4. QED
  BY <1>2, <1>3, ByElementNext DEF Everyone

\* A function is itself with any of its values put in its place.
LEMMA SameAt ==
    ASSUME NEW S, NEW T, NEW g \in [S -> T], NEW e \in S
    PROVE  g = [g EXCEPT ![e] = g[e]]
  OBVIOUS

\* The drafts that the handlers make of a draft d.
LEMMA DraftFields ==
    /\ Blank \in Drafts /\ ~Ends(Blank) /\ Blank.cookies = {}
    /\ ToLogin \in Drafts /\ ToLogin.cookies = {}
    /\ ToLogin.page = "redirect"
    /\ \A d \in Drafts :
        /\ [d EXCEPT !.err = TRUE] \in Drafts
        /\ \A q \in {"login", "panel", "same"} :
            /\ [d EXCEPT !.page = q] \in Drafts
            /\ [d EXCEPT !.err = TRUE, !.page = q] \in Drafts
  BY DEF Blank, ToLogin, Drafts, Ends

\* Tokens are compared as numbers.
LEMMA Numbers ==
    ASSUME Inv
    PROVE  /\ clock \in Nat /\ issued \in Nat /\ cookie \in Nat
           /\ clock + TTL \in Tokens
           /\ \A e \in Elements : token[e] \in Nat
<1>1. Scalars /\ Shapes
  BY ByElement
<1>2. QED
  BY <1>1, TTLAssumption, BoundsAssumption
  DEF Scalars, Shapes, Tokens, None

\* A request is sent (admin.go:15-69, 90-97, 116-123).
LEMMA SendKeepsInv ==
    ASSUME Inv, NEW e \in Elements, NEW at, NEW d, Send(e, at, d),
           at \in Calls, d \in Drafts, d.cookies = {},
           d.page \in {"login", "redirect"},
           d.page = "redirect" => cookie = None,
           e \in {"update", "drop"} => at = e
    PROVE  Inv'
<1> DEFINE p == IF cookie = None THEN "reply" ELSE at
<1>1. Scalars /\ Shapes /\ StateOf(e)
  BY ByElement DEF Everyone
<1>2. Scalars'
  BY <1>1 DEF Scalars, Send
<1>3. /\ pc' = [pc EXCEPT ![e] = p] /\ token' = [token EXCEPT ![e] = cookie]
      /\ draft' = [draft EXCEPT ![e] = d]
      /\ fate' = [fate EXCEPT ![e] = "none"]
      /\ pc[e] = "off" /\ job' = job /\ issued' = issued /\ clock' = clock
  BY DEF Send
<1>4. job # e
  BY <1>1, <1>3 DEF StateOf, ElementOK
<1>5. p # "job" /\ p \in Places
  BY DEF Places, Calls, Reads
<1>6. Ends(d) => p = "reply" /\ cookie <= clock
  BY Numbers DEF Ends, None
<1>7. e \in {"update", "drop"} =>
        p \notin Reads /\ ~(p = "reply" /\ d.page = "panel")
  BY DEF Reads
<1>8. ElementOK(e, p, cookie, d, "none", job', issued', clock)
  BY <1>1, <1>3, <1>4, <1>5, <1>6, <1>7 DEF ElementOK, Scalars
<1>9. issued <= issued'
  BY <1>3, Numbers
<1>10. QED
  BY <1>2, <1>3, <1>8, <1>9, OneElement

\* The log-in (admin.go:142-175, auth.go:42-61).
LEMMA LoginKeepsInv ==
    ASSUME Inv, NEW e, e = "login", Login \/ Sign \/ LoginFails PROVE Inv'
<1>1. Scalars /\ Shapes /\ e \in Elements
  BY ByElement DEF Elements
<1>2. StateOf(e) /\ draft[e] \in Drafts
  BY <1>1, ByElement DEF Everyone, StateOf, ElementOK
<1>3. /\ pc = [pc EXCEPT ![e] = pc[e]] /\ token = [token EXCEPT ![e] = token[e]]
      /\ draft = [draft EXCEPT ![e] = draft[e]]
      /\ fate = [fate EXCEPT ![e] = fate[e]]
  BY <1>1, SameAt DEF Shapes
<1>4. CASE Login
  <2>1. /\ pc' = [pc EXCEPT ![e] = "login"]
        /\ token' = [token EXCEPT ![e] = None]
        /\ draft' = [draft EXCEPT ![e] = Blank]
        /\ fate' = [fate EXCEPT ![e] = fate[e]]
        /\ job' = job /\ clock' = clock /\ issued' = issued
        /\ pc[e] = "off"
    BY <1>3, <1>4 DEF Login
  <2>2. Scalars' /\ issued <= issued'
    BY <1>1, <1>4, Numbers DEF Scalars, Login
  <2>3. ElementOK(e, "login", None, Blank, fate[e], job', issued', clock)
    <3>1. Blank \in Drafts /\ ~Ends(Blank) /\ Blank.cookies = {}
      BY DraftFields
    <3>2. None <= issued' /\ issued' \in Nat
      BY <2>1, Numbers DEF None
    <3>3. job' # e /\ fate[e] \in {"none", "busy", "done"}
      BY <1>2, <2>1 DEF StateOf, ElementOK
    <3>4. e \notin {"update", "drop"}
      OBVIOUS
    <3>5. QED
      BY <3>1, <3>2, <3>3, <3>4 DEF ElementOK, Places
  <2>4. QED
    BY <1>1, <2>1, <2>2, <2>3, OneElement
<1>5. CASE Sign
  <2>1. PICK i \in Nat : i = clock + TTL /\ i = issued' /\ i \in Tokens
    BY <1>5, Numbers DEF Sign, Tokens
  <2> DEFINE d == [draft[e] EXCEPT !.cookies = {i}]
  <2>2. /\ pc' = [pc EXCEPT ![e] = "stats"] /\ token' = [token EXCEPT ![e] = i]
        /\ draft' = [draft EXCEPT ![e] = d]
        /\ fate' = [fate EXCEPT ![e] = fate[e]]
        /\ job' = job /\ clock' = clock
        /\ pc[e] = "login"
    BY <1>1, <1>3, <1>5, <2>1 DEF Sign, Shapes
  <2>3. issued <= issued'
    BY <1>1, <2>1 DEF Scalars
  <2>4. Scalars'
    BY <1>1, <1>5, <2>1, <2>3, Numbers DEF Scalars, Sign
  <2>5. i # None
    BY <2>1 DEF Tokens, None
  <2>6. d \in Drafts /\ d.cookies = {i} /\ d.page = draft[e].page
    BY <1>2, <2>1 DEF Drafts
  <2>7. ~Ends(draft[e])
    BY <1>2, <2>2 DEF StateOf, ElementOK
  <2>8. ~Ends(d)
    BY <2>5, <2>6, <2>7 DEF Ends
  <2>9. ElementOK(e, "stats", i, d, fate[e], job', issued', clock)
    BY <1>2, <2>1, <2>2, <2>6, <2>8, e = "login"
    DEF StateOf, ElementOK, Reads, Calls, Places
  <2>10. QED
    BY <1>1, <2>2, <2>3, <2>4, <2>9, OneElement
<1>6. CASE LoginFails
  <2> DEFINE d == [draft[e] EXCEPT !.err = TRUE]
  <2>1. /\ pc' = [pc EXCEPT ![e] = "reply"]
        /\ token' = [token EXCEPT ![e] = token[e]]
        /\ draft' = [draft EXCEPT ![e] = d]
        /\ fate' = [fate EXCEPT ![e] = fate[e]]
        /\ job' = job /\ clock' = clock /\ issued' = issued
        /\ pc[e] = "login"
    BY <1>1, <1>3, <1>6 DEF LoginFails, Shapes
  <2>2. Scalars' /\ issued <= issued'
    BY <1>1, <1>6, Numbers DEF Scalars, LoginFails
  <2>3. d \in Drafts /\ d.cookies = draft[e].cookies /\ d.page = draft[e].page
    BY <1>2, DraftFields DEF Drafts
  <2>4. ElementOK(e, "reply", token[e], d, fate[e], job', issued', clock)
    BY <1>2, <2>1, <2>3 DEF StateOf, ElementOK, Ends, Places
  <2>5. QED
    BY <1>1, <2>1, <2>2, <2>4, OneElement
<1>7. QED
  BY <1>4, <1>5, <1>6

\* A call that is answered (admin.go:222-236, api.go:113-150).
LEMMA ReadKeepsInv ==
    ASSUME Inv, NEW e \in Elements, Read(e) PROVE Inv'
<1> DEFINE q == CASE pc[e] = "status" -> "panel"
                  [] pc[e] = "poll"   -> "same"
                  [] OTHER            -> draft[e].page
           d == [draft[e] EXCEPT !.page = q]
           p == After[pc[e]]
<1>1. Scalars /\ Shapes /\ StateOf(e) /\ draft[e] \in Drafts
  BY ByElement DEF Everyone, StateOf, ElementOK
<1>2. /\ token = [token EXCEPT ![e] = token[e]]
      /\ fate = [fate EXCEPT ![e] = fate[e]]
  BY <1>1, SameAt DEF Shapes
<1>3. Scalars' /\ issued <= issued'
  BY <1>1, Numbers DEF Scalars, Read
<1>4. ~Ends(draft[e])
  BY <1>1 DEF Read, Reads, StateOf, ElementOK
<1>5. q \in {"login", "panel", "same"}
  BY <1>1, <1>4 DEF Drafts, Ends
<1>6. d \in Drafts /\ d.cookies = draft[e].cookies /\ d.page = q
        /\ d.err = draft[e].err
  BY <1>1, <1>5, DraftFields DEF Drafts
<1>7. ~Ends(d)
  BY <1>4, <1>5, <1>6 DEF Ends
<1>8. /\ p \in {"ping", "status", "reply"}
      /\ pc[e] \in Reads => p = "reply" \/ p \in Reads
      /\ pc[e] \notin Reads => p = "reply" /\ q = "same"
  BY DEF Read, Reads, After
<1>9. ElementOK(e, p, token[e], d, fate[e], job', issued', clock)
  BY <1>1, <1>6, <1>7, <1>8 DEF Read, StateOf, ElementOK, Reads, Calls, Places
<1>10. /\ pc' = [pc EXCEPT ![e] = p] /\ token' = [token EXCEPT ![e] = token[e]]
       /\ draft' = [draft EXCEPT ![e] = d]
       /\ fate' = [fate EXCEPT ![e] = fate[e]]
       /\ job' = job /\ clock' = clock
  BY <1>1, <1>2 DEF Read, Shapes
<1> HIDE DEF d, p, q
<1>11. QED
  BY <1>3, <1>9, <1>10, OneElement

\* The jobs that nobody waits for are not names of elements.
LEMMA NotElements == "idle" \notin Elements /\ "orphan" \notin Elements
  BY PollersAssumption DEF Elements

\* A command is let through and reaches the service (auth.go:21-26,
\* api.go:92-104, 152-164).
LEMMA CommandKeepsInv ==
    ASSUME Inv, NEW e \in {"update", "drop"},
           Admit(e) \/ Begin(e) \/ Conflict(e)
    PROVE  Inv'
<1>1. Scalars /\ Shapes /\ e \in Elements
  BY ByElement DEF Elements
<1>2. StateOf(e)
  BY <1>1, ByElement DEF Everyone
<1>3. /\ token = [token EXCEPT ![e] = token[e]]
      /\ draft = [draft EXCEPT ![e] = draft[e]]
      /\ fate = [fate EXCEPT ![e] = fate[e]]
  BY <1>1, SameAt DEF Shapes
<1>4. CASE Begin(e)
  <2>1. /\ pc' = [pc EXCEPT ![e] = "job"]
        /\ token' = [token EXCEPT ![e] = token[e]]
        /\ draft' = [draft EXCEPT ![e] = draft[e]]
        /\ fate' = [fate EXCEPT ![e] = fate[e]]
        /\ job = "idle" /\ job' = e /\ clock' = clock /\ issued' = issued
        /\ pc[e] = "sent"
    BY <1>3, <1>4 DEF Begin
  <2>2. Scalars' /\ issued <= issued'
    BY <1>1, <1>4, Numbers DEF Scalars, Begin, Jobs
  <2>3. ElementOK(e, "job", token[e], draft[e], fate[e], job', issued', clock)
    BY <1>2, <2>1 DEF StateOf, ElementOK, Reads, Calls, Places
  <2>4. \A x \in Elements \ {e} : job' = x <=> job = x
    BY <2>1, NotElements
  <2>5. QED
    BY <1>1, <2>1, <2>2, <2>3, <2>4, OneElement
<1>5. CASE Conflict(e)
  <2>1. /\ pc' = [pc EXCEPT ![e] = "stats"]
        /\ token' = [token EXCEPT ![e] = token[e]]
        /\ draft' = [draft EXCEPT ![e] = draft[e]]
        /\ fate' = [fate EXCEPT ![e] = "busy"]
        /\ job' = job /\ clock' = clock /\ issued' = issued
        /\ pc[e] = "sent"
    BY <1>3, <1>5 DEF Conflict
  <2>2. Scalars' /\ issued <= issued'
    BY <1>1, <1>5, Numbers DEF Scalars, Conflict
  <2>3. ElementOK(e, "stats", token[e], draft[e], "busy", job', issued', clock)
    BY <1>2, <2>1 DEF StateOf, ElementOK, Reads, Calls, Places
  <2>4. QED
    BY <1>1, <2>1, <2>2, <2>3, OneElement
<1>6. CASE Admit(e)
  <2>1. /\ pc' = [pc EXCEPT ![e] = "sent"]
        /\ token' = [token EXCEPT ![e] = token[e]]
        /\ draft' = [draft EXCEPT ![e] = draft[e]]
        /\ fate' = [fate EXCEPT ![e] = fate[e]]
        /\ job' = job /\ clock' = clock /\ issued' = issued
        /\ pc[e] \in {"update", "drop"}
    BY <1>3, <1>6 DEF Admit
  <2>2. Scalars' /\ issued <= issued'
    BY <1>1, <1>6, Numbers DEF Scalars, Admit
  <2>3. ElementOK(e, "sent", token[e], draft[e], fate[e], job', issued', clock)
    BY <1>2, <2>1 DEF StateOf, ElementOK, Reads, Calls, Places
  <2>4. QED
    BY <1>1, <2>1, <2>2, <2>3, OneElement
<1>7. QED
  BY <1>4, <1>5, <1>6

\* A job ends for the one who waits (admin.go:98-112, 124-138).
LEMMA JobEndKeepsInv ==
    ASSUME Inv, NEW e \in {"update", "drop"}, JobDone(e) \/ JobFails(e)
    PROVE  Inv'
<1>1. Scalars /\ Shapes /\ e \in Elements
  BY ByElement DEF Elements
<1>2. StateOf(e) /\ draft[e] \in Drafts
  BY <1>1, ByElement DEF Everyone, StateOf, ElementOK
<1>3. /\ token = [token EXCEPT ![e] = token[e]]
      /\ draft = [draft EXCEPT ![e] = draft[e]]
      /\ fate = [fate EXCEPT ![e] = fate[e]]
  BY <1>1, SameAt DEF Shapes
<1>4. job = e /\ job' = "idle" /\ clock' = clock /\ issued' = issued
        /\ Scalars' /\ issued <= issued' /\ pc[e] = "job"
  BY <1>1, <1>2, Numbers
  DEF JobDone, JobFails, Scalars, Jobs, StateOf, ElementOK
<1>5. \A x \in Elements \ {e} : job' = x <=> job = x
  BY <1>4, NotElements
<1>6. CASE JobDone(e)
  <2>1. /\ pc' = [pc EXCEPT ![e] = "stats"]
        /\ token' = [token EXCEPT ![e] = token[e]]
        /\ draft' = [draft EXCEPT ![e] = draft[e]]
        /\ fate' = [fate EXCEPT ![e] = "done"]
    BY <1>3, <1>6 DEF JobDone
  <2>2. ElementOK(e, "stats", token[e], draft[e], "done", job', issued', clock)
    BY <1>2, <1>4 DEF StateOf, ElementOK, Reads, Calls, Places
  <2>3. QED
    BY <1>1, <1>4, <1>5, <2>1, <2>2, OneElement
<1>7. CASE JobFails(e)
  <2> DEFINE d == [draft[e] EXCEPT !.err = TRUE]
  <2>1. /\ pc' = [pc EXCEPT ![e] = "stats"]
        /\ token' = [token EXCEPT ![e] = token[e]]
        /\ draft' = [draft EXCEPT ![e] = d]
        /\ fate' = [fate EXCEPT ![e] = fate[e]]
    BY <1>1, <1>3, <1>7 DEF JobFails, Shapes
  <2>2. d \in Drafts /\ d.cookies = draft[e].cookies /\ d.page = draft[e].page
          /\ d.err = TRUE
    BY <1>2, DraftFields DEF Drafts
  <2>3. ElementOK(e, "stats", token[e], d, fate[e], job', issued', clock)
    BY <1>2, <1>4, <2>2 DEF StateOf, ElementOK, Reads, Calls, Places, Ends
  <2>4. QED
    BY <1>1, <1>4, <1>5, <2>1, <2>3, OneElement
<1>8. QED
  BY <1>6, <1>7

\* 401 (auth.go:12-28): the session ends, for a token that has expired.
LEMMA RefuseKeepsInv ==
    ASSUME Inv, NEW e \in Elements, Refuse(e) PROVE Inv'
<1> DEFINE d == Unauthorized(e)
<1>1. Scalars /\ Shapes /\ StateOf(e) /\ draft[e] \in Drafts
  BY ByElement DEF Everyone, StateOf, ElementOK
<1>2. /\ token = [token EXCEPT ![e] = token[e]]
      /\ fate = [fate EXCEPT ![e] = fate[e]]
  BY <1>1, SameAt DEF Shapes
<1>3. Scalars' /\ issued <= issued'
  BY <1>1, Numbers DEF Scalars, Refuse
<1>4. /\ pc' = [pc EXCEPT ![e] = "reply"]
      /\ token' = [token EXCEPT ![e] = token[e]]
      /\ draft' = [draft EXCEPT ![e] = d]
      /\ fate' = [fate EXCEPT ![e] = fate[e]]
      /\ job' = job /\ clock' = clock /\ issued' = issued
      /\ pc[e] \in Calls
  BY <1>2 DEF Refuse
<1>5. token[e] <= clock
  BY Numbers DEF Refuse, Valid
<1>6. /\ d \in Drafts
      /\ \A k \in d.cookies : k \in draft[e].cookies \cup {None}
      /\ d.page = "panel" => e = "login"
  <2>1. CASE pc[e] \notin Reads
    <3>1. d = [ToLogin EXCEPT !.cookies = {None}]
      BY <2>1 DEF Unauthorized
    <3>2. d = [page |-> "redirect", cookies |-> {None}, err |-> FALSE]
      BY <3>1 DEF ToLogin, Blank
    <3>3. QED
      BY <3>2 DEF Drafts
  <2>2. CASE pc[e] \in Reads /\ e = "login"
    BY <1>1, <2>2, DraftFields DEF Unauthorized, Drafts
  <2>3. CASE pc[e] \in Reads /\ e # "login"
    BY <2>3 DEF Unauthorized, Drafts
  <2>4. QED
    BY <2>1, <2>2, <2>3
<1>7. \A k \in d.cookies : k <= issued
  BY <1>1, <1>6, Numbers DEF StateOf, ElementOK, None
<1> HIDE DEF d
<1>8. e \in {"update", "drop"} => d.page # "panel"
  BY <1>6
<1>9. pc[e] # "job"
  BY <1>4 DEF Calls, Reads
<1>10. ElementOK(e, "reply", token[e], d, fate[e], job', issued', clock)
  BY <1>1, <1>4, <1>5, <1>6, <1>7, <1>8, <1>9
  DEF StateOf, ElementOK, Reads, Places
<1>11. QED
  BY <1>3, <1>4, <1>10, OneElement

\* Another error (client.go:241-289).
LEMMA FailKeepsInv ==
    ASSUME Inv, NEW e \in Elements, Fail(e) PROVE Inv'
<1> DEFINE d == Failed(e)
           p == IF pc[e] \in Reads \cup {"poll"} THEN "reply" ELSE "stats"
<1>1. Scalars /\ Shapes /\ StateOf(e) /\ draft[e] \in Drafts
  BY ByElement DEF Everyone, StateOf, ElementOK
<1>2. /\ token = [token EXCEPT ![e] = token[e]]
      /\ fate = [fate EXCEPT ![e] = fate[e]]
  BY <1>1, SameAt DEF Shapes
<1>3. /\ pc' = [pc EXCEPT ![e] = p]
      /\ token' = [token EXCEPT ![e] = token[e]]
      /\ draft' = [draft EXCEPT ![e] = d]
      /\ fate' = [fate EXCEPT ![e] = fate[e]]
      /\ job' = Abandon({e}) /\ clock' = clock /\ issued' = issued
      /\ pc[e] \in Calls \cup {"sent", "job"}
  BY <1>1, <1>2 DEF Fail, Shapes
<1>4. Scalars' /\ issued <= issued'
  BY <1>1, Numbers DEF Scalars, Fail, Abandon, Jobs, Strays
<1>5. ~Ends(draft[e])
  BY <1>1, <1>3 DEF StateOf, ElementOK, Calls, Reads
<1>6. d \in Drafts /\ d.cookies = draft[e].cookies /\ d.err = TRUE /\ ~Ends(d)
  <2>1. CASE pc[e] = "poll"
    <3>1. d = [draft[e] EXCEPT !.err = TRUE, !.page = "same"]
      BY <2>1 DEF Failed
    <3>2. d \in Drafts
      BY <1>1, <3>1, DraftFields
    <3>3. /\ d.cookies = draft[e].cookies /\ d.err = TRUE
          /\ d.page \in {draft[e].page, "same"}
      BY <1>1, <3>1 DEF Drafts
    <3>4. QED
      BY <1>5, <3>2, <3>3 DEF Ends
  <2>2. CASE pc[e] # "poll"
    <3>1. d = [draft[e] EXCEPT !.err = TRUE]
      BY <1>1, <2>2 DEF Failed, Drafts
    <3>2. d \in Drafts
      BY <1>1, <3>1, DraftFields
    <3>3. /\ d.cookies = draft[e].cookies /\ d.err = TRUE
          /\ d.page \in {draft[e].page, "same"}
      BY <1>1, <3>1 DEF Drafts
    <3>4. QED
      BY <1>5, <3>2, <3>3 DEF Ends
  <2>3. QED
    BY <2>1, <2>2
<1>7. job' # e /\ \A x \in Elements \ {e} : job' = x <=> job = x
  BY <1>3, NotElements DEF Abandon
<1>8. p \in {"reply", "stats"}
  OBVIOUS
<1> HIDE DEF d, p
<1>9. ElementOK(e, p, token[e], d, fate[e], job', issued', clock)
  BY <1>1, <1>3, <1>6, <1>7, <1>8 DEF StateOf, ElementOK, Reads, Calls, Places
<1>10. QED
  BY <1>3, <1>4, <1>7, <1>9, OneElement

\* The cookie after an answer was the old one, is one of its cookies, or none.
LEMMA StoredCookie ==
    ASSUME Inv, NEW e \in Elements
    PROVE  /\ Stored(draft[e]) \in {None} \cup Tokens
           /\ Stored(draft[e]) <= issued
<1>1. Scalars /\ StateOf(e)
  BY ByElement DEF Everyone
<1>2. CASE draft[e].cookies = {}
  BY <1>1, <1>2 DEF Stored, Scalars
<1>3. CASE draft[e].cookies # {}
  <2>1. Stored(draft[e]) \in draft[e].cookies
    BY <1>3 DEF Stored
  <2>2. QED
    BY <1>1, <2>1 DEF StateOf, ElementOK, Drafts
<1>4. QED
  BY <1>2, <1>3

\* The browser goes to GET /admin with a cookie that is known.
LEMMA NavigateKeepsInv ==
    ASSUME Inv, NEW c \in {None} \cup Tokens, c <= issued, Navigate(c),
           cookie' = c, clock' = clock, issued' = issued
    PROVE  Inv'
<1>1. Scalars
  BY ByElement
<1>2. Scalars'
  BY <1>1 DEF Scalars, Navigate, Pages, Abandon, Jobs, Strays
<1>3. Blank \in Drafts /\ ~Ends(Blank) /\ Blank.cookies = {}
        /\ Blank.page = "login"
  BY DraftFields DEF Blank
<1>4. None <= issued /\ None \in {None} \cup Tokens
  BY Numbers DEF None
<1>5. Shapes'
  BY <1>3 DEF Shapes, Navigate, Calls, Reads, Places
<1>6. ASSUME NEW e \in Elements PROVE StateOf(e)'
  <2>1. job' \notin Elements
    BY NotElements DEF Navigate, Abandon
  <2>2. /\ pc'[e] \in {"off", "reply", "stats"}
        /\ e \in {"update", "drop"} => pc'[e] = "off"
        /\ token'[e] \in {c, None} /\ draft'[e] = Blank /\ fate'[e] = "none"
    BY DEF Navigate
  <2>3. QED
    BY <1>3, <1>4, <2>1, <2>2 DEF StateOf, ElementOK, Reads, Calls, Places
<1>7. QED
  BY <1>2, <1>5, <1>6, ByElementNext DEF Everyone

\* An answer arrives (admin.go:71-88, main_inner.html).
LEMMA DeliverKeepsInv ==
    ASSUME Inv, NEW e \in Elements, Deliver(e) PROVE Inv'
<1>1. Scalars /\ Shapes /\ StateOf(e) /\ draft[e] \in Drafts
  BY ByElement DEF Everyone, StateOf, ElementOK
<1>2. /\ cookie' \in {None} \cup Tokens /\ cookie' <= issued
      /\ clock' = clock /\ issued' = issued /\ pc[e] = "reply"
  BY StoredCookie DEF Deliver
<1>3. CASE draft[e].page = "redirect"
  <2>1. Navigate(cookie')
    BY <1>3 DEF Deliver
  <2>2. PICK c \in {None} \cup Tokens : c = cookie' /\ c <= issued
    BY <1>2
  <2>3. Navigate(c)
    BY <2>1, <2>2
  <2>4. QED
    BY <1>2, <2>2, <2>3, NavigateKeepsInv
<1>4. CASE draft[e].page # "redirect"
  <2>1. /\ pc' = [pc EXCEPT ![e] = "off"] /\ token' = [token EXCEPT ![e] = None]
        /\ draft' = [draft EXCEPT ![e] = Blank]
        /\ fate' = [fate EXCEPT ![e] = "none"]
        /\ job' = job /\ stray' = stray
        /\ page' = IF draft[e].page = "same" THEN page ELSE draft[e].page
    BY <1>4 DEF Deliver
  <2>2. page' \in Pages
    BY <1>1, <1>4, <2>1 DEF Scalars, Pages, Drafts
  <2>3. Scalars' /\ issued <= issued'
    BY <1>1, <1>2, <2>1, <2>2, Numbers DEF Scalars
  <2>4. Blank \in Drafts /\ ~Ends(Blank) /\ Blank.cookies = {}
    BY DraftFields
  <2>5. None <= issued' /\ job' # e
    BY <1>1, <1>2, <2>1, Numbers DEF None, StateOf, ElementOK
  <2>6. ElementOK(e, "off", None, Blank, "none", job', issued', clock)
    BY <2>4, <2>5 DEF ElementOK, Reads, Places
  <2>7. QED
    BY <1>2, <2>1, <2>3, <2>6, OneElement
<1>5. QED
  BY <1>3, <1>4

\* Nothing an element is waiting for changes.
LEMMA OthersKeepInv ==
    ASSUME Inv, StrayArrives \/ OrphanEnds \/ Tick \/ UNCHANGED vars
    PROVE  Inv'
<1>1. Scalars /\ Shapes /\ Everyone
  BY ByElement
<1>2. UNCHANGED <<pc, token, draft, fate, issued>>
  BY DEF StrayArrives, OrphanEnds, Tick, vars
<1>3. clock <= clock' /\ clock' \in 0..MaxClock /\ cookie' = cookie
        /\ page' = page
  BY <1>1, Numbers, BoundsAssumption
  DEF StrayArrives, OrphanEnds, Tick, vars, Scalars
<1>4. job' \in Jobs /\ stray' \in 0..MaxStray
        /\ \A e \in Elements : job' = e <=> job = e
  BY <1>1, NotElements, BoundsAssumption
  DEF StrayArrives, OrphanEnds, Tick, vars, Scalars, Jobs
<1>5. Scalars'
  BY <1>1, <1>2, <1>3, <1>4, Numbers, TTLAssumption DEF Scalars
<1>6. Shapes'
  BY <1>1, <1>2 DEF Shapes
<1>7. ASSUME NEW e \in Elements PROVE StateOf(e)'
  <2>1. StateOf(e) /\ token[e] \in Nat
    BY <1>1, Numbers DEF Everyone
  <2>2. token[e] <= clock => token[e] <= clock'
    BY <1>3, <2>1, Numbers, BoundsAssumption
  <2>3. QED
    BY <1>2, <1>4, <2>1, <2>2 DEF StateOf, ElementOK
<1>8. QED
  BY <1>5, <1>6, <1>7, ByElementNext DEF Everyone

LEMMA InitInv == Init => Inv
<1> SUFFICES ASSUME Init PROVE Inv
  OBVIOUS
<1>1. Scalars
  BY TTLAssumption, BoundsAssumption
  DEF Init, Scalars, Pages, Jobs, None
<1>2. Blank \in Drafts /\ ~Ends(Blank) /\ Blank.cookies = {}
  BY DraftFields
<1>3. Shapes
  BY <1>2 DEF Init, Shapes, Places
<1>4. ASSUME NEW e \in Elements PROVE StateOf(e)
  <2>1. pc[e] = "off" /\ token[e] = None /\ draft[e] = Blank /\ fate[e] = "none"
          /\ job # e /\ None <= issued
    BY NotElements DEF Init, None
  <2>2. QED
    BY <1>2, <2>1 DEF StateOf, ElementOK, Reads, Places
<1>5. QED
  BY <1>1, <1>3, <1>4, ByElement DEF Everyone

LEMMA NextKeepsInv == Inv /\ [Next]_vars => Inv'
<1> SUFFICES ASSUME Inv, [Next]_vars PROVE Inv'
  OBVIOUS
<1>1. /\ {"view", "login", "update", "drop"} \cup Pollers = Elements
      /\ "view" \in Elements
      /\ \A p \in Pollers : p \in Elements /\ p \notin {"update", "drop"}
  BY PollersAssumption DEF Elements
<1>2. /\ Blank \in Drafts /\ Blank.cookies = {} /\ Blank.page = "login"
      /\ ToLogin \in Drafts /\ ToLogin.cookies = {}
      /\ ToLogin.page = "redirect"
  BY DraftFields DEF Blank
<1>3. {"stats", "poll", "update", "drop"} \subseteq Calls
  BY DEF Calls, Reads
<1>4. CASE View
  BY <1>1, <1>2, <1>3, <1>4, SendKeepsInv DEF View
<1>5. ASSUME NEW e \in {"update", "drop"}, Command(e) PROVE Inv'
  <2> DEFINE d == IF cookie = None THEN ToLogin ELSE Blank
  <2>1. Send(e, e, d)
    BY <1>5 DEF Command
  <2>2. d \in Drafts /\ d.cookies = {} /\ d.page \in {"login", "redirect"}
          /\ (d.page = "redirect" => cookie = None)
    BY <1>2
  <2> HIDE DEF d
  <2>3. QED
    BY <1>1, <1>3, <2>1, <2>2, SendKeepsInv
<1>6. ASSUME NEW e \in Pollers, Poll(e) PROVE Inv'
  <2> DEFINE d == IF cookie = None THEN ToLogin ELSE Blank
  <2>1. Send(e, "poll", d)
    BY <1>6 DEF Poll
  <2>2. d \in Drafts /\ d.cookies = {} /\ d.page \in {"login", "redirect"}
          /\ (d.page = "redirect" => cookie = None)
    BY <1>2
  <2> HIDE DEF d
  <2>3. QED
    BY <1>1, <1>3, <2>1, <2>2, SendKeepsInv
<1>7. CASE Reload
  <2>1. Scalars
    BY ByElement
  <2>2. PICK c \in {None} \cup Tokens : c = cookie /\ c <= issued
    BY <2>1 DEF Scalars
  <2>3. Navigate(c) /\ cookie' = c /\ clock' = clock /\ issued' = issued
    BY <1>7, <2>2 DEF Reload
  <2>4. QED
    BY <2>2, <2>3, NavigateKeepsInv
<1>8. CASE Login \/ Sign \/ LoginFails
  BY <1>8, LoginKeepsInv
<1>9. QED
  BY <1>4, <1>5, <1>6, <1>7, <1>8, CommandKeepsInv, JobEndKeepsInv,
     ReadKeepsInv, RefuseKeepsInv, FailKeepsInv, DeliverKeepsInv,
     OthersKeepInv DEF Next

\* The invariant of the session, on which the theorems rest.
THEOREM InvHolds == Spec => []Inv
  BY InitInv, NextKeepsInv, PTL DEF Spec

\* Types, and that a handler waits for its own job only.
THEOREM TypeCorrect == Spec => []TypeOK
<1>1. Inv => TypeOK
  BY DEF Inv
<1>2. QED
  BY <1>1, InvHolds, PTL

\* The session is ended by the expiry of a token and by nothing else
\* (admin.go:80-88, 98-107, 197-206).
THEOREM SessionIsKept == Spec => []OnlyExpiryEndsSession
<1>1. Inv => OnlyExpiryEndsSession
  BY DEF Inv, EndsInv, OnlyExpiryEndsSession
<1>2. QED
  BY <1>1, InvHolds, PTL

\* The panel does not pass off a failed command as done (client.go:241-289).
THEOREM SuccessIsHonest == Spec => []OkMeansDoneOrBusy
<1>1. Inv => OkMeansDoneOrBusy
  BY DEF Inv, FateInv, OkMeansDoneOrBusy
<1>2. QED
  BY <1>1, InvHolds, PTL

-----------------------------------------------------------------------------
(* Jobs after the last token *)

\* The commands that are let through can be counted.
LEMMA Counted ==
    ASSUME Inv
    PROVE  /\ IsFiniteSet(Admitted) /\ Cardinality(Admitted) \in Nat
           /\ stray \in Nat
<1>1. ASSUME NEW a, NEW b PROVE IsFiniteSet({a, b})
  <2>1. {a, b} = {a} \cup {b}
    OBVIOUS
  <2>2. IsFiniteSet({a}) /\ IsFiniteSet({b})
    BY FS_Singleton
  <2>3. IsFiniteSet({a} \cup {b})
    BY <2>2, FS_Union
  <2>4. QED
    BY <2>1, <2>3
<1>2. IsFiniteSet(Elements)
  <2> DEFINE Four == {"view", "login"} \cup {"update", "drop"}
  <2>1. IsFiniteSet(Four)
    BY <1>1, FS_Union
  <2>2. Elements = Four \cup Pollers
    BY DEF Elements
  <2> HIDE DEF Four
  <2>3. QED
    BY <2>1, <2>2, PollersAssumption, FS_Union
<1>3. IsFiniteSet(Admitted)
  BY <1>2, FS_Subset DEF Admitted
<1>4. stray \in Nat
  BY ByElement, BoundsAssumption DEF Scalars
<1>5. QED
  BY <1>3, <1>4, FS_CardinalityType

\* A handler that goes elsewhere is one less that is let through, if it was.
LEMMA OneLeaves ==
    ASSUME Inv, NEW e \in Elements, NEW p, p # "sent",
           pc' = [pc EXCEPT ![e] = p]
    PROVE  Cardinality(Admitted') =
             IF pc[e] = "sent" THEN Cardinality(Admitted) - 1
                               ELSE Cardinality(Admitted)
<1>1. pc \in [Elements -> Places]
  BY ByElement DEF Shapes
<1>2. Admitted' = Admitted \ {e}
  BY <1>1 DEF Admitted
<1>3. e \in Admitted <=> pc[e] = "sent"
  BY DEF Admitted
<1>4. QED
  BY <1>2, <1>3, Counted, FS_RemoveElement

\* A request that is dropped leaves a call behind only if it was let through.
LEMMA StraysAreCleared ==
    ASSUME Inv, issued <= clock, NEW S \in SUBSET Elements,
           stray' \in Strays(S)
    PROVE  stray' \in Nat /\ stray' <= stray + Cardinality(S \cap Admitted)
<1>1. \A e \in Elements : ~Valid(token[e])
  <2>1. \A e \in Elements : token[e] <= issued
    BY DEF Inv, KnownInv
  <2>2. QED
    BY <2>1, Numbers DEF Valid
<1>2. {e \in S : MayStray(e)} = S \cap Admitted
  BY <1>1 DEF MayStray, Admitted
<1>3. QED
  BY <1>2, BoundsAssumption DEF Strays

\* What a step does to the commands that are let through when no token is
\* valid any more (middleware/auth.go:21-26, admin.go:80-88).
LEMMA StepsClearNothing ==
    ASSUME Inv, [Next]_vars, issued <= clock
    PROVE  /\ Cleared' <= Cleared
           /\ job = "idle" /\ job' # "idle" => Cleared' < Cleared
<1>1. /\ Cardinality(Admitted) \in Nat /\ stray \in Nat
      /\ {"view", "login", "update", "drop"} \subseteq Elements
  BY Counted DEF Elements
<1>2. pc \in [Elements -> Places] /\ "idle" \notin Elements
  BY ByElement, NotElements DEF Shapes
<1>3. ASSUME NEW e \in {"update", "drop"}, Admit(e) PROVE FALSE
  <2>1. token[e] <= issued /\ clock < token[e]
    BY <1>1, <1>3 DEF Inv, KnownInv, Admit, Valid
  <2>2. QED
    BY <1>1, <2>1, Numbers
<1>4. ASSUME NEW c, Navigate(c)
      PROVE  Cleared' <= Cleared /\ (job = "idle" => job' = "idle")
  <2>1. Admitted' = {}
    BY <1>4 DEF Navigate, Admitted
  <2>2. Cardinality(Admitted') = 0
    BY <2>1, FS_EmptySet
  <2>3. stray' \in Nat /\ stray' <= stray + Cardinality(Elements \cap Admitted)
    BY <1>4, StraysAreCleared DEF Navigate
  <2>4. Cardinality(Elements \cap Admitted) = Cardinality(Admitted)
    <3>1. Elements \cap Admitted = Admitted
      BY DEF Admitted
    <3>2. QED
      BY <3>1
  <2>5. job = "idle" => job' = "idle"
    BY <1>2, <1>4 DEF Navigate, Abandon
  <2>6. QED
    BY <1>1, <2>2, <2>3, <2>4, <2>5 DEF Cleared
<1>5. ASSUME NEW e \in Elements, Fail(e)
      PROVE  Cleared' <= Cleared /\ (job = "idle" => job' = "idle")
  <2> DEFINE p == IF pc[e] \in Reads \cup {"poll"} THEN "reply" ELSE "stats"
  <2>1. pc' = [pc EXCEPT ![e] = p] /\ p # "sent"
    BY <1>2, <1>5 DEF Fail
  <2> HIDE DEF p
  <2>2. Cardinality(Admitted') =
          IF pc[e] = "sent" THEN Cardinality(Admitted) - 1
                            ELSE Cardinality(Admitted)
    BY <2>1, OneLeaves
  <2>3. stray' \in Nat /\ stray' <= stray + Cardinality({e} \cap Admitted)
    BY <1>5, StraysAreCleared DEF Fail
  <2>4. {e} \cap Admitted = IF pc[e] = "sent" THEN {e} ELSE {}
    BY DEF Admitted
  <2>5. Cardinality({e}) = 1 /\ Cardinality({}) = 0
    BY FS_Singleton, FS_EmptySet
  <2>6. Cardinality({e} \cap Admitted) = IF pc[e] = "sent" THEN 1 ELSE 0
    BY <2>4, <2>5
  <2>7. Cleared' <= Cleared
    BY <1>1, <2>2, <2>3, <2>6 DEF Cleared
  <2>8. job = "idle" => job' = "idle"
    BY <1>2, <1>5 DEF Fail, Abandon
  <2>9. QED
    BY <2>7, <2>8
<1>6. ASSUME NEW e \in {"update", "drop"}, Begin(e)
      PROVE  Cleared' <= Cleared /\ Cleared' < Cleared
  <2>1. pc[e] = "sent" /\ pc' = [pc EXCEPT ![e] = "job"] /\ stray' = stray
    BY <1>6 DEF Begin
  <2>2. Cardinality(Admitted') = Cardinality(Admitted) - 1
    BY <1>1, <2>1, OneLeaves
  <2>3. QED
    BY <1>1, <2>1, <2>2 DEF Cleared
<1>7. ASSUME StrayArrives
      PROVE  Cleared' <= Cleared /\ Cleared' < Cleared
  <2>1. Admitted' = Admitted /\ stray' = stray - 1
    BY <1>7 DEF StrayArrives, Admitted
  <2>2. QED
    BY <1>1, <2>1 DEF Cleared
<1>8. ASSUME NEW e \in Elements, NEW p, p # "sent",
             pc' = [pc EXCEPT ![e] = p], stray' = stray
      PROVE  Cleared' <= Cleared
  <2>1. Cardinality(Admitted') = IF pc[e] = "sent"
                                  THEN Cardinality(Admitted) - 1
                                  ELSE Cardinality(Admitted)
    BY <1>8, OneLeaves
  <2>2. QED
    BY <1>1, <1>8, <2>1 DEF Cleared
<1>9. ASSUME NEW e \in Elements, NEW at, NEW d, Send(e, at, d), at # "sent"
      PROVE  Cleared' <= Cleared /\ job' = job
  BY <1>8, <1>9 DEF Send
<1>10. CASE View \/ Login \/ Sign \/ LoginFails
  BY <1>1, <1>8, <1>9, <1>10 DEF View, Login, Sign, LoginFails
<1>11. ASSUME NEW e \in {"update", "drop"},
              Command(e) \/ Conflict(e) \/ JobDone(e) \/ JobFails(e)
       PROVE  Cleared' <= Cleared /\ (job = "idle" => job' = "idle")
  <2>1. CASE Command(e)
    BY <1>1, <1>9, <2>1 DEF Command
  <2>2. CASE Conflict(e) \/ JobDone(e) \/ JobFails(e)
    BY <1>1, <1>8, <2>2 DEF Conflict, JobDone, JobFails
  <2>3. QED
    BY <1>11, <2>1, <2>2
<1>12. ASSUME NEW q \in Pollers, Poll(q)
       PROVE  Cleared' <= Cleared /\ job' = job
  BY <1>9, <1>12 DEF Poll, Elements
<1>13. ASSUME NEW e \in Elements, Read(e) \/ Refuse(e)
       PROVE  Cleared' <= Cleared /\ job' = job
  <2>1. CASE Read(e)
    <3>1. After[pc[e]] # "sent"
      BY <2>1 DEF Read, After, Reads
    <3>2. QED
      BY <1>8, <2>1, <3>1 DEF Read
  <2>2. CASE Refuse(e)
    BY <1>8, <2>2 DEF Refuse
  <2>3. QED
    BY <1>13, <2>1, <2>2
<1>14. ASSUME NEW e \in Elements, Deliver(e)
       PROVE  Cleared' <= Cleared /\ (job = "idle" => job' = "idle")
  <2>1. CASE draft[e].page = "redirect"
    BY <1>4, <1>14, <2>1 DEF Deliver
  <2>2. CASE draft[e].page # "redirect"
    BY <1>8, <1>14, <2>2 DEF Deliver
  <2>3. QED
    BY <2>1, <2>2
<1>15. CASE Reload
  BY <1>4, <1>15 DEF Reload
<1>16. CASE OrphanEnds \/ Tick \/ UNCHANGED vars
  <2>1. Admitted' = Admitted /\ stray' = stray
    BY <1>16 DEF OrphanEnds, Tick, vars, Admitted
  <2>2. job = "idle" => job' = "idle"
    BY <1>16 DEF OrphanEnds, Tick, vars
  <2>3. QED
    BY <1>1, <2>1, <2>2 DEF Cleared
<1>17. QED
  BY <1>3, <1>5, <1>6, <1>7, <1>10, <1>11, <1>12, <1>13, <1>14, <1>15, <1>16
  DEF Next, View, Login, Sign, LoginFails, Send

\* Jobs that start once the last token has expired were let through before,
\* and there are no more of them than there were such commands
\* (middleware/auth.go:21-26, update/core/service.go:38-42).
THEOREM Authorised == Spec => JobsAreAuthorised
<1>1. Inv /\ [Next]_vars
        => [issued <= clock =>
              /\ Cleared' <= Cleared
              /\ job = "idle" /\ job' # "idle" => Cleared' < Cleared]_vars
  BY StepsClearNothing
<1>2. QED
  BY <1>1, InvHolds, PTL DEF Spec, JobsAreAuthorised

===========================================================================
