---------------------------- MODULE SearchIndex ----------------------------
(***************************************************************************)
(* The in-memory index of the search service: BuildIndex of                *)
(* search/core/service.go and the two goroutines that call it, the         *)
(* initiator (once at the start, then on a ticker) and the subscriber (on  *)
(* notifications of the update service that arrive through NATS).          *)
(*                                                                         *)
(* The contents of the comics table are a version number that grows with   *)
(* every committed change; the index is the version its builder listed.    *)
(* NATS delivers a message at most once, and only to a subscription that   *)
(* exists when it is published.                                            *)
(***************************************************************************)
EXTENDS Naturals

CONSTANTS
    MaxVersion,     \* bound: changes of the comics table
    MaxRestarts     \* bound: restarts of the search service

ASSUME BoundsAssumption == MaxVersion \in Nat /\ MaxRestarts \in Nat

Builders == {"initiator", "subscriber"}
Versions == 0..MaxVersion

VARIABLES
    db,         \* version of the comics table
    net,        \* messages on their way to the subscription, each as the
                \* version of the table when it was published
    trigger,    \* the channel of capacity one holds an element
    pc,         \* where each builder is
    snap,       \* what the List of each builder returned
    index,      \* Service.index and Service.comics
    restarts,   \* restarts of the service so far
    heard,      \* history: the last version a delivered message announced
    newest,     \* history: the last version ever installed by this process
    missed,     \* history: the subscriber's last build failed
    raced       \* history: the other builder has installed an index since
                \* the List of this one

vars == <<db, net, trigger, pc, snap, index, restarts, heard, newest,
          missed, raced>>

Later(u, v) == IF u < v THEN v ELSE u

Other(b) == CHOOSE a \in Builders : a # b

\* A process that has just started: the initiator is about to build, the
\* subscriber about to connect, and the index is empty.
Started ==
    [b \in Builders |-> IF b = "initiator" THEN "list" ELSE "connect"]
Nothing == [b \in Builders |-> 0]
Nobody  == [b \in Builders |-> FALSE]

Init ==
    /\ db = 0 /\ net = {} /\ trigger = FALSE
    /\ pc = Started /\ snap = Nothing /\ index = 0
    /\ restarts = 0 /\ heard = 0 /\ newest = 0
    /\ missed = FALSE /\ raced = Nobody

-----------------------------------------------------------------------------
(* The update service and NATS, as the search service sees them *)

Change ==
    /\ db < MaxVersion
    /\ db' = db + 1
    /\ UNCHANGED <<net, trigger, pc, snap, index, restarts, heard, newest,
                   missed, raced>>

Subscribed == pc["subscriber"] # "connect"

\* Slip: the notification is sent before the change it announces.
PublishEarly ==
    /\ Subscribed
    /\ net' = net \cup {db + 1}
    /\ UNCHANGED <<db, trigger, pc, snap, index, restarts, heard, newest,
                   missed, raced>>

Publish ==
    /\ Subscribed
    /\ net' = net \cup {db}
    /\ UNCHANGED <<db, trigger, pc, snap, index, restarts, heard, newest,
                   missed, raced>>

Lose ==
    /\ \E v \in net : net' = net \ {v}
    /\ UNCHANGED <<db, trigger, pc, snap, index, restarts, heard, newest,
                   missed, raced>>

-----------------------------------------------------------------------------
(* The subscriber *)

\* nats.Connect and Subscribe succeed.
Connect ==
    /\ pc["subscriber"] = "connect"
    /\ pc' = [pc EXCEPT !["subscriber"] = "wait"]
    /\ UNCHANGED <<db, net, trigger, snap, index, restarts, heard, newest,
                   missed, raced>>

\* Slip: the channel has no buffer, so the send only succeeds while the loop
\* is waiting for it.
DeliverUnbuffered(v) ==
    /\ v \in net
    /\ net' = net \ {v}
    /\ heard' = Later(heard, v)
    /\ trigger' = (trigger \/ pc["subscriber"] = "wait")
    /\ UNCHANGED <<db, pc, snap, index, restarts, newest, missed, raced>>

\* The callback: a send that does not block, so a full channel stays full.
Deliver(v) ==
    /\ v \in net
    /\ net' = net \ {v}
    /\ heard' = Later(heard, v)
    /\ trigger' = TRUE
    /\ UNCHANGED <<db, pc, snap, index, restarts, newest, missed, raced>>

TakeTrigger ==
    /\ pc["subscriber"] = "wait"
    /\ trigger
    /\ trigger' = FALSE
    /\ missed' = FALSE
    /\ pc' = [pc EXCEPT !["subscriber"] = "list"]
    /\ UNCHANGED <<db, net, snap, index, restarts, heard, newest, raced>>

-----------------------------------------------------------------------------
(* The initiator *)

\* Slip: the initiator returns after the first build.
TickNever ==
    /\ FALSE
    /\ UNCHANGED vars

Tick ==
    /\ pc["initiator"] = "wait"
    /\ pc' = [pc EXCEPT !["initiator"] = "list"]
    /\ UNCHANGED <<db, net, trigger, snap, index, restarts, heard, newest,
                   missed, raced>>

-----------------------------------------------------------------------------
(* BuildIndex *)

\* Slip: the rows of the last build are used again.
ListOkCached(b) ==
    /\ pc[b] = "list"
    /\ snap' = IF snap[b] = 0 THEN [snap EXCEPT ![b] = db] ELSE snap
    /\ raced' = [raced EXCEPT ![b] = FALSE]
    /\ pc' = [pc EXCEPT ![b] = "swap"]
    /\ UNCHANGED <<db, net, trigger, index, restarts, heard, newest, missed>>

\* db.List reads the table; the maps are built from what it returned.
ListOk(b) ==
    /\ pc[b] = "list"
    /\ snap' = [snap EXCEPT ![b] = db]
    /\ raced' = [raced EXCEPT ![b] = FALSE]
    /\ pc' = [pc EXCEPT ![b] = "swap"]
    /\ UNCHANGED <<db, net, trigger, index, restarts, heard, newest, missed>>

\* The error is logged and the builder waits for its next occasion.
ListFail(b) ==
    /\ pc[b] = "list"
    /\ pc' = [pc EXCEPT ![b] = "wait"]
    /\ missed' = (missed \/ b = "subscriber")
    /\ UNCHANGED <<db, net, trigger, snap, index, restarts, heard, newest,
                   raced>>

\* Both maps are replaced under the write lock.
Swap(b) ==
    /\ pc[b] = "swap"
    /\ index' = snap[b]
    /\ newest' = Later(newest, snap[b])
    /\ raced' = [raced EXCEPT ![Other(b)] = TRUE]
    /\ pc' = [pc EXCEPT ![b] = "wait"]
    /\ UNCHANGED <<db, net, trigger, snap, restarts, heard, missed>>

\* The process ends, by a signal, a failed Subscribe or a crash, and is
\* started again.  Its subscription is gone, and what was on its way to it.
Restart ==
    /\ restarts < MaxRestarts
    /\ restarts' = restarts + 1
    /\ net' = {} /\ trigger' = FALSE
    /\ pc' = Started /\ snap' = Nothing /\ index' = 0
    /\ heard' = 0 /\ newest' = 0
    /\ missed' = FALSE /\ raced' = Nobody
    /\ UNCHANGED db

-----------------------------------------------------------------------------
Build(b) == ListOk(b) \/ ListFail(b) \/ Swap(b)

Next ==
    \/ Change \/ Publish \/ Lose
    \/ Connect \/ (\E v \in Versions : Deliver(v)) \/ TakeTrigger
    \/ Tick
    \/ \E b \in Builders : Build(b)
    \/ Restart

Spec == Init /\ [][Next]_vars

\* The goroutines of the search service are scheduled, and List answers.
Scheduled ==
    /\ WF_vars(Connect)
    /\ WF_vars(TakeTrigger)
    /\ \A b \in Builders : WF_vars(Build(b))

\* Besides, the ticker fires, and a List that is tried again and again
\* succeeds some time.
Ticking == WF_vars(Tick) /\ \A b \in Builders : SF_vars(ListOk(b))

ScheduledSpec == Spec /\ Scheduled

-----------------------------------------------------------------------------
(* Properties *)

\* Types; and neither the index nor a snapshot is ahead of the table, nor a
\* message ahead of the change it announces.
TypeOK ==
    /\ db \in Versions
    /\ net \in SUBSET (0..db)
    /\ trigger \in BOOLEAN
    /\ pc \in [Builders -> {"connect", "wait", "list", "swap"}]
    /\ pc["initiator"] # "connect"
    /\ snap \in [Builders -> 0..db]
    /\ index \in 0..newest
    /\ restarts \in 0..MaxRestarts
    /\ heard \in 0..db
    /\ newest \in 0..db
    /\ missed \in BOOLEAN
    /\ raced \in [Builders -> BOOLEAN]

\* A message that reached the callback is never forgotten: until an index at
\* least as new as the change it announced has been installed, the channel
\* holds a trigger, or the subscriber is about to list, or holds rows that
\* are new enough, or its last build failed (update_subscriber.go:39-64).
NoLostWakeup ==
    \/ heard <= newest
    \/ trigger
    \/ pc["subscriber"] = "list"
    \/ pc["subscriber"] = "swap" /\ snap["subscriber"] >= heard
    \/ missed

\* A builder never puts an older index in place of a newer one, unless the
\* other builder has installed its own between this one's List and its swap
\* (search/core/service.go:74-100).
NoRegressAlone ==
    [][\A b \in Builders :
        Swap(b) /\ index' < index => raced[b]]_vars

\* A message that reached the callback leads to an index at least as new,
\* unless that build fails or the service restarts: however many messages
\* come and however they are merged in the channel, and whether or not the
\* ticker ever fires (update_subscriber.go:39-64).
HeardIsBuilt ==
    \A v \in Versions, r \in 0..MaxRestarts :
        heard >= v /\ restarts = r ~> newest >= v \/ missed \/ restarts # r

\* However many messages are lost, builds fail, overlap, or processes die,
\* once the table changes no more the index ends up equal to it, if only the
\* ticker fires and some List succeeds: the ticker repairs what the
\* notifications missed (initiator.go:35-46).
EventuallyFresh == Ticking => <>[](index = db)

\* What tests/search_test.go:138 counts on: after an update whose
\* notification was delivered and whose build succeeded, the index is the
\* table.
HeardAll == heard = db /\ ~trigger /\ ~missed

AtRest == \A b \in Builders : pc[b] = "wait"

BuiltIsCurrent == AtRest /\ HeardAll => index = db

=============================================================================
