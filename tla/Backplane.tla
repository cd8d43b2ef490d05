------------------------------ MODULE Backplane ------------------------------
(***************************************************************************)
(* The in-process backplane `Local`: one order counter per topic, and      *)
(* synchronous delivery to every attached sink while the LocalState mutex  *)
(* is held.  What a sink answers is left to whoever uses these actions:    *)
(* the specification at the end of this module lets it answer anything,    *)
(* module Registry decides it from the state of the node.                  *)
(*                                                                         *)
(* A publish is identified by its topic, its order and whether its payload *)
(* can be encoded in an update frame; the octets are abstracted.           *)
(***************************************************************************)
EXTENDS Naturals, FiniteSets

CONSTANTS Topics,     \* topic names
          Sinks,      \* sinks that may attach (registries, or any UpdateSink)
          Callers,    \* threads that call publish
          MaxOrder,   \* bound: no publish starts once a counter reached it
          NoPublish   \* "the LocalState mutex is free"

VARIABLES orders,     \* LocalState.orders: last order of each topic
          sinks,      \* LocalState.sinks that still upgrade
          waiting,    \* callers blocked on the LocalState mutex
          held,       \* the publish that holds the mutex, or NoPublish
          answer,     \* what the caller's last publish returned
          taken,      \* history: the orders each sink accepted, per topic
          spent       \* history: orders consumed without any fan-out

bpvars == <<orders, sinks, waiting, held, answer, taken, spent>>

Refusals == {"Draining", "Build", "Rejected"}
HardRefusals == {"Build", "Rejected"}
Answers == {"none", "Ok"} \union Refusals

\* The locals of one Local::publish call.
Publish == [caller: Callers, topic: Topics, order: Nat, fits: BOOLEAN,
            todo: SUBSET Sinks, delivered_any: BOOLEAN,
            first_hard: {"none"} \union HardRefusals,
            first_soft: {"none", "Draining"}]

ASSUME BackplaneAssumption == MaxOrder \in Nat /\ NoPublish \notin Publish

BPTypeOK == /\ orders \in [Topics -> Nat]
            /\ sinks \subseteq Sinks
            /\ waiting \subseteq Callers
            /\ held \in Publish \union {NoPublish}
            /\ answer \in [Callers -> Answers]
            /\ taken \in [Sinks -> [Topics -> SUBSET Nat]]
            /\ spent \in [Topics -> SUBSET Nat]

BPInit == /\ orders = [t \in Topics |-> 0]
          /\ sinks = {}
          /\ waiting = {}
          /\ held = NoPublish
          /\ answer = [p \in Callers |-> "none"]
          /\ taken = [k \in Sinks |-> [t \in Topics |-> {}]]
          /\ spent = [t \in Topics |-> {}]
-----------------------------------------------------------------------------
\* attach: prune the dead entries and push the new sink, under the mutex.
Attach(k) == /\ held = NoPublish
             /\ k \notin sinks
             /\ sinks' = sinks \union {k}
             /\ UNCHANGED <<orders, waiting, held, answer, taken, spent>>

\* The last strong reference to a sink goes away: its Weak no longer upgrades.
\* A delivery in progress holds an upgraded reference of its own.
SinkGone(k) == /\ k \in sinks
               /\ sinks' = sinks \ {k}
               /\ held' = IF held = NoPublish THEN held
                          ELSE [held EXCEPT !.todo = @ \ {k}]
               /\ UNCHANGED <<orders, waiting, answer, taken, spent>>

\* A thread calls publish and blocks on the mutex.
PublishCall(p) == /\ p \notin waiting
                  /\ held # NoPublish => held.caller # p
                  /\ waiting' = waiting \union {p}
                  /\ answer' = [answer EXCEPT ![p] = "none"]
                  /\ UNCHANGED <<orders, sinks, held, taken, spent>>

\* The mutex is taken and the next order computed (not yet committed).
PublishLock(p, t, fits) ==
    /\ held = NoPublish
    /\ p \in waiting
    /\ orders[t] < MaxOrder
    /\ waiting' = waiting \ {p}
    /\ held' = [caller |-> p, topic |-> t, order |-> orders[t] + 1, fits |-> fits,
                todo |-> sinks, delivered_any |-> FALSE,
                first_hard |-> "none", first_soft |-> "none"]
    /\ UNCHANGED <<orders, sinks, answer, taken, spent>>

\* One sink accepted the sequenced update.  `order` is the stamp it was given.
SinkAccepts(k) ==
    /\ held # NoPublish
    /\ k \in held.todo
    /\ held' = [held EXCEPT !.todo = @ \ {k}, !.delivered_any = TRUE]
    /\ taken' = [taken EXCEPT ![k][held.topic] = @ \union {held.order}]
    /\ UNCHANGED <<orders, sinks, waiting, answer, spent>>

\* The first hard cause is kept.
KeepHard(cause, kept) == IF cause \in HardRefusals /\ kept = "none" THEN cause ELSE kept

\* One sink refused it: the first hard and the first soft cause are kept.
SinkRefuses(k, cause) ==
    /\ held # NoPublish
    /\ k \in held.todo
    /\ held' = [held EXCEPT
                  !.todo = @ \ {k},
                  !.first_hard = KeepHard(cause, @),
                  !.first_soft = IF cause \in HardRefusals THEN @ ELSE "Draining"]
    /\ UNCHANGED <<orders, sinks, waiting, answer, taken, spent>>

\* Mutant: a draining sink is reported although another one took the update.
VerdictSoftFirst(h) == IF h.first_hard # "none" THEN h.first_hard
                       ELSE IF h.first_soft # "none" THEN "Draining" ELSE "Ok"

\* The caller's answer once every sink was asked.
Verdict(h) ==
    CASE h.first_hard # "none" -> h.first_hard
      [] h.first_hard = "none" /\ ~h.delivered_any /\ h.first_soft # "none" -> "Draining"
      [] OTHER -> "Ok"

\* No sink was there to ask.
NoSink(h) == ~h.delivered_any /\ h.first_hard = "none" /\ h.first_soft = "none"

\* Mutant: an all-refuse publish burns its stamp too.
BurnsAlways(h) == TRUE

\* Mutant: a hard refusal keeps the stamp even though a sink accepted it.
BurnsUnlessHard(h) == h.first_hard = "none" /\ (h.delivered_any \/ h.first_soft = "none")

\* Mutant: a draining sink keeps the stamp even though another accepted it.
BurnsUnlessSoft(h) == h.first_soft = "none" /\ (h.delivered_any \/ h.first_hard = "none")

\* The stamp burns when a sink accepted, or when there was no sink to ask.
Burns(h) == h.delivered_any \/ NoSink(h)

\* publish returns and the mutex is released.
PublishSettle ==
    /\ held # NoPublish
    /\ held.todo = {}
    /\ orders' = IF Burns(held) THEN [orders EXCEPT ![held.topic] = held.order] ELSE orders
    /\ spent' = IF NoSink(held)
                THEN [spent EXCEPT ![held.topic] = @ \union {held.order}] ELSE spent
    /\ answer' = [answer EXCEPT ![held.caller] = Verdict(held)]
    /\ held' = NoPublish
    /\ UNCHANGED <<sinks, waiting, taken>>

\* Mutant: the reserved order is handed out but never stored in the counter.
ReserveWithoutStore(t) ==
    /\ held = NoPublish
    /\ spent' = [spent EXCEPT ![t] = @ \union {orders[t] + 1}]
    /\ UNCHANGED <<orders, sinks, waiting, held, answer, taken>>

\* reserve_order: claim the next order without fan-out, under the mutex.
ReserveOrder(t) ==
    /\ held = NoPublish
    /\ orders' = [orders EXCEPT ![t] = @ + 1]
    /\ spent' = [spent EXCEPT ![t] = @ \union {orders[t] + 1}]
    /\ UNCHANGED <<sinks, waiting, held, answer, taken>>
-----------------------------------------------------------------------------
\* The backplane on its own: any sink may give any answer at any time.
BPNext == \/ \E k \in Sinks : Attach(k) \/ SinkGone(k) \/ SinkAccepts(k)
          \/ \E k \in Sinks, cause \in Refusals : SinkRefuses(k, cause)
          \/ \E p \in Callers : PublishCall(p)
          \/ \E p \in Callers, t \in Topics, fits \in BOOLEAN : PublishLock(p, t, fits)
          \/ PublishSettle
          \/ \E t \in Topics : orders[t] < MaxOrder /\ ReserveOrder(t)

BPSpec == BPInit /\ [][BPNext]_bpvars
-----------------------------------------------------------------------------
\* Every committed order was used exactly once: either some sink fanned it out
\* as an update, or it was consumed without fan-out (an end/ stamp, or a publish
\* that had no live sink).  An all-refuse publish leaves no hole in the counter,
\* and an end stamp never collides with an update (Local::publish,
\* Local::reserve_order).
EveryStampUsedOnce ==
    \A t \in Topics : \A o \in 1..orders[t] :
        (o \in spent[t]) <=> ~(\E k \in Sinks : o \in taken[k][t])

\* Once publish returned, an order that any sink accepted is committed, whatever
\* the other sinks answered: a hard refusal after a partial accept still burns
\* the stamp, so no later publish can reuse it.
AcceptedIsCommitted ==
    held = NoPublish =>
        \A k \in Sinks, t \in Topics : taken[k][t] \subseteq 1..orders[t]

\* A sink accepts the orders of a topic in increasing order, above every stamp
\* reserved so far: the mutex spans sequencing and delivery, so two racing
\* publishes, or a publish racing a reserve_order, never arrive out of order.
ArrivesInStampOrder ==
    [][\A k \in Sinks, t \in Topics :
          \A o \in taken'[k][t] \ taken[k][t], e \in taken[k][t] \union spent[t] : e < o]_bpvars

\* What publish answers can be relied on: Ok means that the stamp is committed;
\* Draining means that nothing happened anywhere (no sink took the update and no
\* stamp was burned), so the caller may publish the same payload again elsewhere.
AnswerIsReliable ==
    [][\A p \in Callers : answer'[p] # answer[p] =>
          /\ answer'[p] = "Ok" => orders'[held.topic] = held.order
          /\ answer'[p] = "Draining" =>
                /\ orders' = orders
                /\ \A k \in Sinks : held.order \notin taken[k][held.topic]]_bpvars
=============================================================================
