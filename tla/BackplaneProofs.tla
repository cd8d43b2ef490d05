--------------------------- MODULE BackplaneProofs ---------------------------
(***************************************************************************)
(* Proofs about the backplane, for any sets of topics, sinks and callers.   *)
(*                                                                          *)
(* The publish in progress holds the next order, which no sink has taken    *)
(* unless delivered_any says so; every other order in the history is at or  *)
(* below the counter.  With that the stamps cannot collide.                 *)
(***************************************************************************)
EXTENDS Backplane, TLAPS

\* The order in progress is the one after the counter.
HeldIsNext == held # NoPublish => held.order = orders[held.topic] + 1

\* An order in the history is committed, or it is the one in progress.
HistoryBounded ==
    /\ \A t \in Topics : spent[t] \subseteq 1..orders[t]
    /\ \A k \in Sinks, t \in Topics : \A o \in taken[k][t] :
          \/ o \in 1..orders[t]
          \/ held # NoPublish /\ held.delivered_any /\ held.topic = t /\ held.order = o

\* delivered_any has a witness.
DeliveredSomewhere ==
    held # NoPublish /\ held.delivered_any =>
        \E k \in Sinks : held.order \in taken[k][held.topic]

BPInv == BPTypeOK /\ HeldIsNext /\ HistoryBounded /\ DeliveredSomewhere /\ EveryStampUsedOnce

\* A step of the backplane, without the bound that the runs put on reserve_order.
BPStep == BPNext \/ \E t \in Topics : ReserveOrder(t)

\* Every step of the backplane keeps the types of its state.
LEMMA BPTypeStep == BPTypeOK /\ [BPStep]_bpvars => BPTypeOK'
<1> SUFFICES ASSUME BPTypeOK, [BPStep]_bpvars PROVE BPTypeOK'
  OBVIOUS
<1> USE DEF BPTypeOK
<1>1. ASSUME NEW k \in Sinks, Attach(k) PROVE BPTypeOK'
  BY <1>1 DEF Attach
<1>2. ASSUME NEW k \in Sinks, SinkGone(k) PROVE BPTypeOK'
  BY <1>2 DEF SinkGone, Publish
<1>3. ASSUME NEW k \in Sinks, SinkAccepts(k) PROVE BPTypeOK'
  <2>1. held' \in Publish
    BY <1>3, Zenon DEF SinkAccepts, Publish
  <2>2. taken' \in [Sinks -> [Topics -> SUBSET Nat]]
    BY <1>3 DEF SinkAccepts, Publish
  <2> QED BY <1>3, <2>1, <2>2 DEF SinkAccepts
<1>4. ASSUME NEW k \in Sinks, NEW cause \in Refusals, SinkRefuses(k, cause) PROVE BPTypeOK'
  <2>1. held' \in Publish
    BY <1>4, Zenon DEF SinkRefuses, Publish, Refusals, HardRefusals, KeepHard
  <2> QED BY <1>4, <2>1 DEF SinkRefuses
<1>5. ASSUME NEW p \in Callers, PublishCall(p) PROVE BPTypeOK'
  BY <1>5 DEF PublishCall, Answers
<1>6. ASSUME NEW p \in Callers, NEW t \in Topics, NEW fits \in BOOLEAN, PublishLock(p, t, fits)
      PROVE  BPTypeOK'
  BY <1>6 DEF PublishLock, Publish
<1>7. CASE PublishSettle
  <2>1. held \in Publish
    BY <1>7 DEF PublishSettle
  <2>2. Verdict(held) \in Answers
    BY <2>1 DEF Verdict, Publish, Answers, Refusals, HardRefusals
  <2>3. orders' \in [Topics -> Nat] /\ spent' \in [Topics -> SUBSET Nat]
    BY <1>7, <2>1 DEF PublishSettle, Publish
  <2> QED BY <1>7, <2>1, <2>2, <2>3, Zenon DEF PublishSettle
<1>8. ASSUME NEW t \in Topics, ReserveOrder(t) PROVE BPTypeOK'
  BY <1>8 DEF ReserveOrder
<1>9. CASE UNCHANGED bpvars
  BY <1>9 DEF bpvars
<1> QED BY <1>1, <1>2, <1>3, <1>4, <1>5, <1>6, <1>7, <1>8, <1>9 DEF BPStep, BPNext

\* What an accept by sink k does to the publish in progress and to the history.
LEMMA AcceptEffect ==
    ASSUME BPTypeOK, NEW k \in Sinks, SinkAccepts(k)
    PROVE  /\ held \in Publish /\ held # NoPublish /\ held.topic \in Topics
           /\ held' # NoPublish /\ held'.delivered_any
           /\ held'.order = held.order /\ held'.topic = held.topic
           /\ taken'[k][held.topic] = taken[k][held.topic] \union {held.order}
           /\ \A j \in Sinks, t \in Topics :
                 j # k \/ t # held.topic => taken'[j][t] = taken[j][t]
<1>1. held \in Publish /\ held # NoPublish
  BY DEF SinkAccepts, BPTypeOK
<1>2. held.topic \in Topics
  BY <1>1 DEF Publish
<1>3. /\ held' \in Publish /\ held'.delivered_any
      /\ held'.order = held.order /\ held'.topic = held.topic
  BY <1>1, Zenon DEF SinkAccepts, Publish
<1>4. held' # NoPublish
  BY <1>3, BackplaneAssumption
<1>5. taken' = [taken EXCEPT ![k] = [taken[k] EXCEPT ![held.topic] = @ \union {held.order}]]
  BY DEF SinkAccepts
<1>6. taken \in [Sinks -> [Topics -> SUBSET Nat]]
  BY DEF BPTypeOK
<1>7. taken'[k] = [taken[k] EXCEPT ![held.topic] = @ \union {held.order}]
  BY <1>5, <1>6
<1>8. taken[k] \in [Topics -> SUBSET Nat]
  BY <1>6
<1>9. taken'[k][held.topic] = taken[k][held.topic] \union {held.order}
  BY <1>2, <1>7, <1>8
<1>10. ASSUME NEW j \in Sinks, NEW t \in Topics, j # k \/ t # held.topic
       PROVE  taken'[j][t] = taken[j][t]
  <2>1. CASE j = k
    BY <1>7, <1>8, <1>10, <2>1
  <2>2. CASE j # k
    BY <1>5, <1>6, <2>2
  <2> QED BY <2>1, <2>2
<1> QED BY <1>1, <1>2, <1>3, <1>4, <1>9, <1>10

\* A refusal by sink k, or a sink that goes away, leaves what the invariant reads of
\* the publish in progress as it was.
LEMMA RefusalEffect ==
    ASSUME BPTypeOK, NEW k \in Sinks,
           SinkGone(k) \/ \E cause \in Refusals : SinkRefuses(k, cause)
    PROVE  /\ (held = NoPublish) <=> (held' = NoPublish)
           /\ held # NoPublish => /\ held'.order = held.order
                                  /\ held'.topic = held.topic
                                  /\ held'.delivered_any = held.delivered_any
           /\ UNCHANGED <<orders, taken, spent>>
<1>1. CASE held = NoPublish
  BY <1>1 DEF SinkGone, SinkRefuses
<1>2. CASE held # NoPublish
  <2>1. held \in Publish
    BY <1>2 DEF BPTypeOK
  <2>2. /\ held' \in Publish /\ held'.order = held.order /\ held'.topic = held.topic
        /\ held'.delivered_any = held.delivered_any
    <3>1. CASE SinkGone(k)
      BY <1>2, <2>1, <3>1 DEF SinkGone, Publish
    <3>2. ASSUME NEW cause \in Refusals, SinkRefuses(k, cause)
          PROVE  /\ held' \in Publish /\ held'.order = held.order /\ held'.topic = held.topic
                 /\ held'.delivered_any = held.delivered_any
      BY <2>1, <3>2, Zenon DEF SinkRefuses, Publish, Refusals, HardRefusals, KeepHard
    <3> QED BY <3>1, <3>2
  <2>3. held' # NoPublish
    BY <2>2, BackplaneAssumption
  <2> QED BY <1>2, <2>2, <2>3, Zenon DEF SinkGone, SinkRefuses
<1> QED BY <1>1, <1>2

\* The inductive step: no operation reuses a stamp, loses one, or records one the
\* counter has not reached.
LEMMA BPInvStep == BPInv /\ [BPStep]_bpvars => BPInv'
<1> SUFFICES ASSUME BPInv, [BPStep]_bpvars PROVE BPInv'
  OBVIOUS
<1>0. BPTypeOK /\ BPTypeOK'
  BY BPTypeStep DEF BPInv
<1>a. HeldIsNext /\ HistoryBounded /\ DeliveredSomewhere /\ EveryStampUsedOnce
  BY DEF BPInv
<1>b. ASSUME HeldIsNext', HistoryBounded', DeliveredSomewhere', EveryStampUsedOnce'
      PROVE BPInv'
  BY <1>0, <1>b DEF BPInv
<1>c. ASSUME UNCHANGED <<orders, held, taken, spent>> PROVE BPInv'
  BY <1>a, <1>b, <1>c DEF HeldIsNext, HistoryBounded, DeliveredSomewhere, EveryStampUsedOnce
<1>d. orders \in [Topics -> Nat] /\ spent \in [Topics -> SUBSET Nat]
      /\ taken \in [Sinks -> [Topics -> SUBSET Nat]]
  BY <1>0 DEF BPTypeOK
<1>1. ASSUME NEW k \in Sinks, Attach(k) PROVE BPInv'
  BY <1>c, <1>1 DEF Attach
<1>2. ASSUME NEW k \in Sinks,
             SinkGone(k) \/ \E cause \in Refusals : SinkRefuses(k, cause)
      PROVE  BPInv'
  <2>1. /\ (held = NoPublish) <=> (held' = NoPublish)
        /\ held # NoPublish => /\ held'.order = held.order
                               /\ held'.topic = held.topic
                               /\ held'.delivered_any = held.delivered_any
        /\ UNCHANGED <<orders, taken, spent>>
    BY <1>0, <1>2, RefusalEffect
  <2>2. HeldIsNext'
    BY <1>a, <2>1 DEF HeldIsNext
  <2>3. HistoryBounded'
    BY <1>a, <2>1 DEF HistoryBounded
  <2>4. DeliveredSomewhere'
    BY <1>a, <2>1, Zenon DEF DeliveredSomewhere
  <2>5. EveryStampUsedOnce'
    BY <1>a, <2>1 DEF EveryStampUsedOnce
  <2> QED BY <1>b, <2>2, <2>3, <2>4, <2>5
<1>3. ASSUME NEW k \in Sinks, SinkAccepts(k) PROVE BPInv'
  <2>1. /\ held # NoPublish /\ held.topic \in Topics
        /\ held' # NoPublish /\ held'.delivered_any
        /\ held'.order = held.order /\ held'.topic = held.topic
    BY <1>0, <1>3, AcceptEffect
  <2>2. /\ taken'[k][held.topic] = taken[k][held.topic] \union {held.order}
        /\ \A j \in Sinks, t \in Topics : j # k \/ t # held.topic => taken'[j][t] = taken[j][t]
    BY <1>0, <1>3, AcceptEffect
  <2>3. UNCHANGED <<orders, spent>>
    BY <1>3 DEF SinkAccepts
  <2>4. held.order = orders[held.topic] + 1 /\ orders[held.topic] \in Nat
    BY <1>a, <1>d, <2>1 DEF HeldIsNext
  <2>5. HeldIsNext'
    BY <2>1, <2>3, <2>4 DEF HeldIsNext
  <2>6. HistoryBounded'
    <3>1. ASSUME NEW j \in Sinks, NEW t \in Topics, NEW o \in taken'[j][t]
          PROVE  \/ o \in 1..orders'[t]
                 \/ /\ held' # NoPublish /\ held'.delivered_any
                    /\ held'.topic = t /\ held'.order = o
      <4>1. o \in taken[j][t] \/ (t = held.topic /\ o = held.order)
        BY <2>2, <3>1
      <4> QED BY <1>a, <2>1, <2>3, <4>1 DEF HistoryBounded
    <3>2. \A t \in Topics : spent'[t] \subseteq 1..orders'[t]
      BY <1>a, <2>3 DEF HistoryBounded
    <3> QED BY <3>1, <3>2 DEF HistoryBounded
  <2>7. DeliveredSomewhere'
    BY <2>1, <2>2 DEF DeliveredSomewhere
  <2>8. EveryStampUsedOnce'
    <3>1. ASSUME NEW t \in Topics, NEW o \in 1..orders[t], NEW j \in Sinks
          PROVE  o \in taken'[j][t] <=> o \in taken[j][t]
      <4>1. CASE j = k /\ t = held.topic
        BY <2>2, <2>4, <3>1, <4>1
      <4>2. CASE j # k \/ t # held.topic
        BY <2>2, <4>2
      <4> QED BY <4>1, <4>2
    <3> QED BY <1>a, <2>3, <3>1 DEF EveryStampUsedOnce
  <2> QED BY <1>b, <2>5, <2>6, <2>7, <2>8
<1>5. ASSUME NEW p \in Callers, PublishCall(p) PROVE BPInv'
  BY <1>c, <1>5 DEF PublishCall
<1>6. ASSUME NEW p \in Callers, NEW t \in Topics, NEW fits \in BOOLEAN, PublishLock(p, t, fits)
      PROVE  BPInv'
  <2>1. /\ held'.topic = t /\ held'.order = orders[t] + 1 /\ held'.delivered_any = FALSE
        /\ held = NoPublish /\ UNCHANGED <<orders, taken, spent>>
    BY <1>6 DEF PublishLock
  <2>2. HeldIsNext' /\ DeliveredSomewhere'
    BY <2>1 DEF HeldIsNext, DeliveredSomewhere
  <2>3. HistoryBounded' /\ EveryStampUsedOnce'
    BY <1>a, <2>1 DEF HistoryBounded, EveryStampUsedOnce
  <2> QED BY <1>b, <2>2, <2>3
<1>7. CASE PublishSettle
  <2> DEFINE t == held.topic
  <2>1. held \in Publish /\ held # NoPublish /\ held' = NoPublish /\ UNCHANGED taken
    BY <1>0, <1>7 DEF PublishSettle, BPTypeOK
  <2>2. t \in Topics /\ held.delivered_any \in BOOLEAN
    BY <2>1 DEF Publish
  <2>3. held.order = orders[t] + 1 /\ orders[t] \in Nat
    BY <1>a, <1>d, <2>1, <2>2 DEF HeldIsNext
  <2>4. HeldIsNext' /\ DeliveredSomewhere'
    BY <2>1 DEF HeldIsNext, DeliveredSomewhere
  <2>5. CASE held.delivered_any
    <3>1. UNCHANGED spent /\ orders' = [orders EXCEPT ![t] = orders[t] + 1]
      BY <1>7, <2>3, <2>5 DEF PublishSettle, Burns, NoSink
    <3>2. HistoryBounded'
      BY <1>a, <1>d, <2>1, <2>2, <2>3, <3>1 DEF HistoryBounded
    <3>3. \E k \in Sinks : orders[t] + 1 \in taken[k][t]
      BY <1>a, <2>1, <2>3, <2>5 DEF DeliveredSomewhere
    <3>4. orders[t] + 1 \notin spent[t]
      BY <1>a, <2>2, <2>3 DEF HistoryBounded
    <3>5. EveryStampUsedOnce'
      BY <1>a, <1>d, <2>1, <2>2, <2>3, <3>1, <3>3, <3>4 DEF EveryStampUsedOnce
    <3> QED BY <1>b, <2>4, <3>2, <3>5
  <2>6. CASE NoSink(held)
    <3>1. /\ spent' = [spent EXCEPT ![t] = @ \union {orders[t] + 1}]
          /\ orders' = [orders EXCEPT ![t] = orders[t] + 1]
      BY <1>7, <2>3, <2>6 DEF PublishSettle, Burns
    <3>2. \A k \in Sinks : \A r \in Topics : taken[k][r] \subseteq 1..orders[r]
      BY <1>a, <2>6 DEF NoSink, HistoryBounded
    <3>3. HistoryBounded'
      BY <1>a, <1>d, <2>1, <2>2, <3>1, <3>2 DEF HistoryBounded
    <3>4. EveryStampUsedOnce'
      BY <1>a, <1>d, <2>1, <2>2, <3>1, <3>2 DEF EveryStampUsedOnce
    <3> QED BY <1>b, <2>4, <3>3, <3>4
  <2>7. CASE ~held.delivered_any /\ ~NoSink(held)
    <3>1. UNCHANGED <<orders, spent>>
      BY <1>7, <2>7 DEF PublishSettle, Burns
    <3>2. HistoryBounded' /\ EveryStampUsedOnce'
      BY <1>a, <2>1, <2>7, <3>1 DEF HistoryBounded, EveryStampUsedOnce
    <3> QED BY <1>b, <2>4, <3>2
  <2> QED BY <2>5, <2>6, <2>7
<1>8. ASSUME NEW t \in Topics, ReserveOrder(t) PROVE BPInv'
  <2>1. /\ held = NoPublish /\ UNCHANGED <<held, taken>>
        /\ spent' = [spent EXCEPT ![t] = @ \union {orders[t] + 1}]
        /\ orders' = [orders EXCEPT ![t] = orders[t] + 1]
    BY <1>8 DEF ReserveOrder
  <2>2. \A k \in Sinks : \A r \in Topics : taken[k][r] \subseteq 1..orders[r]
    BY <1>a, <2>1 DEF HistoryBounded
  <2>3. HistoryBounded'
    BY <1>a, <1>d, <2>1, <2>2 DEF HistoryBounded
  <2>4. EveryStampUsedOnce'
    <3>1. ASSUME NEW r \in Topics, NEW o \in 1..orders'[r]
          PROVE  (o \in spent'[r]) <=> ~(\E k \in Sinks : o \in taken'[k][r])
      <4>1. CASE r = t /\ o = orders[t] + 1
        BY <1>d, <2>1, <2>2, <4>1
      <4>2. CASE r # t \/ o # orders[t] + 1
        <5>1. o \in 1..orders[r] /\ (o \in spent'[r] <=> o \in spent[r])
          <6>1. CASE r # t
            BY <1>d, <2>1, <3>1, <6>1
          <6>2. CASE r = t /\ o # orders[t] + 1
            <7>1. orders[t] \in Nat /\ orders'[t] = orders[t] + 1
              BY <1>d, <2>1
            <7>2. o \in 1..orders[r]
              BY <3>1, <6>2, <7>1
            <7>3. spent'[t] = spent[t] \union {orders[t] + 1}
              BY <1>d, <2>1
            <7> QED BY <6>2, <7>2, <7>3
          <6> QED BY <4>2, <6>1, <6>2
        <5> QED BY <1>a, <2>1, <5>1 DEF EveryStampUsedOnce
      <4> QED BY <4>1, <4>2
    <3> QED BY <3>1 DEF EveryStampUsedOnce
  <2>5. HeldIsNext' /\ DeliveredSomewhere'
    BY <2>1 DEF HeldIsNext, DeliveredSomewhere
  <2> QED BY <1>b, <2>3, <2>4, <2>5
<1>9. CASE UNCHANGED bpvars
  BY <1>c, <1>9 DEF bpvars
<1> QED BY <1>1, <1>2, <1>3, <1>5, <1>6, <1>7, <1>8, <1>9 DEF BPStep, BPNext

\* The inductive invariant holds in every reachable state.
LEMMA BPInvariant == BPSpec => []BPInv
<1>1. BPInit => BPInv
  BY DEF BPInit, BPInv, BPTypeOK, HeldIsNext, HistoryBounded, DeliveredSomewhere,
         EveryStampUsedOnce, Answers
<1>2. BPInv /\ [BPNext]_bpvars => BPInv'
  BY BPInvStep DEF BPStep
<1> QED BY <1>1, <1>2, PTL DEF BPSpec

\* The state of the backplane keeps its types (LocalState and the locals of publish).
THEOREM BPTypeCorrect == BPSpec => []BPTypeOK
<1>1. BPInv => BPTypeOK
  BY DEF BPInv
<1> QED BY <1>1, BPInvariant, PTL

\* Every committed stamp is used exactly once, for any number of topics, sinks and
\* racing publishers (Local::publish, Local::reserve_order).
THEOREM StampsUsedOnce == BPSpec => []EveryStampUsedOnce
<1>1. BPInv => EveryStampUsedOnce
  BY DEF BPInv
<1> QED BY <1>1, BPInvariant, PTL

\* A stamp some sink accepted is committed once publish released the mutex.
THEOREM AcceptedCommitted == BPSpec => []AcceptedIsCommitted
<1>1. BPInv => AcceptedIsCommitted
  BY DEF BPInv, HistoryBounded, AcceptedIsCommitted
<1> QED BY <1>1, BPInvariant, PTL

\* No sink accepts an update whose stamp is not above every stamp of the topic that
\* it accepted, or that was reserved, before.
THEOREM InStampOrder == BPSpec => ArrivesInStampOrder
<1> DEFINE Rises == \A k \in Sinks, t \in Topics :
               \A o \in taken'[k][t] \ taken[k][t], e \in taken[k][t] \union spent[t] : e < o
<1>1. ASSUME BPInv, [BPNext]_bpvars PROVE Rises
  <2>0. BPTypeOK /\ HeldIsNext /\ HistoryBounded
    BY <1>1 DEF BPInv
  <2>1. ASSUME NEW k \in Sinks, SinkAccepts(k) PROVE Rises
    <3>1. /\ held # NoPublish /\ held.topic \in Topics
          /\ taken'[k][held.topic] = taken[k][held.topic] \union {held.order}
          /\ \A j \in Sinks, t \in Topics : j # k \/ t # held.topic => taken'[j][t] = taken[j][t]
      BY <2>0, <2>1, AcceptEffect
    <3>2. held.order = orders[held.topic] + 1 /\ orders[held.topic] \in Nat
      BY <2>0, <3>1 DEF HeldIsNext, BPTypeOK
    <3>3. ASSUME NEW j \in Sinks, NEW t \in Topics, NEW o \in taken'[j][t] \ taken[j][t],
                 NEW e \in taken[j][t] \union spent[t]
          PROVE  e < o
      <4>1. o = held.order /\ t = held.topic /\ o = orders[t] + 1
        BY <3>1, <3>2, <3>3
      <4>2. e \in 1..orders[t]
        BY <2>0, <3>3, <4>1 DEF HistoryBounded
      <4> QED BY <3>2, <4>1, <4>2
    <3> QED BY <3>3
  <2>2. CASE UNCHANGED taken
    BY <2>2
  <2> QED BY <1>1, <2>1, <2>2 DEF BPNext, bpvars, Attach, SinkGone, SinkRefuses,
             PublishCall, PublishLock, PublishSettle, ReserveOrder
<1> QED BY <1>1, BPInvariant, PTL DEF BPSpec, ArrivesInStampOrder

\* The answer of publish is reliable: Ok means committed, Draining means that
\* nothing happened anywhere.
THEOREM ReliableAnswer == BPSpec => AnswerIsReliable
<1> DEFINE Reliable == \A p \in Callers : answer'[p] # answer[p] =>
               /\ answer'[p] = "Ok" => orders'[held.topic] = held.order
               /\ answer'[p] = "Draining" =>
                     /\ orders' = orders
                     /\ \A k \in Sinks : held.order \notin taken[k][held.topic]
<1>1. ASSUME BPInv, [BPNext]_bpvars PROVE Reliable
  <2>0. BPTypeOK /\ HeldIsNext /\ HistoryBounded
    BY <1>1 DEF BPInv
  <2>1. CASE PublishSettle
    <3>1. /\ held \in Publish /\ held # NoPublish /\ held.topic \in Topics
          /\ held.order = orders[held.topic] + 1
          /\ orders[held.topic] \in Nat
          /\ held.first_hard \in {"none", "Build", "Rejected"}
          /\ held.first_soft \in {"none", "Draining"}
      BY <2>0, <2>1 DEF PublishSettle, BPTypeOK, HeldIsNext, Publish, HardRefusals
    <3>2. \A p \in Callers : answer'[p] # answer[p] => answer'[p] = Verdict(held)
      BY <2>0, <2>1 DEF PublishSettle, BPTypeOK
    <3>3. Verdict(held) = "Ok" => Burns(held)
      BY <3>1, Zenon DEF Verdict, Burns, NoSink
    <3>4. Verdict(held) = "Draining" => ~held.delivered_any /\ ~Burns(held)
      BY <3>1, Zenon DEF Verdict, Burns, NoSink
    <3>5. Burns(held) => orders'[held.topic] = held.order
      BY <2>0, <2>1, <3>1 DEF PublishSettle, BPTypeOK
    <3>6. ~Burns(held) => orders' = orders
      BY <2>1 DEF PublishSettle
    <3>7. ~held.delivered_any => \A k \in Sinks : held.order \notin taken[k][held.topic]
      BY <2>0, <3>1 DEF HistoryBounded
    <3> QED BY <3>2, <3>3, <3>4, <3>5, <3>6, <3>7
  <2>2. ASSUME NEW p \in Callers, PublishCall(p) PROVE Reliable
    BY <2>0, <2>2 DEF PublishCall, BPTypeOK
  <2>3. CASE UNCHANGED answer
    BY <2>3
  <2> QED BY <1>1, <2>1, <2>2, <2>3, Zenon DEF BPNext, bpvars, Attach, SinkGone, SinkRefuses,
             SinkAccepts, PublishLock, ReserveOrder
<1> QED BY <1>1, BPInvariant, PTL DEF BPSpec, AnswerIsReliable
=============================================================================
