---------------------------- MODULE RegistryProofs ----------------------------
(***************************************************************************)
(* Proofs about the registry, for any nodes, connections, subscribers,      *)
(* topics, queue capacity and delivery policy.                              *)
(***************************************************************************)
EXTENDS Registry, BackplaneProofs

\* Every step of the registry is a step of the backplane or leaves it alone.
LEMMA BackplaneStep == [Next]_vars => [BPStep]_bpvars
<1> SUFFICES ASSUME [Next]_vars PROVE [BPStep]_bpvars
  OBVIOUS
<1> USE DEF BPStep, BPNext
<1>1. ASSUME NEW n \in Nodes,
             \/ NewRegistry(n) \/ Deliver(n) \/ DeliverRefused(n)
             \/ QuiesceStart(n) \/ QuiesceLock(n) \/ QuiesceSnapshot(n) \/ QuiesceFinish(n)
      PROVE  [BPStep]_bpvars
  <2>1. n \in Sinks
    BY RegistryAssumption
  <2>2. CASE NewRegistry(n)
    BY <2>1, <2>2 DEF NewRegistry
  <2>3. CASE Deliver(n)
    BY <2>1, <2>3 DEF Deliver
  <2>4. CASE DeliverRefused(n)
    BY <2>1, <2>4 DEF DeliverRefused, Refusals
  <2>5. CASE QuiesceStart(n) \/ QuiesceLock(n) \/ QuiesceSnapshot(n) \/ QuiesceFinish(n)
    BY <2>5 DEF QuiesceStart, QuiesceLock, QuiesceSnapshot, QuiesceFinish
  <2> QED BY <1>1, <2>2, <2>3, <2>4, <2>5
<1>2. ASSUME NEW n \in Nodes, NEW t \in Topics, QuiesceReserve(n, t) PROVE [BPStep]_bpvars
  BY <1>2 DEF QuiesceReserve
<1>3. ASSUME NEW c \in Conns,
             \/ RegisterConnection(c) \/ Disconnect(c) \/ Shutdown(c)
             \/ DropConnection(c) \/ LinkFails(c)
      PROVE  [BPStep]_bpvars
  BY <1>3 DEF RegisterConnection, Disconnect, Shutdown, DropConnection, LinkFails
<1>4. ASSUME NEW s \in Subs, Register(s) \/ DrainTask(s) \/ Unregister(s)
      PROVE  [BPStep]_bpvars
  BY <1>4 DEF Register, DrainTask, Unregister
<1>5. ASSUME NEW p \in Callers, NEW n \in Nodes, RegistryPublish(p, n) PROVE [BPStep]_bpvars
  BY <1>5 DEF RegistryPublish
<1>6. ASSUME NEW p \in Callers, NEW t \in Topics, NEW fits \in BOOLEAN, Sequence(p, t, fits)
      PROVE  [BPStep]_bpvars
  BY <1>6 DEF Sequence
<1>7. CASE RegistrySettle
  BY <1>7 DEF RegistrySettle
<1>8. ASSUME NEW w \in Waiters, Flushed(w) PROVE [BPStep]_bpvars
  BY <1>8 DEF Flushed
<1>9. CASE UNCHANGED vars
  BY <1>9 DEF vars
<1> QED BY <1>1, <1>2, <1>3, <1>4, <1>5, <1>6, <1>7, <1>8, <1>9, RegistryAssumption, Zenon DEF Next

\* The backplane's invariant holds of a backplane whose sinks are registries.
LEMMA BackplaneInvariant == Spec => []BPInv
<1>1. Init => BPInv
  BY DEF Init, BPInit, BPInv, BPTypeOK, HeldIsNext, HistoryBounded, DeliveredSomewhere,
         EveryStampUsedOnce, Answers
<1>2. BPInv /\ [Next]_vars => BPInv'
  BY BackplaneStep, BPInvStep
<1> QED BY <1>1, <1>2, PTL DEF Spec

\* Stamps are used once and without holes also when registries are the sinks, with
\* the ends that quiesce reserves and the refusals of draining nodes among them.
THEOREM RegistryStampsUsedOnce == Spec => []EveryStampUsedOnce
<1>1. BPInv => EveryStampUsedOnce
  BY DEF BPInv
<1> QED BY <1>1, BackplaneInvariant, PTL

\* remove_subscriber keeps the types of what it touches.
LEMMA RemoveTypes ==
    ASSUME RegTypeOK, LaneTypeOK, NEW c \in Conns, NEW S \in SUBSET Subs, RemoveSubscribers(c, S)
    PROVE  /\ subscribers' \in [Nodes -> SUBSET Subs]
           /\ members' \in [Nodes -> [Topics -> SUBSET Subs]]
           /\ last_order' \in [Nodes -> [Topics -> Nat]]
           /\ closed' \in [Subs -> BOOLEAN] /\ notify' \in [Subs -> BOOLEAN]
<1>1. Home[c] \in Nodes
  BY LaneAssumption
<1>2. subscribers' \in [Nodes -> SUBSET Subs] /\ members' \in [Nodes -> [Topics -> SUBSET Subs]]
  BY <1>1 DEF RemoveSubscribers, RegTypeOK
<1>3. last_order' \in [Nodes -> [Topics -> Nat]]
  BY <1>1 DEF RemoveSubscribers, RegTypeOK
<1>4. closed' \in [Subs -> BOOLEAN] /\ notify' \in [Subs -> BOOLEAN]
  BY DEF RemoveSubscribers, Close, LaneTypeOK
<1> QED BY <1>2, <1>3, <1>4

\* Every step of a drain task keeps the types of the lanes.
LEMMA DrainTypes == ASSUME LaneTypeOK, NEW s \in Subs, Drain(s) PROVE LaneTypeOK'
<1> USE DEF LaneTypeOK, TaskState, flushvars
<1>1. CASE DrainStop(s) \/ DrainOpen(s)
  BY <1>1, Zenon DEF DrainStop, DrainOpen
<1>2. CASE DrainPop(s)
  <2>1. /\ queue[s] \in Seq(Frame) /\ queue[s] # <<>> /\ wire[s] \in Seq(Frame)
    BY <1>2 DEF DrainPop
  <2>2. Tail(queue[s]) \in Seq(Frame) /\ Append(wire[s], Head(queue[s])) \in Seq(Frame)
    BY <2>1
  <2>3. queue' \in [Subs -> Seq(Frame)] /\ wire' \in [Subs -> Seq(Frame)]
    BY <1>2, <2>2 DEF DrainPop
  <2> QED BY <1>2, <2>3 DEF DrainPop
<1>3. CASE DrainPopEmpty(s)
  BY <1>3 DEF DrainPopEmpty, AfterEmpty
<1>4. CASE DrainEmpty(s)
  BY <1>4 DEF DrainEmpty, AfterEmpty
<1>5. CASE DrainWake(s) \/ EmitOk(s) \/ EmitExhausted(s) \/ SlotFreed(s) \/ EmitLost(s)
  BY <1>5, Zenon DEF DrainWake, EmitOk, EmitExhausted, SlotFreed, EmitLost
<1>6. CASE EmitRefused(s)
  BY <1>6 DEF EmitRefused
<1>7. CASE DrainSettle(s)
  <2>1. task' \in [Subs -> TaskState] /\ in_flight' \in [Subs -> BOOLEAN]
    BY <1>7 DEF DrainSettle
  <2>2. NodeOf(s) \in Nodes
    BY LaneAssumption DEF NodeOf
  <2>3. ASSUME NEW n \in Nodes, NotifyFlush(n)
        PROVE  /\ flush' \in [Nodes -> BOOLEAN]
               /\ flushq' \in [Nodes -> Seq(Waiters)]
               /\ waiter' \in [Waiters -> WaiterState]
    <3>1. CASE flushq[n] = <<>>
      BY <2>3, <3>1, Zenon DEF NotifyFlush
    <3>2. CASE flushq[n] # <<>>
      <4>1. Head(flushq[n]) \in Waiters /\ Tail(flushq[n]) \in Seq(Waiters)
        BY <3>2
      <4> QED BY <2>3, <3>2, <4>1, Zenon DEF NotifyFlush, WaiterState
    <3> QED BY <3>1, <3>2
  <2>4. /\ flush' \in [Nodes -> BOOLEAN] /\ flushq' \in [Nodes -> Seq(Waiters)]
        /\ waiter' \in [Waiters -> WaiterState]
    BY <1>7, <2>2, <2>3 DEF DrainSettle
  <2> QED BY <1>7, <2>1, <2>4 DEF DrainSettle
<1>8. CASE DrainLost(s)
  BY <1>8 DEF DrainLost, Close
<1> QED BY <1>1, <1>2, <1>3, <1>4, <1>5, <1>6, <1>7, <1>8 DEF Drain

\* Every step of a flushed call keeps the types of the lanes.
LEMMA FlushedTypes ==
    ASSUME LaneTypeOK, NEW w \in Waiters,
           \/ FlushedCall(w)
           \/ FlushedCheck(w, subscribers[WaitsOn[w]])
           \/ FlushedAwait(w)
    PROVE  LaneTypeOK'
<1> USE DEF LaneTypeOK, WaiterState
<1>1. CASE FlushedCall(w) \/ FlushedCheck(w, subscribers[WaitsOn[w]])
  BY <1>1, Zenon DEF FlushedCall, FlushedCheck
<1>2. CASE FlushedAwait(w)
  <2>1. WaitsOn[w] \in Nodes
    BY LaneAssumption
  <2>2. Append(flushq[WaitsOn[w]], w) \in Seq(Waiters)
    BY <2>1
  <2> QED BY <1>2, <2>1, <2>2, Zenon DEF FlushedAwait
<1> QED BY <1>1, <1>2

\* pop_front of a queue is a queue.
LEMMA PopFrontFrames == ASSUME NEW q \in Seq(Frame) PROVE PopFront(q) \in Seq(Frame)
<1>1. CASE q = <<>>
  BY <1>1 DEF PopFront
<1>2. CASE q # <<>>
  BY <1>2 DEF PopFront
<1> QED BY <1>1, <1>2

\* push_back on a queue is a queue.
LEMMA AppendFrames == ASSUME NEW q \in Seq(Frame), NEW f \in Frame PROVE Append(q, f) \in Seq(Frame)
OBVIOUS

\* A fan-out keeps the types of the lanes and names connections to drop.
LEMMA DeliverTypes ==
    ASSUME BPTypeOK, LaneTypeOK, RegTypeOK, NEW n \in Nodes, Deliver(n)
    PROVE  LaneTypeOK' /\ RegTypeOK'
<1> DEFINE M == members[n][held.topic]
<1>1. held \in Publish /\ held.topic \in Topics /\ held.order \in Nat
  <2>1. held \in Publish
    BY DEF Deliver, SinkAccepts, BPTypeOK
  <2> QED BY <2>1 DEF Publish
<1>2. M \in SUBSET Subs /\ Full(M) \in SUBSET Subs
  BY <1>1 DEF RegTypeOK, Full
<1>3. PICK verdict \in [Full(M) -> Verdicts] :
        Push(M, verdict, Update(held.order)) /\ doomed' = VotedOff(verdict)
  BY DEF Deliver
<1>4. Update(held.order) \in Frame
  BY <1>1 DEF Update, Frame
<1>5. ASSUME NEW s \in Subs PROVE queue'[s] \in Seq(Frame)
  <2>1. queue[s] \in Seq(Frame)
    BY DEF LaneTypeOK
  <2>2. PopFront(queue[s]) \in Seq(Frame)
    BY <2>1, PopFrontFrames
  <2>3. \/ queue'[s] = queue[s]
        \/ queue'[s] = Append(queue[s], Update(held.order))
        \/ queue'[s] = Append(PopFront(queue[s]), Update(held.order))
    BY <1>3 DEF Push
  <2>4. Append(queue[s], Update(held.order)) \in Seq(Frame)
    BY <1>4, <2>1, AppendFrames
  <2>5. Append(PopFront(queue[s]), Update(held.order)) \in Seq(Frame)
    BY <1>4, <2>2, AppendFrames
  <2> QED BY <2>1, <2>3, <2>4, <2>5, Zenon
<1>6. queue' \in [Subs -> Seq(Frame)]
  <2>1. queue' = [s \in Subs |-> queue'[s]]
    BY <1>3 DEF Push
  <2> QED BY <1>5, <2>1
<1>7. dropped' \in [Subs -> Nat] /\ notify' \in [Subs -> BOOLEAN]
  <2>1. /\ dropped' = [s \in Subs |-> IF s \in Drops(verdict) THEN dropped[s] + 1 ELSE dropped[s]]
        /\ dropped \in [Subs -> Nat]
    BY <1>3 DEF Push, LaneTypeOK
  <2>2. dropped' \in [Subs -> Nat]
    <3>1. ASSUME NEW s \in Subs PROVE dropped[s] \in Nat /\ dropped[s] + 1 \in Nat
      BY <2>1
    <3> QED BY <2>1, <3>1
  <2>3. notify' \in [Subs -> BOOLEAN]
    BY <1>3 DEF Push
  <2> QED BY <2>2, <2>3
<1>8. LaneTypeOK'
  BY <1>6, <1>7 DEF Deliver, LaneTypeOK, flushvars
<1>9. doomed' \subseteq Conns
  BY <1>2, <1>3, LaneAssumption DEF VotedOff
<1>10. last_order' \in [Nodes -> [Topics -> Nat]]
  <2>1. last_order \in [Nodes -> [Topics -> Nat]]
    BY DEF RegTypeOK
  <2>2. PICK o \in Nat : last_order' = [last_order EXCEPT ![n][held.topic] = o]
    BY <1>1, <2>1, Zenon DEF Deliver
  <2> QED BY <1>1, <2>1, <2>2
<1>11. arrived' \in [Subs -> SUBSET Nat]
  BY <1>1 DEF Deliver, RegTypeOK
<1> QED BY <1>8, <1>9, <1>10, <1>11 DEF Deliver, RegTypeOK

\* The end frames that quiesce pushes are frames.
LEMMA FinishTypes ==
    ASSUME LaneTypeOK, RegTypeOK, NEW n \in Nodes, QuiesceFinish(n)
    PROVE  LaneTypeOK' /\ RegTypeOK'
<1> DEFINE due == {s \in subscribers[n] : s \in snapshot[n][TopicOf[s]]}
           end == [s \in due |-> End(ends[n][TopicOf[s]])]
<1>1. due \subseteq Subs
  BY DEF RegTypeOK
<1>2. Finish(due, end)
  BY Zenon DEF QuiesceFinish
<1>3. ASSUME NEW s \in due PROVE Append(queue[s], end[s]) \in Seq(Frame)
  <2>1. end[s] \in Frame
    BY <1>1, RegistryAssumption DEF End, Frame, RegTypeOK
  <2> QED BY <1>1, <2>1 DEF LaneTypeOK
<1>4. queue' \in [Subs -> Seq(Frame)]
  BY <1>2, <1>3, Zenon DEF Finish, LaneTypeOK
<1>5. finished' \in [Subs -> BOOLEAN] /\ notify' \in [Subs -> BOOLEAN]
  BY <1>2 DEF Finish, LaneTypeOK
<1>6. LaneTypeOK'
  BY <1>4, <1>5 DEF QuiesceFinish, LaneTypeOK, flushvars
<1>7. last_order' \in [Nodes -> [Topics -> Nat]]
  BY DEF QuiesceFinish, RegTypeOK
<1>8. quiesce' \in [Nodes -> {"idle", "started", "copying", "reserving", "done", "failed"}]
  BY DEF QuiesceFinish, RegTypeOK
<1> QED BY <1>6, <1>7, <1>8 DEF QuiesceFinish, RegTypeOK

\* Every step keeps the types of the lanes and of the registry maps.
LEMMA TypeStep == TypeOK /\ [Next]_vars => TypeOK'
<1> SUFFICES ASSUME TypeOK, [Next]_vars PROVE TypeOK'
  OBVIOUS
<1>a. BPTypeOK /\ LaneTypeOK /\ RegTypeOK
  BY DEF TypeOK
<1>b. BPTypeOK'
  BY <1>a, BackplaneStep, BPTypeStep
<1>c. ASSUME UNCHANGED lanevars PROVE LaneTypeOK'
  BY <1>a, <1>c DEF LaneTypeOK, lanevars
<1>d. ASSUME UNCHANGED regvars PROVE RegTypeOK'
  BY <1>a, <1>d DEF RegTypeOK, regvars
<1>e. ASSUME LaneTypeOK', RegTypeOK' PROVE TypeOK'
  BY <1>b, <1>e DEF TypeOK
<1>1. ASSUME NEW n \in Nodes, NewRegistry(n) \/ DeliverRefused(n) PROVE TypeOK'
  BY <1>c, <1>d, <1>e, <1>1 DEF NewRegistry, DeliverRefused
<1>2. ASSUME NEW n \in Nodes, Deliver(n) PROVE TypeOK'
  BY <1>a, <1>e, <1>2, DeliverTypes
<1>3. ASSUME NEW n \in Nodes, QuiesceStart(n) \/ QuiesceLock(n) \/ QuiesceSnapshot(n) PROVE TypeOK'
  <2>1. RegTypeOK'
    BY <1>a, <1>3, Zenon DEF QuiesceStart, QuiesceLock, QuiesceSnapshot, RegTypeOK
  <2> QED BY <1>c, <1>e, <1>3, <2>1 DEF QuiesceStart, QuiesceLock, QuiesceSnapshot
<1>4. ASSUME NEW n \in Nodes, NEW t \in Topics, QuiesceReserve(n, t) PROVE TypeOK'
  <2>1. orders[t] + 1 \in Nat
    BY <1>a DEF BPTypeOK
  <2>2. ends' \in [Nodes -> [Topics -> Nat]]
    BY <1>a, <1>4, <2>1 DEF QuiesceReserve, RegTypeOK
  <2>3. RegTypeOK'
    BY <1>a, <1>4, <2>2 DEF QuiesceReserve, RegTypeOK
  <2> QED BY <1>c, <1>e, <1>4, <2>3 DEF QuiesceReserve
<1>5. ASSUME NEW n \in Nodes, QuiesceFinish(n) PROVE TypeOK'
  BY <1>a, <1>e, <1>5, FinishTypes
<1>6. ASSUME NEW c \in Conns, RegisterConnection(c) PROVE TypeOK'
  <2>1. RegTypeOK'
    BY <1>a, <1>6 DEF RegisterConnection, RegTypeOK
  <2> QED BY <1>c, <1>e, <1>6, <2>1 DEF RegisterConnection
<1>7. ASSUME NEW s \in Subs, Register(s) PROVE TypeOK'
  <2>1. ConnOf[s] \in Conns /\ NodeOf(s) \in Nodes /\ TopicOf[s] \in Topics
    BY LaneAssumption, RegistryAssumption DEF NodeOf
  <2>2. LaneTypeOK'
    BY <1>a, <1>7 DEF Register, LaneTypeOK, TaskState, flushvars
  <2>3. subscribers' \in [Nodes -> SUBSET Subs] /\ held_topics' \in [Conns -> SUBSET Subs]
    BY <1>a, <1>7, <2>1 DEF Register, RegTypeOK
  <2>4. members' \in [Nodes -> [Topics -> SUBSET Subs]]
    <3>1. members' = [members EXCEPT ![NodeOf(s)][TopicOf[s]] = @ \union {s}]
      BY <1>7 DEF Register
    <3>2. members \in [Nodes -> [Topics -> SUBSET Subs]]
      BY <1>a DEF RegTypeOK
    <3> QED BY <2>1, <3>1, <3>2
  <2>5. RegTypeOK'
    BY <1>a, <1>7, <2>3, <2>4, Zenon DEF Register, RegTypeOK
  <2> QED BY <1>e, <2>2, <2>5
<1>8. ASSUME NEW s \in Subs, Unregister(s) PROVE TypeOK'
  <2>1. /\ ConnOf[s] \in Conns /\ {s} \in SUBSET Subs
        /\ RemoveSubscribers(ConnOf[s], {s})
    BY <1>8, LaneAssumption, Zenon DEF Unregister
  <2>2. /\ subscribers' \in [Nodes -> SUBSET Subs]
        /\ members' \in [Nodes -> [Topics -> SUBSET Subs]]
        /\ last_order' \in [Nodes -> [Topics -> Nat]]
        /\ closed' \in [Subs -> BOOLEAN] /\ notify' \in [Subs -> BOOLEAN]
    BY <1>a, <2>1, RemoveTypes
  <2>3. LaneTypeOK' /\ RegTypeOK'
    BY <1>a, <1>8, <2>1, <2>2 DEF Unregister, LaneTypeOK, RegTypeOK, flushvars
  <2> QED BY <1>e, <2>3
<1>9. ASSUME NEW c \in Conns, Forget(c)
      PROVE  /\ subscribers' \in [Nodes -> SUBSET Subs]
             /\ members' \in [Nodes -> [Topics -> SUBSET Subs]]
             /\ last_order' \in [Nodes -> [Topics -> Nat]]
             /\ closed' \in [Subs -> BOOLEAN] /\ notify' \in [Subs -> BOOLEAN]
             /\ conn' \in [Conns -> {"new", "up", "gone"}]
             /\ held_topics' \in [Conns -> SUBSET Subs]
  <2>1. held_topics[c] \in SUBSET Subs
    BY <1>a DEF RegTypeOK
  <2>2. conn' \in [Conns -> {"new", "up", "gone"}] /\ held_topics' \in [Conns -> SUBSET Subs]
    BY <1>a, <1>9 DEF Forget, RegTypeOK
  <2> QED BY <1>a, <1>9, <2>1, <2>2, RemoveTypes DEF Forget
<1>10. ASSUME NEW c \in Conns, DropConnection(c) PROVE TypeOK'
  <2>1. LaneTypeOK' /\ RegTypeOK'
    BY <1>a, <1>9, <1>10 DEF DropConnection, LaneTypeOK, RegTypeOK, flushvars
  <2> QED BY <1>e, <2>1
<1>11. ASSUME NEW c \in Conns, Disconnect(c) PROVE TypeOK'
  <2>1. doomed' \subseteq Conns /\ goaway' \subseteq Conns
    BY <1>a, <1>11 DEF Disconnect, RegTypeOK
  <2>2. CASE Forget(c)
    <3>1. LaneTypeOK' /\ RegTypeOK'
      BY <1>a, <1>9, <1>11, <2>1, <2>2, Zenon DEF Disconnect, LaneTypeOK, RegTypeOK, flushvars
    <3> QED BY <1>e, <3>1
  <2>3. CASE UNCHANGED <<conn, held_topics, subscribers, members, last_order, closed, notify>>
    <3>1. LaneTypeOK' /\ RegTypeOK'
      BY <1>a, <1>11, <2>1, <2>3 DEF Disconnect, LaneTypeOK, RegTypeOK, flushvars
    <3> QED BY <1>e, <3>1
  <2> QED BY <1>11, <2>2, <2>3, Zenon DEF Disconnect
<1>12. ASSUME NEW c \in Conns, Shutdown(c) PROVE TypeOK'
  <2>1. LaneTypeOK' /\ RegTypeOK'
    BY <1>a, <1>12 DEF Shutdown, LaneTypeOK, RegTypeOK, flushvars
  <2> QED BY <1>e, <2>1
<1>13. ASSUME NEW c \in Conns, LinkFails(c) PROVE TypeOK'
  <2>1. LaneTypeOK'
    BY <1>a, <1>13 DEF LinkFails, LinkDown, LaneTypeOK, flushvars
  <2> QED BY <1>d, <1>e, <1>13, <2>1 DEF LinkFails
<1>14. ASSUME NEW s \in Subs, DrainTask(s) PROVE TypeOK'
  BY <1>a, <1>d, <1>e, <1>14, DrainTypes DEF DrainTask
<1>15. ASSUME NEW p \in Callers, NEW n \in Nodes, RegistryPublish(p, n) PROVE TypeOK'
  BY <1>c, <1>d, <1>e, <1>15 DEF RegistryPublish
<1>16. ASSUME NEW p \in Callers, NEW t \in Topics, NEW fits \in BOOLEAN, Sequence(p, t, fits)
       PROVE  TypeOK'
  BY <1>c, <1>d, <1>e, <1>16 DEF Sequence
<1>17. CASE RegistrySettle
  BY <1>c, <1>d, <1>e, <1>17 DEF RegistrySettle
<1>18. ASSUME NEW w \in Waiters, Flushed(w) PROVE TypeOK'
  <2>1. LaneTypeOK'
    BY <1>a, <1>18, FlushedTypes DEF Flushed
  <2>2. flushed_done' \subseteq Waiters
    BY <1>a, <1>18, Zenon DEF Flushed, RegTypeOK, regvars
  <2>3. RegTypeOK'
    BY <1>a, <1>18, <2>2, Zenon DEF Flushed, RegTypeOK, regvars
  <2> QED BY <1>e, <2>1, <2>3
<1>19. CASE UNCHANGED vars
  BY <1>c, <1>d, <1>e, <1>19 DEF vars
<1> QED
  <2>1. CASE Next
    BY <2>1, <1>1, <1>2, <1>3, <1>4, <1>5, <1>6, <1>7, <1>8, <1>10, <1>11, <1>12, <1>13,
       <1>14, <1>15, <1>16, <1>17, <1>18, RegistryAssumption DEF Next
  <2> QED BY <1>19, <2>1

\* The registry, its lanes and its backplane keep the types of their state.
THEOREM TypeCorrect == Spec => []TypeOK
<1>1. Init => TypeOK
  <2> SUFFICES ASSUME Init PROVE TypeOK
    OBVIOUS
  <2>1. BPTypeOK
    BY DEF Init, BPInit, BPTypeOK, Answers
  <2>2. LaneTypeOK
    <3>1. <<>> \in Seq(Frame) /\ <<>> \in Seq(Waiters)
      OBVIOUS
    <3>2. /\ queue \in [Subs -> Seq(Frame)] /\ wire \in [Subs -> Seq(Frame)]
          /\ flushq \in [Nodes -> Seq(Waiters)]
      BY <3>1 DEF Init, LaneInit
    <3>3. /\ task \in [Subs -> TaskState] /\ waiter \in [Waiters -> WaiterState]
          /\ link \in [Conns -> {"up", "down"}]
      BY DEF Init, LaneInit, TaskState, WaiterState
    <3>4. /\ in_flight \in [Subs -> BOOLEAN] /\ closed \in [Subs -> BOOLEAN]
          /\ finished \in [Subs -> BOOLEAN] /\ notify \in [Subs -> BOOLEAN]
          /\ flush \in [Nodes -> BOOLEAN]
      BY DEF Init, LaneInit
    <3>5. dropped \in [Subs -> Nat] /\ refused \in [Subs -> Nat]
      BY DEF Init, LaneInit
    <3> QED BY <3>2, <3>3, <3>4, <3>5 DEF LaneTypeOK
  <2>3. RegTypeOK
    BY DEF Init, RegTypeOK
  <2> QED BY <2>1, <2>2, <2>3 DEF TypeOK
<1> QED BY <1>1, TypeStep, PTL DEF Spec
-----------------------------------------------------------------------------
(* quiesce reaches every subscriber.                                        *)

\* The flag is set exactly from the first section of quiesce on.
DrainingIsQuiesce == \A n \in Nodes : draining[n] <=> quiesce[n] # "idle"

\* Subscribers and members of a node are its own, and a subscriber is a member.
OwnMembers ==
    /\ \A n \in Nodes : \A s \in subscribers[n] : NodeOf(s) = n /\ s \in members[n][TopicOf[s]]
    /\ \A n \in Nodes, t \in Topics : \A s \in members[n][t] : NodeOf(s) = n

\* From the snapshot on nobody joins, so whoever is registered is in it.
SnapshotCovers ==
    \A n \in Nodes : quiesce[n] \in {"reserving", "done"} =>
        \A s \in subscribers[n] : s \in snapshot[n][TopicOf[s]]

CompletionInv == /\ DrainingIsQuiesce
                 /\ OwnMembers
                 /\ SnapshotCovers
                 /\ EndsAllOrNothing
                 /\ EveryMemberCompleted

completionvars == <<draining, quiesce, subscribers, members, snapshot, finished>>

\* Removing subscribers of one connection keeps the invariant.
LEMMA RemoveKeepsCompletion ==
    ASSUME TypeOK, CompletionInv, NEW c \in Conns, NEW S \in SUBSET Subs,
           RemoveSubscribers(c, S), UNCHANGED <<draining, quiesce, snapshot, finished>>
    PROVE  CompletionInv'
<1> DEFINE n == Home[c]
<1>1. n \in Nodes
  BY LaneAssumption
<1>2. /\ subscribers \in [Nodes -> SUBSET Subs]
      /\ members \in [Nodes -> [Topics -> SUBSET Subs]]
  BY DEF TypeOK, RegTypeOK
<1>3. /\ \A m \in Nodes : m # n => subscribers'[m] = subscribers[m] /\ members'[m] = members[m]
      /\ subscribers'[n] = subscribers[n] \ S
      /\ \A t \in Topics : members'[n][t] = members[n][t] \ S
  BY <1>1, <1>2 DEF RemoveSubscribers
<1>4. \A m \in Nodes : subscribers'[m] \subseteq subscribers[m]
  BY <1>3
<1>5. OwnMembers'
  <2>1. ASSUME NEW m \in Nodes, NEW s \in subscribers'[m]
        PROVE  NodeOf(s) = m /\ s \in members'[m][TopicOf[s]]
    <3>1. s \in subscribers[m] /\ s \in Subs
      BY <1>2, <1>4, <2>1
    <3>2. NodeOf(s) = m /\ s \in members[m][TopicOf[s]] /\ TopicOf[s] \in Topics
      BY <3>1, RegistryAssumption, Zenon DEF CompletionInv, OwnMembers
    <3> QED BY <1>3, <2>1, <3>2
  <2>2. ASSUME NEW m \in Nodes, NEW t \in Topics, NEW s \in members'[m][t] PROVE NodeOf(s) = m
    <3>1. s \in members[m][t]
      BY <1>3, <2>2
    <3> QED BY <3>1, Zenon DEF CompletionInv, OwnMembers
  <2> QED BY <2>1, <2>2 DEF OwnMembers, NodeOf
<1>6. SnapshotCovers' /\ EveryMemberCompleted'
  BY <1>4, Zenon DEF CompletionInv, SnapshotCovers, EveryMemberCompleted
<1>7. DrainingIsQuiesce' /\ EndsAllOrNothing'
  BY DEF CompletionInv, DrainingIsQuiesce, EndsAllOrNothing
<1> QED BY <1>5, <1>6, <1>7 DEF CompletionInv

\* Only quiesce, register and the removals touch what the invariant reads.
LEMMA CompletionStep == TypeOK /\ CompletionInv /\ [Next]_vars => CompletionInv'
<1> SUFFICES ASSUME TypeOK, CompletionInv, [Next]_vars PROVE CompletionInv'
  OBVIOUS
<1>a. /\ draining \in [Nodes -> BOOLEAN]
      /\ quiesce \in [Nodes -> {"idle", "started", "copying", "reserving", "done", "failed"}]
      /\ subscribers \in [Nodes -> SUBSET Subs]
      /\ members \in [Nodes -> [Topics -> SUBSET Subs]]
      /\ snapshot \in [Nodes -> [Topics -> SUBSET Subs]]
      /\ finished \in [Subs -> BOOLEAN]
      /\ held_topics \in [Conns -> SUBSET Subs]
  BY DEF TypeOK, RegTypeOK, LaneTypeOK
<1>b. DrainingIsQuiesce /\ OwnMembers /\ SnapshotCovers /\ EndsAllOrNothing /\ EveryMemberCompleted
  BY DEF CompletionInv
<1>c. ASSUME UNCHANGED completionvars PROVE CompletionInv'
  BY <1>b, <1>c DEF completionvars, CompletionInv, DrainingIsQuiesce, OwnMembers,
                    SnapshotCovers, EndsAllOrNothing, EveryMemberCompleted
<1>1. ASSUME NEW n \in Nodes, NewRegistry(n) \/ DeliverRefused(n) \/ Deliver(n)
      PROVE  CompletionInv'
  BY <1>c, <1>1 DEF NewRegistry, DeliverRefused, Deliver, lanevars, regvars, completionvars
<1>2. ASSUME NEW n \in Nodes, QuiesceStart(n) PROVE CompletionInv'
  <2>1. /\ draining' = [draining EXCEPT ![n] = TRUE]
        /\ quiesce' = [quiesce EXCEPT ![n] = "started"]
        /\ ~draining[n]
        /\ UNCHANGED <<subscribers, members, snapshot, finished>>
    BY <1>2 DEF QuiesceStart, lanevars
  <2>2. DrainingIsQuiesce'
    BY <1>a, <1>b, <2>1 DEF DrainingIsQuiesce
  <2>3. OwnMembers'
    BY <1>b, <2>1 DEF OwnMembers
  <2>4. SnapshotCovers' /\ EveryMemberCompleted'
    BY <1>a, <1>b, <2>1 DEF SnapshotCovers, EveryMemberCompleted
  <2>5. EndsAllOrNothing'
    <3>1. \A m \in Nodes : quiesce[m] = "done" => quiesce'[m] = "done"
      BY <1>a, <1>b, <2>1 DEF DrainingIsQuiesce
    <3>2. \A s \in Subs : NodeOf(s) \in Nodes
      BY LaneAssumption DEF NodeOf
    <3> QED BY <1>b, <2>1, <3>1, <3>2 DEF EndsAllOrNothing
  <2> QED BY <2>2, <2>3, <2>4, <2>5 DEF CompletionInv
<1>k. ASSUME NEW n \in Nodes, QuiesceLock(n) PROVE CompletionInv'
  <2>1. /\ quiesce[n] = "started"
        /\ quiesce' = [quiesce EXCEPT ![n] = "copying"]
        /\ UNCHANGED <<draining, subscribers, members, snapshot, finished>>
    BY <1>k DEF QuiesceLock, lanevars
  <2>2. DrainingIsQuiesce'
    BY <1>a, <1>b, <2>1 DEF DrainingIsQuiesce
  <2>3. OwnMembers'
    BY <1>b, <2>1 DEF OwnMembers
  <2>4. SnapshotCovers' /\ EveryMemberCompleted'
    BY <1>a, <1>b, <2>1 DEF SnapshotCovers, EveryMemberCompleted
  <2>5. EndsAllOrNothing'
    <3>1. \A m \in Nodes : quiesce[m] = "done" => quiesce'[m] = "done"
      BY <1>a, <2>1
    <3>2. \A s \in Subs : NodeOf(s) \in Nodes
      BY LaneAssumption DEF NodeOf
    <3> QED BY <1>b, <2>1, <3>1, <3>2 DEF EndsAllOrNothing
  <2> QED BY <2>2, <2>3, <2>4, <2>5 DEF CompletionInv
<1>3. ASSUME NEW n \in Nodes, QuiesceSnapshot(n) PROVE CompletionInv'
  <2>1. /\ quiesce[n] = "copying"
        /\ quiesce' = [quiesce EXCEPT ![n] = "reserving"]
        /\ snapshot' = [snapshot EXCEPT ![n] = members[n]]
        /\ UNCHANGED <<draining, subscribers, members, finished>>
    BY <1>3 DEF QuiesceSnapshot, lanevars
  <2>2. DrainingIsQuiesce'
    BY <1>a, <1>b, <2>1 DEF DrainingIsQuiesce
  <2>3. OwnMembers'
    BY <1>b, <2>1 DEF OwnMembers
  <2>4. SnapshotCovers'
    <3>1. ASSUME NEW m \in Nodes, quiesce'[m] \in {"reserving", "done"}, NEW s \in subscribers[m]
          PROVE  s \in snapshot'[m][TopicOf[s]]
      <4>1. CASE m = n
        <5>1. snapshot'[m] = members[m]
          BY <1>a, <2>1, <4>1
        <5> QED BY <1>b, <3>1, <5>1 DEF OwnMembers
      <4>2. CASE m # n
        <5>1. quiesce'[m] = quiesce[m] /\ snapshot'[m] = snapshot[m]
          BY <1>a, <2>1, <4>2
        <5> QED BY <1>b, <3>1, <5>1 DEF SnapshotCovers
      <4> QED BY <4>1, <4>2
    <3> QED BY <2>1, <3>1 DEF SnapshotCovers
  <2>5. EveryMemberCompleted'
    BY <1>a, <1>b, <2>1 DEF EveryMemberCompleted
  <2>6. EndsAllOrNothing'
    <3>1. \A m \in Nodes : quiesce[m] = "done" => quiesce'[m] = "done"
      BY <1>a, <2>1
    <3>2. \A s \in Subs : NodeOf(s) \in Nodes
      BY LaneAssumption DEF NodeOf
    <3> QED BY <1>b, <2>1, <3>1, <3>2 DEF EndsAllOrNothing
  <2> QED BY <2>2, <2>3, <2>4, <2>5, <2>6 DEF CompletionInv
<1>4. ASSUME NEW n \in Nodes, NEW t \in Topics, QuiesceReserve(n, t) PROVE CompletionInv'
  <2>1. /\ quiesce[n] = "reserving"
        /\ quiesce' = quiesce \/ quiesce' = [quiesce EXCEPT ![n] = "failed"]
        /\ UNCHANGED <<draining, subscribers, members, snapshot, finished>>
    BY <1>4 DEF QuiesceReserve, lanevars
  <2>2. CASE quiesce' = quiesce
    BY <1>c, <2>1, <2>2 DEF completionvars
  <2>3. CASE quiesce' = [quiesce EXCEPT ![n] = "failed"]
    <3>1. DrainingIsQuiesce'
      BY <1>a, <1>b, <2>1, <2>3 DEF DrainingIsQuiesce
    <3>2. OwnMembers'
      BY <1>b, <2>1 DEF OwnMembers
    <3>3. SnapshotCovers' /\ EveryMemberCompleted'
      BY <1>a, <1>b, <2>1, <2>3 DEF SnapshotCovers, EveryMemberCompleted
    <3>4. EndsAllOrNothing'
      <4>1. \A m \in Nodes : quiesce[m] = "done" => quiesce'[m] = "done"
        BY <1>a, <2>1, <2>3
      <4>2. \A s \in Subs : NodeOf(s) \in Nodes
        BY LaneAssumption DEF NodeOf
      <4> QED BY <1>b, <2>1, <4>1, <4>2 DEF EndsAllOrNothing
    <3> QED BY <3>1, <3>2, <3>3, <3>4 DEF CompletionInv
  <2> QED BY <2>1, <2>2, <2>3
<1>5. ASSUME NEW n \in Nodes, QuiesceFinish(n) PROVE CompletionInv'
  <2> DEFINE due == {s \in subscribers[n] : s \in snapshot[n][TopicOf[s]]}
  <2>1. /\ quiesce[n] = "reserving"
        /\ quiesce' = [quiesce EXCEPT ![n] = "done"]
        /\ finished' = [s \in Subs |-> finished[s] \/ s \in due]
        /\ UNCHANGED <<draining, subscribers, members, snapshot>>
    BY <1>5, Zenon DEF QuiesceFinish, Finish
  <2>2. DrainingIsQuiesce'
    BY <1>a, <1>b, <2>1 DEF DrainingIsQuiesce
  <2>3. OwnMembers'
    BY <1>b, <2>1 DEF OwnMembers
  <2>4. SnapshotCovers'
    BY <1>a, <1>b, <2>1 DEF SnapshotCovers
  <2>5. EveryMemberCompleted'
    <3>1. ASSUME NEW m \in Nodes, quiesce'[m] = "done", NEW s \in subscribers[m]
          PROVE  finished'[s]
      <4>0. s \in Subs
        BY <1>a, <3>1
      <4>1. CASE m = n
        BY <1>b, <2>1, <3>1, <4>0, <4>1, Zenon DEF SnapshotCovers
      <4>2. CASE m # n
        BY <1>a, <1>b, <2>1, <3>1, <4>0, <4>2 DEF EveryMemberCompleted
      <4> QED BY <4>1, <4>2
    <3> QED BY <2>1, <3>1, Zenon DEF EveryMemberCompleted
  <2>6. EndsAllOrNothing'
    <3>1. ASSUME NEW s \in Subs, finished'[s] PROVE quiesce'[NodeOf(s)] = "done"
      <4>0. NodeOf(s) \in Nodes
        BY LaneAssumption DEF NodeOf
      <4>1. CASE finished[s]
        BY <1>a, <1>b, <2>1, <4>0, <4>1 DEF EndsAllOrNothing
      <4>2. CASE s \in due
        <5>1. NodeOf(s) = n
          BY <1>b, <4>2 DEF OwnMembers
        <5> QED BY <1>a, <2>1, <5>1
      <4> QED BY <2>1, <3>1, <4>1, <4>2, Zenon
    <3> QED BY <3>1 DEF EndsAllOrNothing, NodeOf
  <2> QED BY <2>2, <2>3, <2>4, <2>5, <2>6 DEF CompletionInv
<1>6. ASSUME NEW s \in Subs, Register(s) PROVE CompletionInv'
  <2> DEFINE n == NodeOf(s)
  <2>1. n \in Nodes /\ TopicOf[s] \in Topics
    BY LaneAssumption, RegistryAssumption DEF NodeOf
  <2>2. /\ quiesce[n] = "idle"
        /\ subscribers' = [subscribers EXCEPT ![n] = @ \union {s}]
        /\ members' = [members EXCEPT ![n][TopicOf[s]] = @ \union {s}]
        /\ UNCHANGED <<draining, quiesce, snapshot, finished>>
    BY <1>b, <1>6, <2>1 DEF Register, Registers, DrainingIsQuiesce
  <2>3. \A m \in Nodes, t \in Topics :
           /\ m # n => subscribers'[m] = subscribers[m] /\ members'[m][t] = members[m][t]
           /\ t # TopicOf[s] => members'[n][t] = members[n][t]
    BY <1>a, <2>1, <2>2
  <2>4. /\ subscribers'[n] = subscribers[n] \union {s}
        /\ members'[n][TopicOf[s]] = members[n][TopicOf[s]] \union {s}
    BY <1>a, <2>1, <2>2
  <2>5. OwnMembers'
    <3>1. ASSUME NEW m \in Nodes, NEW r \in subscribers'[m]
          PROVE  NodeOf(r) = m /\ r \in members'[m][TopicOf[r]]
      <4>1. CASE m # n
        <5>1. r \in subscribers[m] /\ TopicOf[r] \in Topics
          BY <1>a, <2>1, <2>3, <3>1, <4>1, RegistryAssumption, Zenon
        <5>2. NodeOf(r) = m /\ r \in members[m][TopicOf[r]]
          BY <1>b, <5>1 DEF OwnMembers
        <5>3. members'[m][TopicOf[r]] = members[m][TopicOf[r]]
          BY <2>3, <4>1, <5>1
        <5> QED BY <5>2, <5>3
      <4>2. CASE m = n /\ r # s
        <5>1. r \in subscribers[n] /\ TopicOf[r] \in Topics
          BY <1>a, <2>1, <2>4, <3>1, <4>2, RegistryAssumption, Zenon
        <5>2. NodeOf(r) = n /\ r \in members[n][TopicOf[r]]
          BY <1>b, <2>1, <5>1 DEF OwnMembers
        <5> QED BY <2>1, <2>3, <2>4, <4>2, <5>1, <5>2
      <4>3. CASE m = n /\ r = s
        BY <2>4, <4>3
      <4> QED BY <4>1, <4>2, <4>3
    <3>2. ASSUME NEW m \in Nodes, NEW t \in Topics, NEW r \in members'[m][t] PROVE NodeOf(r) = m
      <4>1. (r = s /\ m = n) \/ r \in members[m][t]
        BY <2>1, <2>3, <2>4, <3>2
      <4> QED BY <1>b, <4>1 DEF OwnMembers
    <3> QED BY <3>1, <3>2 DEF OwnMembers, NodeOf
  <2>6. SnapshotCovers' /\ EveryMemberCompleted'
    BY <1>b, <2>1, <2>2, <2>3 DEF SnapshotCovers, EveryMemberCompleted
  <2>7. DrainingIsQuiesce' /\ EndsAllOrNothing'
    BY <1>b, <2>2 DEF DrainingIsQuiesce, EndsAllOrNothing
  <2> QED BY <2>5, <2>6, <2>7 DEF CompletionInv
<1>7. ASSUME NEW s \in Subs, Unregister(s) PROVE CompletionInv'
  <2>1. ConnOf[s] \in Conns /\ {s} \in SUBSET Subs
    BY LaneAssumption
  <2> QED BY <1>7, <2>1, RemoveKeepsCompletion DEF Unregister
<1>8. ASSUME NEW c \in Conns, Forget(c), UNCHANGED <<draining, quiesce, snapshot, finished>>
      PROVE  CompletionInv'
  BY <1>a, <1>8, RemoveKeepsCompletion DEF Forget
<1>9. ASSUME NEW c \in Conns, DropConnection(c) PROVE CompletionInv'
  BY <1>8, <1>9 DEF DropConnection
<1>10. ASSUME NEW c \in Conns, Disconnect(c) PROVE CompletionInv'
  BY <1>8, <1>c, <1>10 DEF Disconnect, completionvars
<1>11. ASSUME NEW c \in Conns, RegisterConnection(c) \/ Shutdown(c) \/ LinkFails(c)
       PROVE  CompletionInv'
  BY <1>c, <1>11 DEF RegisterConnection, Shutdown, LinkFails, LinkDown, lanevars, regvars,
                     completionvars
<1>12. ASSUME NEW s \in Subs, DrainTask(s) PROVE CompletionInv'
  BY <1>c, <1>12, Zenon DEF DrainTask, Drain, DrainStop, DrainOpen, DrainPop, DrainPopEmpty, DrainEmpty,
                     DrainWake, EmitOk, EmitRefused, EmitExhausted, SlotFreed, EmitLost,
                     DrainSettle, DrainLost, regvars, completionvars
<1>13. ASSUME NEW p \in Callers, NEW n \in Nodes, RegistryPublish(p, n) PROVE CompletionInv'
  BY <1>c, <1>13 DEF RegistryPublish, lanevars, regvars, completionvars
<1>14. ASSUME NEW p \in Callers, NEW t \in Topics, NEW fits \in BOOLEAN, Sequence(p, t, fits)
       PROVE  CompletionInv'
  BY <1>c, <1>14 DEF Sequence, lanevars, regvars, completionvars
<1>15. CASE RegistrySettle
  BY <1>c, <1>15 DEF RegistrySettle, lanevars, regvars, completionvars
<1>16. ASSUME NEW w \in Waiters, Flushed(w) PROVE CompletionInv'
  BY <1>c, <1>16, Zenon DEF Flushed, FlushedCall, FlushedCheck, FlushedAwait, regvars, completionvars
<1>17. CASE UNCHANGED vars
  BY <1>c, <1>17 DEF vars, lanevars, regvars, completionvars
<1> QED
  <2>1. CASE Next
    BY <2>1, <1>1, <1>2, <1>k, <1>3, <1>4, <1>5, <1>6, <1>7, <1>9, <1>10, <1>11, <1>12, <1>13,
       <1>14, <1>15, <1>16, RegistryAssumption DEF Next
  <2> QED BY <1>17, <2>1

\* The inductive invariant behind quiesce's promises.
LEMMA CompletionInvariant == Spec => []CompletionInv
<1>1. Init => CompletionInv
  <2> SUFFICES ASSUME Init PROVE CompletionInv
    OBVIOUS
  <2>1. DrainingIsQuiesce /\ SnapshotCovers /\ EveryMemberCompleted
    BY Zenon DEF Init, DrainingIsQuiesce, SnapshotCovers, EveryMemberCompleted
  <2>2. OwnMembers
    BY DEF Init, OwnMembers
  <2>3. EndsAllOrNothing
    BY DEF Init, LaneInit, EndsAllOrNothing
  <2> QED BY <2>1, <2>2, <2>3 DEF CompletionInv
<1> QED BY <1>1, CompletionStep, TypeCorrect, PTL DEF Spec

\* Once quiesce returned, every subscriber still registered was signaled, whatever
\* registrations, unsubscribes and disconnects ran between its lock sections.
THEOREM QuiesceReachesEveryone == Spec => []EveryMemberCompleted
<1>1. CompletionInv => EveryMemberCompleted
  BY DEF CompletionInv
<1> QED BY <1>1, CompletionInvariant, PTL

\* A quiesce that failed on one topic has completed nobody.
THEOREM QuiesceIsAllOrNothing == Spec => []EndsAllOrNothing
<1>1. CompletionInv => EndsAllOrNothing
  BY DEF CompletionInv
<1> QED BY <1>1, CompletionInvariant, PTL
-----------------------------------------------------------------------------
(* The end is the last frame of a lane.                                     *)

NoEnd(q) == \A i \in 1..Len(q) : q[i].kind # "end"
EndOnlyLast(q) == \A i \in 1..Len(q) : q[i].kind = "end" => i = Len(q)

\* A lane that quiesce has not signaled holds no end; one that it has holds an end
\* only behind everything else, and nothing is queued once the end was emitted.
LaneEnds(s) == /\ ~finished[s] => NoEnd(wire[s]) /\ NoEnd(queue[s])
               /\ EndOnlyLast(queue[s])
               /\ EndOnlyLast(wire[s])
               /\ queue[s] # <<>> => NoEnd(wire[s])

EndInv == \A s \in Subs : LaneEnds(s)

\* push_back of a frame after frames that hold no end.
LEMMA AppendLast ==
    ASSUME NEW q \in Seq(Frame), NoEnd(q), NEW f \in Frame
    PROVE  EndOnlyLast(Append(q, f))
<1>1. /\ Len(Append(q, f)) = Len(q) + 1
      /\ \A i \in 1..Len(q) : Append(q, f)[i] = q[i]
  OBVIOUS
<1> QED BY <1>1 DEF NoEnd, EndOnlyLast

\* pop_front brings no end in.
LEMMA PopFrontNoEnd ==
    ASSUME NEW q \in Seq(Frame), NoEnd(q)
    PROVE  PopFront(q) \in Seq(Frame) /\ NoEnd(PopFront(q))
<1>1. CASE q = <<>>
  BY <1>1 DEF PopFront
<1>2. CASE q # <<>>
  <2>1. /\ Tail(q) \in Seq(Frame) /\ Len(Tail(q)) = Len(q) - 1
        /\ \A i \in 1..Len(Tail(q)) : Tail(q)[i] = q[i + 1]
    BY <1>2
  <2>2. ASSUME NEW i \in 1..Len(Tail(q)) PROVE i + 1 \in 1..Len(q)
    BY <1>2
  <2>3. NoEnd(Tail(q))
    BY <2>1, <2>2 DEF NoEnd
  <2> QED BY <1>2, <2>1, <2>3 DEF PopFront
<1> QED BY <1>1, <1>2

\* pop_front of a queue whose only end is its last frame.
LEMMA TailEnds ==
    ASSUME NEW q \in Seq(Frame), q # <<>>, EndOnlyLast(q)
    PROVE  /\ EndOnlyLast(Tail(q))
           /\ NoEnd(q) => NoEnd(Tail(q)) /\ Head(q).kind # "end"
           /\ Tail(q) # <<>> => Head(q).kind # "end"
           /\ Head(q) \in Frame
<1>0. Head(q) \in Frame
  OBVIOUS
<1>1. /\ Tail(q) \in Seq(Frame) /\ Len(Tail(q)) = Len(q) - 1
      /\ \A i \in 1..Len(Tail(q)) : Tail(q)[i] = q[i + 1]
      /\ Head(q) = q[1] /\ Len(q) \in Nat /\ Len(q) >= 1
  OBVIOUS
<1>2. EndOnlyLast(Tail(q))
  <2> SUFFICES ASSUME NEW i \in 1..Len(Tail(q)), Tail(q)[i].kind = "end"
               PROVE  i = Len(Tail(q))
    BY DEF EndOnlyLast
  <2>1. i + 1 \in 1..Len(q) /\ q[i + 1].kind = "end"
    BY <1>1
  <2>2. i + 1 = Len(q)
    BY <2>1 DEF EndOnlyLast
  <2>3. Len(Tail(q)) \in Nat
    BY <1>1
  <2>4. i \in Nat
    BY <2>3
  <2>5. ASSUME NEW a \in Nat, NEW b \in Nat, i + 1 = a, b = a - 1 PROVE i = b
    BY <2>4, <2>5
  <2>6. Len(q) \in Nat /\ Len(Tail(q)) = Len(q) - 1
    BY <1>1
  <2> QED BY <2>2, <2>3, <2>5, <2>6
<1>3. NoEnd(q) => NoEnd(Tail(q)) /\ Head(q).kind # "end"
  BY <1>1 DEF NoEnd
<1>4. ASSUME Tail(q) # <<>> PROVE Head(q).kind # "end"
  <2>1. Len(q) # 1
    BY <1>1, <1>4
  <2>2. 1 \in 1..Len(q)
    BY <1>1
  <2> QED BY <1>1, <2>1, <2>2, Zenon DEF EndOnlyLast
<1> QED BY <1>0, <1>2, <1>3, <1>4

\* A frame that carries no end appended to a stream without one.
LEMMA AppendPlain ==
    ASSUME NEW q \in Seq(Frame), NoEnd(q), NEW f \in Frame, f.kind # "end"
    PROVE  NoEnd(Append(q, f))
<1>1. /\ Len(Append(q, f)) = Len(q) + 1
      /\ Append(q, f)[Len(q) + 1] = f
      /\ \A i \in 1..Len(q) : Append(q, f)[i] = q[i]
  OBVIOUS
<1> QED BY <1>1 DEF NoEnd

\* Where the ends of a concatenation are.
LEMMA ConcatEnds ==
    ASSUME NEW w \in Seq(Frame), NEW q \in Seq(Frame),
           EndOnlyLast(w), EndOnlyLast(q), q # <<>> => NoEnd(w)
    PROVE  /\ EndOnlyLast(w \o q)
           /\ NoEnd(w) /\ NoEnd(q) => NoEnd(w \o q)
<1>1. Len(w \o q) = Len(w) + Len(q) /\ Len(w) \in Nat /\ Len(q) \in Nat
  OBVIOUS
<1>2. ASSUME NEW i \in 1..Len(w \o q)
      PROVE  \/ i \in 1..Len(w) /\ (w \o q)[i] = w[i]
             \/ i - Len(w) \in 1..Len(q) /\ (w \o q)[i] = q[i - Len(w)]
  <2>1. i \in Nat /\ 1 <= i /\ i <= Len(w) + Len(q)
    BY <1>1
  <2>2. CASE i <= Len(w)
    BY <1>1, <2>1, <2>2
  <2>3. CASE i > Len(w)
    <3>1. i - Len(w) \in 1..Len(q)
      BY <1>1, <2>1, <2>3
    <3>2. (w \o q)[i] = q[i - Len(w)]
      BY <1>1, <2>1, <2>3
    <3> QED BY <3>1, <3>2
  <2>4. i <= Len(w) \/ i > Len(w)
    BY <1>1, <2>1
  <2> QED BY <2>2, <2>3, <2>4
<1>3. NoEnd(w) /\ NoEnd(q) => NoEnd(w \o q)
  BY <1>2 DEF NoEnd
<1>4. ASSUME NEW i \in 1..Len(w \o q), (w \o q)[i].kind = "end" PROVE i = Len(w \o q)
  <2>1. CASE i \in 1..Len(w) /\ (w \o q)[i] = w[i]
    <3>1. q = <<>>
      BY <1>4, <2>1 DEF NoEnd
    <3>2. i = Len(w)
      BY <1>4, <2>1 DEF EndOnlyLast
    <3>3. Len(q) = 0
      BY <3>1
    <3> QED BY <1>1, <3>2, <3>3
  <2>2. CASE i - Len(w) \in 1..Len(q) /\ (w \o q)[i] = q[i - Len(w)]
    <3>1. i - Len(w) = Len(q)
      BY <1>4, <2>2 DEF EndOnlyLast
    <3>2. i \in Nat
      BY <1>1
    <3> QED BY <1>1, <3>1, <3>2
  <2> QED BY <1>2, <2>1, <2>2
<1>5. EndOnlyLast(w \o q)
  BY <1>4 DEF EndOnlyLast
<1> QED BY <1>3, <1>5

\* Every step keeps the end the last frame of its lane.
LEMMA EndStep == TypeOK /\ CompletionInv /\ EndInv /\ [Next]_vars => EndInv'
<1> SUFFICES ASSUME TypeOK, CompletionInv, EndInv, [Next]_vars, NEW s \in Subs
             PROVE  LaneEnds(s)'
  BY DEF EndInv
<1>a. /\ queue \in [Subs -> Seq(Frame)] /\ wire \in [Subs -> Seq(Frame)]
      /\ finished \in [Subs -> BOOLEAN]
      /\ subscribers \in [Nodes -> SUBSET Subs]
      /\ queue[s] \in Seq(Frame) /\ wire[s] \in Seq(Frame)
  BY DEF TypeOK, LaneTypeOK, RegTypeOK
<1>b. LaneEnds(s)
  BY DEF EndInv
<1>c. ASSUME queue'[s] = queue[s], wire'[s] = wire[s], finished'[s] = finished[s]
      PROVE  LaneEnds(s)'
  BY <1>b, <1>c DEF LaneEnds, NoEnd, EndOnlyLast
<1>d. ASSUME UNCHANGED <<queue, wire, finished>> PROVE LaneEnds(s)'
  BY <1>c, <1>d
<1>1. ASSUME NEW n \in Nodes, Deliver(n) PROVE LaneEnds(s)'
  <2> DEFINE M == members[n][held.topic]
  <2>1. PICK verdict \in [Full(M) -> Verdicts] : Push(M, verdict, Update(held.order))
    BY <1>1 DEF Deliver
  <2>2. UNCHANGED <<wire, finished>> /\ ~draining[n] /\ held # NoPublish
    BY <1>1 DEF Deliver, Accepts, SinkAccepts
  <2>3. held.topic \in Topics /\ held.order \in Nat
    BY <2>2, Zenon DEF TypeOK, BPTypeOK, Publish
  <2>4. CASE s \notin M
    <3>1. queue'[s] = queue[s]
      BY <2>1, <2>4, Zenon DEF Push, Full
    <3> QED BY <1>c, <2>2, <3>1, Zenon
  <2>5. CASE s \in M
    <3>a. NodeOf(s) = n
      BY <2>3, <2>5, Zenon DEF CompletionInv, OwnMembers
    <3>b. quiesce[n] = "idle"
      BY <2>2, Zenon DEF CompletionInv, DrainingIsQuiesce
    <3>1. ~finished[s]
      BY <3>a, <3>b DEF CompletionInv, EndsAllOrNothing
    <3>2. NoEnd(wire[s]) /\ NoEnd(queue[s])
      BY <1>b, <3>1, Zenon DEF LaneEnds
    <3>3. \/ queue'[s] = queue[s]
          \/ queue'[s] = Append(queue[s], Update(held.order))
          \/ queue'[s] = Append(PopFront(queue[s]), Update(held.order))
      BY <2>1, Zenon DEF Push
    <3>c. Update(held.order) \in Frame /\ Update(held.order).kind # "end"
      BY <2>3, Zenon DEF Update, Frame
    <3>d. PopFront(queue[s]) \in Seq(Frame) /\ NoEnd(PopFront(queue[s]))
      BY <1>a, <3>2, PopFrontNoEnd, Zenon
    <3>4. NoEnd(queue'[s])
      BY <1>a, <3>2, <3>3, <3>c, <3>d, AppendPlain, Zenon
    <3>5. wire'[s] = wire[s] /\ ~finished'[s]
      BY <2>2, <3>1, Zenon
    <3> QED BY <3>2, <3>4, <3>5, Zenon DEF LaneEnds, NoEnd, EndOnlyLast
  <2> QED BY <2>4, <2>5
<1>2. ASSUME NEW n \in Nodes, QuiesceFinish(n) PROVE LaneEnds(s)'
  <2> DEFINE due == {r \in subscribers[n] : r \in snapshot[n][TopicOf[r]]}
             end == [r \in due |-> End(ends[n][TopicOf[r]])]
  <2>1. /\ quiesce[n] = "reserving" /\ wire' = wire
        /\ queue' = [r \in Subs |-> IF r \in due THEN Append(queue[r], end[r]) ELSE queue[r]]
        /\ finished' = [r \in Subs |-> finished[r] \/ r \in due]
    BY <1>2, Zenon DEF QuiesceFinish, Finish
  <2>2. CASE s \notin due
    <3>1. queue'[s] = queue[s] /\ wire'[s] = wire[s] /\ finished'[s] = finished[s]
      BY <1>a, <2>1, <2>2, Zenon
    <3> QED BY <1>c, <3>1, Zenon
  <2>3. CASE s \in due
    <3>1. ~finished[s]
      BY <2>1, <2>3 DEF CompletionInv, OwnMembers, EndsAllOrNothing
    <3>2. NoEnd(wire[s]) /\ NoEnd(queue[s])
      BY <1>b, <3>1 DEF LaneEnds
    <3>3. end[s] \in Frame
      <4>1. ends[n][TopicOf[s]] \in Nat
        <5>1. TopicOf[s] \in Topics
          BY RegistryAssumption
        <5>2. ends \in [Nodes -> [Topics -> Nat]]
          BY DEF TypeOK, RegTypeOK
        <5> QED BY <5>1, <5>2
      <4> QED BY <2>3, <4>1 DEF End, Frame
    <3>4. queue'[s] = Append(queue[s], end[s]) /\ wire'[s] = wire[s] /\ finished'[s]
      BY <2>1, <2>3, Zenon
    <3>5. EndOnlyLast(queue'[s])
      BY <1>a, <3>2, <3>3, <3>4, AppendLast, Zenon
    <3> QED BY <3>2, <3>4, <3>5 DEF LaneEnds, NoEnd, EndOnlyLast
  <2> QED BY <2>2, <2>3, Zenon
<1>3. ASSUME NEW r \in Subs, DrainPop(r) PROVE LaneEnds(s)'
  <2>1. /\ queue[r] # <<>> /\ finished' = finished
        /\ queue' = [queue EXCEPT ![r] = Tail(@)]
        /\ wire' = [wire EXCEPT ![r] = Append(@, Head(queue[r]))]
    BY <1>3 DEF DrainPop
  <2>2. CASE s # r
    BY <1>a, <1>c, <2>1, <2>2
  <2>3. CASE s = r
    <3>1. /\ queue'[s] = Tail(queue[s])
          /\ wire'[s] = Append(wire[s], Head(queue[s]))
          /\ finished'[s] = finished[s] /\ queue[s] # <<>>
      BY <1>a, <2>1, <2>3
    <3>2. NoEnd(wire[s]) /\ EndOnlyLast(queue[s]) /\ (~finished[s] => NoEnd(queue[s]))
      BY <1>b, <3>1 DEF LaneEnds
    <3>3. Head(queue[s]) \in Frame
      BY <1>a, <3>1, <3>2, TailEnds
    <3>4. /\ EndOnlyLast(Tail(queue[s]))
          /\ NoEnd(queue[s]) => NoEnd(Tail(queue[s])) /\ Head(queue[s]).kind # "end"
          /\ Tail(queue[s]) # <<>> => Head(queue[s]).kind # "end"
      BY <1>a, <3>1, <3>2, TailEnds
    <3>5. EndOnlyLast(wire'[s])
      BY <1>a, <3>1, <3>2, <3>3, AppendLast
    <3>6. Head(queue[s]).kind # "end" => NoEnd(wire'[s])
      BY <1>a, <3>1, <3>2, <3>3, AppendPlain
    <3> QED BY <3>1, <3>2, <3>4, <3>5, <3>6, Zenon DEF LaneEnds, NoEnd, EndOnlyLast
  <2> QED BY <2>2, <2>3
<1>4. ASSUME NEW r \in Subs, DrainTask(r) PROVE LaneEnds(s)'
  BY <1>3, <1>d, <1>4, Zenon DEF DrainTask, Drain, DrainStop, DrainOpen, DrainPopEmpty, DrainEmpty,
                     DrainWake, EmitOk, EmitRefused, EmitExhausted, SlotFreed, EmitLost,
                     DrainSettle, DrainLost
<1>5. ASSUME NEW n \in Nodes, \/ NewRegistry(n) \/ DeliverRefused(n) \/ QuiesceStart(n)
                              \/ QuiesceLock(n) \/ QuiesceSnapshot(n) \/ (\E t \in Topics : QuiesceReserve(n, t))
      PROVE  LaneEnds(s)'
  BY <1>d, <1>5, Zenon DEF NewRegistry, DeliverRefused, QuiesceStart, QuiesceLock, QuiesceSnapshot,
                    QuiesceReserve, lanevars
<1>6. ASSUME NEW c \in Conns, \/ RegisterConnection(c) \/ Disconnect(c) \/ Shutdown(c)
                              \/ DropConnection(c) \/ LinkFails(c)
      PROVE  LaneEnds(s)'
  BY <1>d, <1>6, Zenon DEF RegisterConnection, Disconnect, Shutdown, DropConnection, LinkFails,
                    LinkDown, lanevars
<1>7. ASSUME NEW r \in Subs, Register(r) \/ Unregister(r) PROVE LaneEnds(s)'
  BY <1>d, <1>7 DEF Register, Unregister
<1>8. ASSUME NEW p \in Callers,
             \/ \E n \in Nodes : RegistryPublish(p, n)
             \/ \E t \in Topics, fits \in BOOLEAN : Sequence(p, t, fits)
      PROVE  LaneEnds(s)'
  BY <1>d, <1>8 DEF RegistryPublish, Sequence, lanevars
<1>9. CASE RegistrySettle \/ UNCHANGED vars
  BY <1>d, <1>9 DEF RegistrySettle, vars, lanevars
<1>10. ASSUME NEW w \in Waiters, Flushed(w) PROVE LaneEnds(s)'
  BY <1>d, <1>10, Zenon DEF Flushed, FlushedCall, FlushedCheck, FlushedAwait
<1> QED
  <2>1. CASE Next
    BY <2>1, <1>1, <1>2, <1>4, <1>5, <1>6, <1>7, <1>8, <1>9, <1>10, RegistryAssumption, Zenon DEF Next
  <2> QED BY <1>9, <2>1

\* No update is queued or emitted behind a lane's end, on any number of nodes: deliver
\* checks the flag under the state lock, and quiesce pushes ends only to lanes it owns.
THEOREM EndIsLast == Spec => []NothingAfterEnd
<1>1. Init => EndInv
  <2> SUFFICES ASSUME Init, NEW s \in Subs PROVE LaneEnds(s)
    BY DEF EndInv
  <2>1. queue[s] = <<>> /\ wire[s] = <<>>
    BY DEF Init, LaneInit
  <2>2. NoEnd(<<>>) /\ EndOnlyLast(<<>>)
    BY DEF NoEnd, EndOnlyLast
  <2> QED BY <2>1, <2>2, Zenon DEF LaneEnds
<1>2. TypeOK /\ EndInv => NothingAfterEnd
  <2> SUFFICES ASSUME TypeOK, EndInv, NEW s \in Subs, NEW i \in 1..Len(Stream(s)),
                      Stream(s)[i].kind = "end"
               PROVE  i = Len(Stream(s)) /\ finished[s]
    BY DEF NothingAfterEnd
  <2>1. wire[s] \in Seq(Frame) /\ queue[s] \in Seq(Frame)
    BY DEF TypeOK, LaneTypeOK
  <2>2. LaneEnds(s)
    BY DEF EndInv
  <2>3. EndOnlyLast(Stream(s)) /\ (~finished[s] => NoEnd(Stream(s)))
    BY <2>1, <2>2, ConcatEnds DEF LaneEnds, Stream
  <2> QED BY <2>3 DEF NoEnd, EndOnlyLast
<1> QED BY <1>1, <1>2, EndStep, TypeCorrect, CompletionInvariant, PTL DEF Spec
=============================================================================
