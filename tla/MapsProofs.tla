------------------------------ MODULE MapsProofs ------------------------------
(***************************************************************************)
(* Proofs about the maps of TopicRegistry's State, for any number of nodes,  *)
(* connections, subscribers and topics.                                      *)
(*                                                                          *)
(* The invariant says what each map determines about the others: the         *)
(* connections' topic lists are the subscriptions, and the subscriber map    *)
(* and the members are computed from them.                                   *)
(***************************************************************************)
EXTENDS RegistryProofs

MembersAreSubscribers ==
    \A s \in Subs, n \in Nodes, t \in Topics :
      s \in members[n][t] <=> s \in subscribers[n] /\ t = TopicOf[s]

SubscribersAreHeld ==
    \A s \in Subs, n \in Nodes :
      s \in subscribers[n] <=> n = NodeOf(s) /\ s \in held_topics[ConnOf[s]]

HeldByTheLiving ==
    \A c \in Conns : \A s \in held_topics[c] : ConnOf[s] = c /\ conn[c] = "up" /\ task[s] # "none"

OncePerTopic ==
    \A c \in Conns : \A r, s \in held_topics[c] : TopicOf[r] = TopicOf[s] => r = s

MapsInv == MembersAreSubscribers /\ SubscribersAreHeld /\ HeldByTheLiving /\ OncePerTopic

mapvars == <<conn, held_topics, members, subscribers>>
-----------------------------------------------------------------------------
\* A drain task that was spawned never becomes unspawned.
LEMMA TasksStay ==
    ASSUME LaneTypeOK, NEW s \in Subs, Drain(s)
    PROVE  \A r \in Subs : task[r] # "none" => task'[r] # "none"
<1> SUFFICES ASSUME NEW r \in Subs, task[r] # "none" PROVE task'[r] # "none"
  OBVIOUS
<1>0. task \in [Subs -> TaskState]
  BY DEF LaneTypeOK
<1>1. CASE DrainStop(s) \/ DrainOpen(s) \/ DrainPop(s)
  BY <1>0, <1>1 DEF DrainStop, DrainOpen, DrainPop
<1>2. CASE DrainPopEmpty(s) \/ DrainEmpty(s)
  BY <1>0, <1>2 DEF DrainPopEmpty, DrainEmpty, AfterEmpty
<1>3. CASE DrainWake(s) \/ SlotFreed(s) \/ EmitLost(s)
  BY <1>0, <1>3 DEF DrainWake, SlotFreed, EmitLost
<1>4. CASE EmitOk(s) \/ EmitRefused(s) \/ EmitExhausted(s)
  BY <1>0, <1>4 DEF EmitOk, EmitRefused, EmitExhausted
<1>5. CASE DrainSettle(s) \/ DrainLost(s)
  BY <1>0, <1>5 DEF DrainSettle, DrainLost
<1> QED BY <1>1, <1>2, <1>3, <1>4, <1>5 DEF Drain

\* register adds a subscription to all three maps.
LEMMA RegisterKeepsMaps ==
    ASSUME TypeOK, MapsInv, NEW s \in Subs, Register(s)
    PROVE  MapsInv'
<1> DEFINE c == ConnOf[s]
           n == NodeOf(s)
           t == TopicOf[s]
<1>1. c \in Conns /\ n \in Nodes /\ t \in Topics /\ ConnOf \in [Subs -> Conns]
      /\ TopicOf \in [Subs -> Topics]
  BY LaneAssumption, RegistryAssumption DEF NodeOf
<1>2. /\ subscribers \in [Nodes -> SUBSET Subs] /\ held_topics \in [Conns -> SUBSET Subs]
      /\ members \in [Nodes -> [Topics -> SUBSET Subs]] /\ task \in [Subs -> TaskState]
  BY DEF TypeOK, RegTypeOK, LaneTypeOK
<1>3. /\ conn[c] = "up" /\ task[s] = "none" /\ conn' = conn
      /\ \A r \in held_topics[c] : TopicOf[r] # t
      /\ subscribers' = [subscribers EXCEPT ![n] = @ \union {s}]
      /\ members' = [members EXCEPT ![n][t] = @ \union {s}]
      /\ held_topics' = [held_topics EXCEPT ![c] = @ \union {s}]
      /\ task' = [task EXCEPT ![s] = "run"]
  BY DEF Register
<1>4. \A m \in Nodes : subscribers'[m] = IF m = n THEN subscribers[m] \union {s} ELSE subscribers[m]
  BY <1>1, <1>2, <1>3, Zenon
<1>5. \A m \in Nodes, u \in Topics :
        members'[m][u] = IF m = n /\ u = t THEN members[m][u] \union {s} ELSE members[m][u]
  BY <1>1, <1>2, <1>3, Zenon
<1>6. \A d \in Conns : held_topics'[d] = IF d = c THEN held_topics[d] \union {s} ELSE held_topics[d]
  BY <1>1, <1>2, <1>3, Zenon
<1>7. \A r \in Subs : task'[r] = IF r = s THEN "run" ELSE task[r]
  BY <1>2, <1>3
<1> HIDE DEF n
<1>8. MembersAreSubscribers'
  <2> SUFFICES ASSUME NEW r \in Subs, NEW m \in Nodes, NEW u \in Topics
               PROVE  r \in members'[m][u] <=> r \in subscribers'[m] /\ u = TopicOf[r]
    BY DEF MembersAreSubscribers
  <2>1. r \in members[m][u] <=> r \in subscribers[m] /\ u = TopicOf[r]
    BY DEF MapsInv, MembersAreSubscribers
  <2>2. CASE r = s
    BY <1>4, <1>5, <2>1, <2>2, Zenon
  <2>3. CASE r # s
    <3>1. r \in members'[m][u] <=> r \in members[m][u]
      <4>1. CASE m = n /\ u = t
        <5>1. members'[m][u] = members[m][u] \union {s}
          BY <1>5, <4>1, Zenon
        <5> QED BY <2>3, <5>1
      <4>2. CASE ~(m = n /\ u = t)
        BY <1>5, <4>2, Zenon
      <4> QED BY <4>1, <4>2
    <3>2. r \in subscribers'[m] <=> r \in subscribers[m]
      BY <1>4, <2>3, Zenon
    <3> QED BY <2>1, <3>1, <3>2
  <2> QED BY <2>2, <2>3
<1>9. SubscribersAreHeld'
  <2> SUFFICES ASSUME NEW r \in Subs, NEW m \in Nodes
               PROVE  r \in subscribers'[m] <=> m = NodeOf(r) /\ r \in held_topics'[ConnOf[r]]
    BY DEF SubscribersAreHeld, NodeOf
  <2>1. r \in subscribers[m] <=> m = NodeOf(r) /\ r \in held_topics[ConnOf[r]]
    BY DEF MapsInv, SubscribersAreHeld
  <2>2. CASE r = s
    BY <1>1, <1>4, <1>6, <2>1, <2>2, Zenon DEF n
  <2>3. CASE r # s
    <3>1. r \in subscribers'[m] <=> r \in subscribers[m]
      BY <1>4, <2>3, Zenon
    <3>2. ConnOf[r] \in Conns
      BY <1>1
    <3>3. r \in held_topics'[ConnOf[r]] <=> r \in held_topics[ConnOf[r]]
      BY <1>6, <2>3, <3>2, Zenon
    <3> QED BY <2>1, <3>1, <3>3
  <2> QED BY <2>2, <2>3
<1>10. HeldByTheLiving'
  BY <1>1, <1>2, <1>3, <1>6, <1>7 DEF MapsInv, HeldByTheLiving
<1>11. OncePerTopic'
  BY <1>3, <1>6 DEF MapsInv, OncePerTopic
<1> QED BY <1>8, <1>9, <1>10, <1>11 DEF MapsInv

\* Removing subscribers S that c holds from all maps keeps them in agreement; what c
\* still holds is left or, with the connection, nothing.
LEMMA RemoveKeepsMaps ==
    ASSUME TypeOK, MapsInv, NEW c \in Conns, NEW S \in SUBSET held_topics[c],
           RemoveSubscribers(c, S), held_topics' = [held_topics EXCEPT ![c] = @ \ S],
           task' = task,
           conn' = conn \/ (S = held_topics[c] /\ conn' = [conn EXCEPT ![c] = "gone"])
    PROVE  MapsInv'
<1>1. Home[c] \in Nodes /\ ConnOf \in [Subs -> Conns] /\ TopicOf \in [Subs -> Topics]
  BY LaneAssumption, RegistryAssumption
<1>2. /\ subscribers \in [Nodes -> SUBSET Subs] /\ held_topics \in [Conns -> SUBSET Subs]
      /\ members \in [Nodes -> [Topics -> SUBSET Subs]]
      /\ conn \in [Conns -> {"new", "up", "gone"}]
  BY DEF TypeOK, RegTypeOK
<1>3. /\ \A m \in Nodes : subscribers'[m] = IF m = Home[c] THEN subscribers[m] \ S ELSE subscribers[m]
      /\ \A m \in Nodes, u \in Topics :
           members'[m][u] = IF m = Home[c] THEN members[m][u] \ S ELSE members[m][u]
  BY <1>1, <1>2, Zenon DEF RemoveSubscribers
<1>4. \A d \in Conns : held_topics'[d] = IF d = c THEN held_topics[d] \ S ELSE held_topics[d]
  BY <1>2, Zenon
<1>5. \A s \in S : s \in Subs /\ ConnOf[s] = c
  BY <1>2 DEF MapsInv, HeldByTheLiving
<1>6. MembersAreSubscribers'
  <2> SUFFICES ASSUME NEW r \in Subs, NEW m \in Nodes, NEW u \in Topics
               PROVE  r \in members'[m][u] <=> r \in subscribers'[m] /\ u = TopicOf[r]
    BY DEF MembersAreSubscribers
  <2>1. r \in members[m][u] <=> r \in subscribers[m] /\ u = TopicOf[r]
    BY DEF MapsInv, MembersAreSubscribers
  <2>2. CASE m = Home[c]
    <3>1. subscribers'[m] = subscribers[m] \ S /\ members'[m][u] = members[m][u] \ S
      BY <1>3, <2>2, Zenon
    <3> QED BY <2>1, <3>1
  <2>3. CASE m # Home[c]
    <3>1. subscribers'[m] = subscribers[m] /\ members'[m][u] = members[m][u]
      BY <1>3, <2>3, Zenon
    <3> QED BY <2>1, <3>1
  <2> QED BY <2>2, <2>3
<1>7. SubscribersAreHeld'
  <2> SUFFICES ASSUME NEW r \in Subs, NEW m \in Nodes
               PROVE  r \in subscribers'[m] <=> m = NodeOf(r) /\ r \in held_topics'[ConnOf[r]]
    BY DEF SubscribersAreHeld, NodeOf
  <2>1. /\ r \in subscribers[m] <=> m = NodeOf(r) /\ r \in held_topics[ConnOf[r]]
        /\ ConnOf[r] \in Conns
    BY <1>1 DEF MapsInv, SubscribersAreHeld
  <2>2. CASE ConnOf[r] = c
    <3>1. NodeOf(r) = Home[c]
      BY <2>2 DEF NodeOf
    <3>2. held_topics'[ConnOf[r]] = held_topics[ConnOf[r]] \ S
      BY <1>4, <2>2
    <3>3. CASE m = Home[c]
      BY <1>3, <2>1, <3>1, <3>2, <3>3, Zenon
    <3>4. CASE m # Home[c]
      BY <1>3, <2>1, <3>1, <3>4, Zenon
    <3> QED BY <3>3, <3>4
  <2>3. CASE ConnOf[r] # c
    <3>1. r \notin S
      BY <1>5, <2>3
    <3> QED BY <1>3, <1>4, <2>1, <2>3, <3>1, Zenon
  <2> QED BY <2>2, <2>3
<1>8. HeldByTheLiving'
  <2> SUFFICES ASSUME NEW d \in Conns, NEW s \in held_topics'[d]
               PROVE  ConnOf[s] = d /\ conn'[d] = "up" /\ task'[s] # "none"
    BY DEF HeldByTheLiving
  <2>1. s \in held_topics[d] /\ (d = c => s \notin S)
    BY <1>4
  <2>2. ConnOf[s] = d /\ conn[d] = "up" /\ task[s] # "none"
    BY <2>1 DEF MapsInv, HeldByTheLiving
  <2>3. conn'[d] = conn[d]
    BY <1>2, <2>1
  <2> QED BY <2>2, <2>3
<1>9. OncePerTopic'
  BY <1>4 DEF MapsInv, OncePerTopic
<1> QED BY <1>6, <1>7, <1>8, <1>9 DEF MapsInv
-----------------------------------------------------------------------------
\* Only register, unregister and the loss of a connection touch the maps.
LEMMA MapsStep == TypeOK /\ MapsInv /\ [Next]_vars => MapsInv'
<1> SUFFICES ASSUME TypeOK, MapsInv, [Next]_vars PROVE MapsInv'
  OBVIOUS
<1>a. /\ held_topics \in [Conns -> SUBSET Subs] /\ conn \in [Conns -> {"new", "up", "gone"}]
      /\ LaneTypeOK
  BY DEF TypeOK, RegTypeOK
<1>b. ASSUME UNCHANGED mapvars, \A r \in Subs : task[r] # "none" => task'[r] # "none"
      PROVE  MapsInv'
  BY <1>a, <1>b DEF mapvars, MapsInv, MembersAreSubscribers, SubscribersAreHeld, HeldByTheLiving,
                    OncePerTopic
<1>c. ASSUME UNCHANGED mapvars, UNCHANGED task PROVE MapsInv'
  BY <1>b, <1>c
<1>d. ASSUME NEW c \in Conns, Forget(c), UNCHANGED task PROVE MapsInv'
  <2>1. held_topics' = [held_topics EXCEPT ![c] = @ \ held_topics[c]]
    BY <1>a, <1>d, Zenon DEF Forget
  <2> QED BY <1>d, <2>1, RemoveKeepsMaps, Zenon DEF Forget
<1>1. ASSUME NEW n \in Nodes, NewRegistry(n) \/ DeliverRefused(n) \/ Deliver(n) PROVE MapsInv'
  BY <1>c, <1>1 DEF NewRegistry, DeliverRefused, Deliver, lanevars, regvars, mapvars
<1>2. ASSUME NEW n \in Nodes, QuiesceStart(n) \/ QuiesceLock(n) \/ QuiesceSnapshot(n) \/ QuiesceFinish(n) PROVE MapsInv'
  BY <1>c, <1>2, Zenon DEF QuiesceStart, QuiesceLock, QuiesceSnapshot, QuiesceFinish, lanevars, mapvars
<1>3. ASSUME NEW n \in Nodes, NEW t \in Topics, QuiesceReserve(n, t) PROVE MapsInv'
  BY <1>c, <1>3 DEF QuiesceReserve, lanevars, mapvars
<1>4. ASSUME NEW c \in Conns, RegisterConnection(c) PROVE MapsInv'
  <2>1. /\ conn[c] = "new" /\ conn' = [conn EXCEPT ![c] = "up"]
        /\ UNCHANGED <<held_topics, members, subscribers, task>>
    BY <1>4 DEF RegisterConnection, lanevars
  <2>2. HeldByTheLiving'
    BY <1>a, <2>1 DEF MapsInv, HeldByTheLiving
  <2>3. MembersAreSubscribers' /\ SubscribersAreHeld'
    BY <2>1, Zenon DEF MapsInv, MembersAreSubscribers, SubscribersAreHeld
  <2>4. OncePerTopic'
    BY <2>1 DEF MapsInv, OncePerTopic
  <2> QED BY <2>2, <2>3, <2>4 DEF MapsInv
<1>5. ASSUME NEW c \in Conns, Disconnect(c) PROVE MapsInv'
  BY <1>c, <1>d, <1>5 DEF Disconnect, mapvars
<1>6. ASSUME NEW c \in Conns, DropConnection(c) PROVE MapsInv'
  BY <1>d, <1>6 DEF DropConnection
<1>7. ASSUME NEW c \in Conns, Shutdown(c) \/ LinkFails(c) PROVE MapsInv'
  BY <1>c, <1>7 DEF Shutdown, LinkFails, LinkDown, regvars, mapvars
<1>8. ASSUME NEW s \in Subs, Register(s) PROVE MapsInv'
  BY <1>8, RegisterKeepsMaps
<1>9. ASSUME NEW s \in Subs, Unregister(s) PROVE MapsInv'
  <2>1. /\ ConnOf[s] \in Conns /\ {s} \in SUBSET held_topics[ConnOf[s]]
        /\ held_topics' = [held_topics EXCEPT ![ConnOf[s]] = @ \ {s}]
        /\ RemoveSubscribers(ConnOf[s], {s}) /\ task' = task /\ conn' = conn
    BY <1>9, LaneAssumption DEF Unregister
  <2> QED BY <2>1, RemoveKeepsMaps, Zenon
<1>10. ASSUME NEW s \in Subs, DrainTask(s) PROVE MapsInv'
  BY <1>a, <1>b, <1>10, TasksStay DEF DrainTask, regvars, mapvars
<1>11. ASSUME NEW p \in Callers, NEW n \in Nodes, RegistryPublish(p, n) PROVE MapsInv'
  BY <1>c, <1>11 DEF RegistryPublish, lanevars, regvars, mapvars
<1>12. ASSUME NEW p \in Callers, NEW t \in Topics, NEW fits \in BOOLEAN, Sequence(p, t, fits)
       PROVE  MapsInv'
  BY <1>c, <1>12 DEF Sequence, lanevars, regvars, mapvars
<1>13. CASE RegistrySettle
  BY <1>c, <1>13 DEF RegistrySettle, lanevars, regvars, mapvars
<1>14. ASSUME NEW w \in Waiters, Flushed(w) PROVE MapsInv'
  BY <1>c, <1>14, Zenon DEF Flushed, FlushedCall, FlushedCheck, FlushedAwait, regvars, mapvars
<1>15. CASE UNCHANGED vars
  BY <1>c, <1>15 DEF vars, lanevars, regvars, mapvars
<1> QED
  <2>1. CASE Next
    BY <2>1, <1>1, <1>2, <1>3, <1>4, <1>5, <1>6, <1>7, <1>8, <1>9, <1>10, <1>11, <1>12, <1>13,
       <1>14, RegistryAssumption DEF Next
  <2> QED BY <1>15, <2>1

\* The three maps of State agree on any number of nodes and connections, whatever
\* unsubscribes, disconnects and quiesces interleave (register, unregister,
\* drop_connection, disconnect).
THEOREM RegistryMapsAgree == Spec => []MapsAgree
<1>1. Init => MapsInv
  <2> SUFFICES ASSUME Init PROVE MapsInv
    OBVIOUS
  <2>1. \A c \in Conns : held_topics[c] = {}
    BY DEF Init
  <2>2. /\ \A n \in Nodes : subscribers[n] = {}
        /\ \A n \in Nodes, t \in Topics : members[n][t] = {}
    BY DEF Init
  <2>3. \A s \in Subs : ConnOf[s] \in Conns
    BY LaneAssumption
  <2>4. MembersAreSubscribers
    BY <2>2 DEF MembersAreSubscribers
  <2>5. SubscribersAreHeld
    BY <2>1, <2>2, <2>3 DEF SubscribersAreHeld
  <2>6. HeldByTheLiving /\ OncePerTopic
    BY <2>1 DEF HeldByTheLiving, OncePerTopic
  <2> QED BY <2>4, <2>5, <2>6 DEF MapsInv
<1>2. TypeOK /\ MapsInv => MapsAgree
  <2> SUFFICES ASSUME TypeOK, MapsInv PROVE MapsAgree
    OBVIOUS
  <2>1. \A s \in Subs : NodeOf(s) \in Nodes /\ ConnOf[s] \in Conns /\ TopicOf[s] \in Topics
    BY LaneAssumption, RegistryAssumption DEF NodeOf
  <2>2. ASSUME NEW s \in Subs
        PROVE  LET here == s \in subscribers[NodeOf(s)] IN
               /\ here <=> s \in members[NodeOf(s)][TopicOf[s]]
               /\ here <=> conn[ConnOf[s]] = "up" /\ s \in held_topics[ConnOf[s]]
               /\ here => task[s] # "none"
    BY <2>1 DEF MapsInv, MembersAreSubscribers, SubscribersAreHeld, HeldByTheLiving
  <2>3. \A n \in Nodes, t \in Topics : members[n][t] \subseteq subscribers[n]
    BY DEF MapsInv, MembersAreSubscribers, TypeOK, RegTypeOK
  <2> QED BY <2>2, <2>3 DEF MapsAgree, MapsInv, OncePerTopic
<1> QED BY <1>1, <1>2, MapsStep, TypeCorrect, PTL DEF Spec
===============================================================================
