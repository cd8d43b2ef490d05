------------------------------- MODULE Registry -------------------------------
(***************************************************************************)
(* TopicRegistry: connections, subscriptions, publish fan-out and quiesce,  *)
(* on one or several registries (nodes) that share one Local backplane.     *)
(*                                                                          *)
(* An action is one critical section of a registry's state mutex, taken and *)
(* let go in one step where its thread waits for nothing inside; the lane    *)
(* mutexes are only ever taken inside it or by the drain task alone.  A      *)
(* publish holds the backplane mutex from PublishLock to PublishSettle and   *)
(* waits for the state mutex of each node in between.  quiesce waits for     *)
(* both: StateHeld says over which of its steps, and of deliver's, the state *)
(* mutex is held, and every other section of the node waits meanwhile.       *)
(***************************************************************************)
EXTENDS Backplane, Lane

CONSTANTS TopicOf,           \* Subscriber.topic of each subscriber id
          Verdicts,          \* what the installed delivery policy may answer
          MaxSubscriptions,  \* max_subscriptions_per_connection
          EndFails,          \* topics whose end/ frame cannot be built
          Leavers,           \* connections whose client unsubscribes or goes away
          Flaky              \* connections whose link may fail by itself

ASSUME RegistryAssumption ==
    /\ Sinks = Nodes
    /\ TopicOf \in [Subs -> Topics]
    /\ Verdicts \subseteq {"DropOldest", "DropNew", "Disconnect"}
    /\ MaxSubscriptions \in Nat
    /\ EndFails \subseteq Topics
    /\ Leavers \subseteq Conns
    /\ Flaky \subseteq Conns

VARIABLES draining,     \* Inner.draining
          conn,         \* whether a connection id is in State.connections
          held_topics,  \* ConnectionState.topics, as a set of subscriber ids
          members,      \* TopicState.members; a topic without members has no entry
          subscribers,  \* State.subscribers
          last_order,   \* TopicState.last_order
          quiesce,      \* where the node's first quiesce call is
          snapshot,     \* its copy of the members
          ends,         \* the end orders it reserved (0: not yet)
          doomed,       \* connections the publish in progress must disconnect
          goaway,       \* connections whose spawned shutdown has not run yet
          arrived,      \* history: the update orders offered to each lane
          flushed_done  \* history: flushed calls that returned after quiesce did

regvars == <<draining, conn, held_topics, members, subscribers, last_order, quiesce,
             snapshot, ends, doomed, goaway, arrived, flushed_done>>
vars == <<bpvars, lanevars, regvars>>

Update(o) == [kind |-> "update", order |-> o]
End(o) == [kind |-> "end", order |-> o]

RegTypeOK == /\ draining \in [Nodes -> BOOLEAN]
             /\ conn \in [Conns -> {"new", "up", "gone"}]
             /\ held_topics \in [Conns -> SUBSET Subs]
             /\ members \in [Nodes -> [Topics -> SUBSET Subs]]
             /\ subscribers \in [Nodes -> SUBSET Subs]
             /\ last_order \in [Nodes -> [Topics -> Nat]]
             /\ quiesce \in [Nodes -> {"idle", "started", "copying", "reserving", "done", "failed"}]
             /\ snapshot \in [Nodes -> [Topics -> SUBSET Subs]]
             /\ ends \in [Nodes -> [Topics -> Nat]]
             /\ doomed \subseteq Conns
             /\ goaway \subseteq Conns
             /\ arrived \in [Subs -> SUBSET Nat]
             /\ flushed_done \subseteq Waiters

\* Types of the backplane, the lanes and the registry maps.
TypeOK == BPTypeOK /\ LaneTypeOK /\ RegTypeOK

Init == /\ BPInit
        /\ LaneInit
        /\ draining = [n \in Nodes |-> FALSE]
        /\ conn = [c \in Conns |-> "new"]
        /\ held_topics = [c \in Conns |-> {}]
        /\ members = [n \in Nodes |-> [t \in Topics |-> {}]]
        /\ subscribers = [n \in Nodes |-> {}]
        /\ last_order = [n \in Nodes |-> [t \in Topics |-> 0]]
        /\ quiesce = [n \in Nodes |-> "idle"]
        /\ snapshot = [n \in Nodes |-> [t \in Topics |-> {}]]
        /\ ends = [n \in Nodes |-> [t \in Topics |-> 0]]
        /\ doomed = {}
        /\ goaway = {}
        /\ arrived = [s \in Subs |-> {}]
        /\ flushed_done = {}
-----------------------------------------------------------------------------
(* The state mutex.                                                         *)

\* Mutant: the guard of the snapshot lives on over the loop that reserves the ends.
HeldWhileReserving(n) == quiesce[n] \in {"copying", "reserving"}

\* Mutant: deliver keeps its guard while it disconnects.
HeldWhileDisconnecting(n) == quiesce[n] = "copying" \/ \E c \in doomed : Home[c] = n

\* lock_state of node n blocks: its guard is held from one step to the next.  That of quiesce
\* ends with the block that copies the members, before the backplane is asked; deliver drops
\* its own before it disconnects, which locks again.
StateHeld(n) == quiesce[n] = "copying"
-----------------------------------------------------------------------------
(* Connections and subscriptions.                                           *)

\* TopicRegistry::new: a registry attaches itself to the backplane.
NewRegistry(n) == Attach(n) /\ UNCHANGED <<lanevars, regvars>>

\* admit_connection: ids are never reused, so each is admitted once.
RegisterConnection(c) ==
    /\ Home[c] \in sinks
    /\ ~StateHeld(Home[c])
    /\ conn[c] = "new"
    /\ conn' = [conn EXCEPT ![c] = "up"]
    /\ UNCHANGED <<bpvars, lanevars, draining, held_topics, members, subscribers,
                   last_order, quiesce, snapshot, ends, doomed, goaway, arrived, flushed_done>>

\* Mutant: register does not look at the draining flag.
RegistersAlways(n) == TRUE

\* register refuses while the node drains; checked under the state lock.
Registers(n) == ~draining[n]

\* register, when it creates a subscription: s is the id that next_subscriber
\* yields.  The other outcomes (Draining, UnknownConnection, an existing
\* subscription, LimitReached) leave the state as it is.
Register(s) ==
    LET c == ConnOf[s]
        t == TopicOf[s]
        n == NodeOf(s) IN
    /\ ~StateHeld(n)
    /\ Registers(n)
    /\ conn[c] = "up"
    /\ \A r \in held_topics[c] : TopicOf[r] # t
    /\ Cardinality(held_topics[c]) < MaxSubscriptions
    /\ task[s] = "none"
    /\ subscribers' = [subscribers EXCEPT ![n] = @ \union {s}]
    /\ members' = [members EXCEPT ![n][t] = @ \union {s}]
    /\ held_topics' = [held_topics EXCEPT ![c] = @ \union {s}]
    /\ task' = [task EXCEPT ![s] = "run"]
    /\ UNCHANGED <<bpvars, queue, in_flight, closed, finished, dropped, notify, link,
                   flushvars, wire, refused, draining, conn, last_order, quiesce,
                   snapshot, ends, doomed, goaway, arrived, flushed_done>>

\* Mutant: the members of the topic keep the removed subscribers.
RemoveFromMapOnly(c, S) ==
    /\ subscribers' = [subscribers EXCEPT ![Home[c]] = @ \ S]
    /\ UNCHANGED <<members, last_order>>
    /\ Close(S)

\* remove_subscriber on every subscriber of S, all of connection c: out of the
\* subscriber map and the members (an emptied topic entry is pruned), and closed.
RemoveSubscribers(c, S) ==
    LET n == Home[c] IN
    /\ subscribers' = [subscribers EXCEPT ![n] = @ \ S]
    /\ members' = [members EXCEPT ![n] = [t \in Topics |-> @[t] \ S]]
    /\ last_order' = [last_order EXCEPT ![n] =
                        [t \in Topics |-> IF members[n][t] \subseteq S THEN 0 ELSE @[t]]]
    /\ Close(S)

\* unregister, when a subscription exists.
Unregister(s) ==
    /\ ~StateHeld(NodeOf(s))
    /\ conn[ConnOf[s]] = "up"
    /\ s \in held_topics[ConnOf[s]]
    /\ held_topics' = [held_topics EXCEPT ![ConnOf[s]] = @ \ {s}]
    /\ RemoveSubscribers(ConnOf[s], {s})
    /\ UNCHANGED <<bpvars, queue, in_flight, finished, dropped, task, link, flushvars,
                   wire, refused, draining, conn, quiesce, snapshot, ends, doomed,
                   goaway, arrived, flushed_done>>

\* Inner::drop_connection, when the connection is registered.
Forget(c) == /\ conn' = [conn EXCEPT ![c] = "gone"]
             /\ held_topics' = [held_topics EXCEPT ![c] = {}]
             /\ RemoveSubscribers(c, held_topics[c])

DropConnection(c) ==
    /\ ~StateHeld(Home[c])
    /\ conn[c] = "up"
    /\ Forget(c)
    /\ UNCHANGED <<bpvars, queue, in_flight, finished, dropped, task, link, flushvars,
                   wire, refused, draining, quiesce, snapshot, ends, doomed, goaway,
                   arrived, flushed_done>>
-----------------------------------------------------------------------------
(* Publish.                                                                 *)

\* publish on node n: fast-fail while draining, else block on the backplane.
RegistryPublish(p, n) ==
    /\ n \in sinks
    /\ ~draining[n]
    /\ PublishCall(p)
    /\ UNCHANGED <<lanevars, regvars>>

Sequence(p, t, fits) == PublishLock(p, t, fits) /\ UNCHANGED <<lanevars, regvars>>

\* Mutant: deliver trusts the fast-fail check of publish.
AcceptsAlways(n) == TRUE

\* deliver refuses while the node drains; checked under the state lock.
Accepts(n) == ~draining[n]

\* The connections fan_out collects: those the policy voted off.
VotedOff(verdict) == {ConnOf[s] : s \in {r \in DOMAIN verdict : verdict[r] = "Disconnect"}}

\* UpdateSink::deliver on node n accepts: fan_out to the members, with the
\* policy's verdict for every full queue.  Connections voted off are left to
\* Disconnect, which runs before the next sink is asked.
Deliver(n) ==
    LET t == held.topic
        M == members[n][t] IN
    /\ doomed = {}
    /\ ~StateHeld(n)
    /\ SinkAccepts(n)
    /\ Accepts(n)
    /\ held.fits
    /\ last_order' = [last_order EXCEPT ![n][t] =
                        IF M = {} \/ @ >= held.order THEN @ ELSE held.order]
    /\ \E verdict \in [Full(M) -> Verdicts] :
         /\ Push(M, verdict, Update(held.order))
         /\ doomed' = VotedOff(verdict)
    /\ arrived' = [s \in Subs |-> IF s \in M THEN arrived[s] \union {held.order} ELSE arrived[s]]
    /\ UNCHANGED <<in_flight, closed, finished, task, link, flushvars, wire, refused,
                   draining, conn, held_topics, members, subscribers, quiesce, snapshot,
                   ends, goaway, flushed_done>>

\* deliver refuses: the node is draining, or the update frame fails to build.
DeliverRefused(n) ==
    /\ doomed = {}
    /\ ~StateHeld(n)
    /\ held # NoPublish
    /\ \/ ~Accepts(n) /\ SinkRefuses(n, "Draining")
       \/ Accepts(n) /\ ~held.fits /\ SinkRefuses(n, "Build")
    /\ UNCHANGED <<lanevars, regvars>>

\* Inner::disconnect: read the handle, drop the connection, spawn the GoAway of
\* its link.  When another thread dropped it first, the handle was read before or
\* after that.
Disconnect(c) ==
    /\ c \in doomed
    /\ ~StateHeld(Home[c])
    /\ doomed' = doomed \ {c}
    /\ \/ /\ conn[c] = "up"
          /\ Forget(c)
          /\ goaway' = goaway \union {c}
       \/ /\ conn[c] # "up"
          /\ goaway' \in {goaway, goaway \union {c}}
          /\ UNCHANGED <<conn, held_topics, subscribers, members, last_order, closed, notify>>
    /\ UNCHANGED <<bpvars, queue, in_flight, finished, dropped, task, link, flushvars,
                   wire, refused, draining, quiesce, snapshot, ends, arrived, flushed_done>>

\* The spawned shutdown_with(EnhanceYourCalm) ends the link (external).
Shutdown(c) ==
    /\ c \in goaway
    /\ goaway' = goaway \ {c}
    /\ link' = [link EXCEPT ![c] = "down"]
    /\ UNCHANGED <<bpvars, queue, in_flight, closed, finished, dropped, notify, task,
                   flushvars, wire, refused, draining, conn, held_topics, members,
                   subscribers, last_order, quiesce, snapshot, ends, doomed, arrived,
                   flushed_done>>

RegistrySettle == doomed = {} /\ PublishSettle /\ UNCHANGED <<lanevars, regvars>>
-----------------------------------------------------------------------------
(* quiesce.  A repeat returns at once, so each node has one of these.       *)

\* The draining flag is swapped before any lock is taken.
QuiesceStart(n) ==
    /\ n \in sinks
    /\ ~draining[n]
    /\ draining' = [draining EXCEPT ![n] = TRUE]
    /\ quiesce' = [quiesce EXCEPT ![n] = "started"]
    /\ UNCHANGED <<bpvars, lanevars, conn, held_topics, members, subscribers, last_order,
                   snapshot, ends, doomed, goaway, arrived, flushed_done>>

\* lock_state of the snapshot's block.
QuiesceLock(n) ==
    /\ quiesce[n] = "started"
    /\ ~StateHeld(n)
    /\ quiesce' = [quiesce EXCEPT ![n] = "copying"]
    /\ UNCHANGED <<bpvars, lanevars, draining, conn, held_topics, members, subscribers,
                   last_order, snapshot, ends, doomed, goaway, arrived, flushed_done>>

\* The members of every topic, copied under the state lock, which the block's end lets go.
QuiesceSnapshot(n) ==
    /\ quiesce[n] = "copying"
    /\ quiesce' = [quiesce EXCEPT ![n] = "reserving"]
    /\ snapshot' = [snapshot EXCEPT ![n] = members[n]]
    /\ UNCHANGED <<bpvars, lanevars, draining, conn, held_topics, members, subscribers,
                   last_order, ends, doomed, goaway, arrived, flushed_done>>

\* Mutant: each end is pushed as soon as it is built.
QuiesceReserveAndPush(n, t) ==
    LET due == {s \in subscribers[n] : s \in snapshot[n][t]} IN
    /\ quiesce[n] = "reserving"
    /\ snapshot[n][t] # {}
    /\ ends[n][t] = 0
    /\ ReserveOrder(t)
    /\ ends' = [ends EXCEPT ![n][t] = orders[t] + 1]
    /\ quiesce' = IF t \in EndFails THEN [quiesce EXCEPT ![n] = "failed"] ELSE quiesce
    /\ IF t \in EndFails THEN UNCHANGED <<queue, finished, notify>>
       ELSE Finish(due, [s \in due |-> End(orders[t] + 1)])
    /\ UNCHANGED <<in_flight, closed, dropped, task, link, flushvars, wire, refused,
                   draining, conn, held_topics, members, subscribers, last_order,
                   snapshot, doomed, goaway, arrived, flushed_done>>

\* One turn of the loop: reserve the topic's end order, then build its end/ frame,
\* whose failure returns at once and leaves the node draining.
QuiesceReserve(n, t) ==
    /\ quiesce[n] = "reserving"
    /\ snapshot[n][t] # {}
    /\ ends[n][t] = 0
    /\ ReserveOrder(t)
    /\ ends' = [ends EXCEPT ![n][t] = orders[t] + 1]
    /\ quiesce' = IF t \in EndFails THEN [quiesce EXCEPT ![n] = "failed"] ELSE quiesce
    /\ UNCHANGED <<lanevars, draining, conn, held_topics, members, subscribers, last_order,
                   snapshot, doomed, goaway, arrived, flushed_done>>

\* The loop over the snapshot is through.
EndsReserved(n) == \A t \in Topics : snapshot[n][t] # {} => ends[n][t] # 0

\* Under the state lock again, which no one else holds over a step by then: every
\* member of the snapshot that is still registered gets its end.
QuiesceFinish(n) ==
    LET due == {s \in subscribers[n] : s \in snapshot[n][TopicOf[s]]} IN
    /\ quiesce[n] = "reserving"
    /\ EndsReserved(n)
    /\ quiesce' = [quiesce EXCEPT ![n] = "done"]
    /\ last_order' = [last_order EXCEPT ![n] =
                        [t \in Topics |-> IF snapshot[n][t] # {} /\ members[n][t] # {}
                                          THEN ends[n][t] ELSE @[t]]]
    /\ Finish(due, [s \in due |-> End(ends[n][TopicOf[s]])])
    /\ UNCHANGED <<bpvars, in_flight, closed, dropped, task, link, flushvars, wire,
                   refused, draining, conn, held_topics, members, subscribers, snapshot,
                   ends, doomed, goaway, arrived, flushed_done>>
-----------------------------------------------------------------------------
DrainTask(s) == Drain(s) /\ UNCHANGED <<bpvars, regvars>>

LinkFails(c) == LinkDown(c) /\ UNCHANGED <<bpvars, regvars>>

\* flushed: the call, its passes over the lanes and its waits.
Flushed(w) ==
    \/ /\ WaitsOn[w] \in sinks
       /\ FlushedCall(w)
       /\ UNCHANGED <<bpvars, regvars>>
    \/ /\ ~StateHeld(WaitsOn[w])
       /\ FlushedCheck(w, subscribers[WaitsOn[w]])
       /\ flushed_done' = IF waiter'[w] = "returned" /\ quiesce[WaitsOn[w]] = "done"
                          THEN flushed_done \union {w} ELSE flushed_done
       /\ UNCHANGED <<bpvars, draining, conn, held_topics, members, subscribers, last_order,
                      quiesce, snapshot, ends, doomed, goaway, arrived>>
    \/ FlushedAwait(w) /\ UNCHANGED <<bpvars, regvars>>

Next == \/ \E n \in Nodes : \/ NewRegistry(n) \/ Deliver(n) \/ DeliverRefused(n)
                            \/ QuiesceStart(n) \/ QuiesceLock(n) \/ QuiesceSnapshot(n)
                            \/ QuiesceFinish(n)
        \/ \E n \in Nodes, t \in Topics : QuiesceReserve(n, t)
        \/ \E c \in Conns : RegisterConnection(c) \/ Disconnect(c) \/ Shutdown(c)
        \/ \E c \in Leavers : DropConnection(c)
        \/ \E c \in Flaky : LinkFails(c)
        \/ \E s \in Subs : \/ Register(s) \/ DrainTask(s)
                           \/ ConnOf[s] \in Leavers /\ Unregister(s)
        \/ \E p \in Callers, n \in Nodes : RegistryPublish(p, n)
        \/ \E p \in Callers, t \in Topics, fits \in BOOLEAN : Sequence(p, t, fits)
        \/ RegistrySettle
        \/ \E w \in Waiters : Flushed(w)

Spec == Init /\ [][Next]_vars

\* Every spawned task, and every call already made, keeps being scheduled; no
\* call is obliged to be made.  The peer answers an emit that it is offered again
\* and again (stream slots keep coming back).
Fairness ==
    /\ \A s \in Subs :
         /\ WF_vars(DrainTask(s))
         /\ SF_vars((EmitOk(s) \/ EmitRefused(s)) /\ UNCHANGED <<bpvars, regvars>>)
    /\ \A w \in Waiters : WF_vars(waiter[w] # "idle" /\ Flushed(w))
    /\ \A n \in Nodes : /\ WF_vars(QuiesceLock(n) \/ QuiesceSnapshot(n) \/ QuiesceFinish(n))
                        /\ WF_vars(Deliver(n) \/ DeliverRefused(n))
    /\ \A n \in Nodes, t \in Topics : WF_vars(QuiesceReserve(n, t))
    /\ \A c \in Conns : WF_vars(Disconnect(c)) /\ WF_vars(Shutdown(c))
    /\ WF_vars(RegistrySettle)

FairSpec == Spec /\ Fairness
-----------------------------------------------------------------------------
\* The three maps of State describe the same subscriptions: a subscriber is in
\* the subscriber map iff it is a member of its topic, iff its connection is
\* registered and lists it; a connection holds a topic once (register,
\* unregister, drop_connection, disconnect).
MapsAgree ==
    /\ \A s \in Subs :
         LET here == s \in subscribers[NodeOf(s)] IN
         /\ here <=> s \in members[NodeOf(s)][TopicOf[s]]
         /\ here <=> conn[ConnOf[s]] = "up" /\ s \in held_topics[ConnOf[s]]
         /\ here => task[s] # "none"
    /\ \A c \in Conns : \A r, s \in held_topics[c] : TopicOf[r] = TopicOf[s] => r = s
    /\ \A n \in Nodes, t \in Topics : members[n][t] \subseteq subscribers[n]

\* What a lane emitted and still holds, oldest first.
Stream(s) == wire[s] \o queue[s]

\* The orders of a lane strictly increase from the first frame it emitted to the
\* last one it holds, whatever the policy evicted: "Emits serialize per
\* subscriber, preserving stamp order" (drain), and no stamp is given twice.
StampOrder ==
    \A s \in Subs : \A i, j \in 1..Len(Stream(s)) :
        i < j => Stream(s)[i].order < Stream(s)[j].order

\* No update enters a lane after its end: quiesce flips `draining` before it takes
\* the state lock and deliver checks it under that lock.
NothingAfterEnd ==
    \A s \in Subs : \A i \in 1..Len(Stream(s)) :
        Stream(s)[i].kind = "end" => i = Len(Stream(s)) /\ finished[s]

\* Between two updates offered to a lane, an order the lane was not offered is the
\* end stamp some registry reserved: refused publishes burn nothing.
HolesAreEndStamps ==
    \A s \in Subs : \A a, b \in arrived[s] : \A o \in (a + 1)..(b - 1) :
        o \in arrived[s] \/ \E n \in Nodes : ends[n][TopicOf[s]] = o

\* A quiesce that returned signaled every subscriber that is still registered: none
\* slipped in between the snapshot and the flag (register checks it under the lock).
EveryMemberCompleted ==
    \A n \in Nodes : quiesce[n] = "done" => \A s \in subscribers[n] : finished[s]

\* Ends are pushed only after every one of them was built: a quiesce that fails on
\* one topic has completed no subscriber of another.
EndsAllOrNothing ==
    \A s \in Subs : finished[s] => quiesce[NodeOf(s)] = "done"

\* dropped() counts exactly what the lane lost: the frames offered to a live lane
\* that were neither emitted nor are queued, and those the peer refused.
DropAccounting ==
    \A n \in Nodes : \A s \in subscribers[n] :
        ConnOf[s] \notin doomed =>
            Len(Stream(s)) + (dropped[s] - refused[s])
              = Cardinality(arrived[s]) + (IF finished[s] THEN 1 ELSE 0)

\* flushed that returned after quiesce did: every live lane has settled the emit of
\* its end ("every end/<topic> push has left").
FlushedMeansEndsLeft ==
    \A w \in flushed_done : \A s \in subscribers[WaitsOn[w]] :
        closed[s] \/ /\ wire[s] # <<>>
                     /\ wire[s][Len(wire[s])].kind = "end"
                     /\ task[s] \notin {"emit", "slot", "settle", "settlelost"}

\* No order is missing between two updates offered to a lane: the backplane
\* contract's "dense" stamps, as a subscriber would see them.
DenseOnLane ==
    \A s \in Subs : \A a, b \in arrived[s] : \A o \in (a + 1)..(b - 1) : o \in arrived[s]

\* A drain task that ended because its topic completed left nothing behind: "stop
\* the drain task once it flushes" (finish), "Stop once the queue empties".
DrainedLaneIsFlushed ==
    \A s \in Subs : task[s] = "done" /\ ~closed[s] => queue[s] = <<>>

\* A quiesce that started returns, although a publish may hold the backplane mutex it waits
\* for and wait for the state mutex it takes: "with no registry lock held. That avoids
\* deadlock against a concurrent publish" (quiesce).
QuiesceReturns == \A n \in Nodes : quiesce[n] = "started" ~> quiesce[n] \in {"done", "failed"}

\* A publish that has the backplane mutex is answered: every registry it delivers to lets its
\* state mutex go, to deliver itself when it disconnects who was voted off, whatever quiesce
\* and the connections do meanwhile (Local::publish, deliver, disconnect).
PublishReturns ==
    \A p \in Callers : (held # NoPublish /\ held.caller = p) ~> answer[p] # "none"

\* Every subscriber that quiesce signaled emits its end, or its lane is closed.
EndLeaves ==
    \A s \in Subs : finished[s] ~> closed[s] \/ \E i \in 1..Len(wire[s]) : wire[s][i].kind = "end"

\* The drain task of a closed subscriber ends.
ClosedTaskEnds == \A s \in Subs : closed[s] /\ task[s] # "none" ~> task[s] = "done"

\* No flushed call sleeps for ever while every live queue is empty.
FlushedWakes ==
    \A w \in Waiters :
        ~<>[](/\ waiter[w] = "parked"
              /\ \A s \in subscribers[WaitsOn[w]] : closed[s] \/ ~Pending(s))

\* What a subscriber may rely on about stamps: they increase, and one that is missing
\* between two updates was an end's.
LaneOrders == StampOrder /\ HolesAreEndStamps

\* Drain tasks come to their end: with the end frame out, or closed.
TasksSettle == EndLeaves /\ ClosedTaskEnds
=============================================================================
