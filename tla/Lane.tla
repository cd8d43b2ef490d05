-------------------------------- MODULE Lane ---------------------------------
(***************************************************************************)
(* The delivery lanes of the registry: each subscriber's bounded queue, the *)
(* flags that publish, unregister and quiesce flip, the drain task that     *)
(* pops and emits, and the `flush` notification that `flushed` waits for.   *)
(*                                                                          *)
(* A step of a task is what it does under one lock, or one await.  A frame  *)
(* is its kind (update or end) and its order.  The mux (emit_on_stream,     *)
(* wait_for_stream_slot) and tokio's Notify are external: an emit may be    *)
(* accepted, refused by the peer, held back for a stream slot, or lost with *)
(* the link; a Notify stores at most one permit and wakes one waiter.       *)
(***************************************************************************)
EXTENDS Naturals, Sequences

CONSTANTS Nodes,          \* registries
          Conns,          \* connection ids
          Subs,           \* subscriber ids
          ConnOf,         \* Subscriber.connection of each id
          Home,           \* the registry that admits each connection
          Waiters,        \* calls of flushed
          WaitsOn,        \* the registry each of them is made on
          QueueCapacity,  \* RegistryOptions.queue_capacity
          PeerAnswers,    \* how an emit on a live link may turn out
          Preemptive      \* another thread may run between two lane accesses

NodeOf(s) == Home[ConnOf[s]]

ASSUME LaneAssumption == /\ ConnOf \in [Subs -> Conns]
                         /\ Home \in [Conns -> Nodes]
                         /\ WaitsOn \in [Waiters -> Nodes]
                         /\ QueueCapacity \in Nat
                         /\ PeerAnswers \subseteq {"Ok", "Refused", "Exhausted"}
                         /\ Preemptive \in BOOLEAN

VARIABLES queue,     \* Lane.queue
          in_flight, \* Lane.in_flight
          closed,    \* Subscriber.closed
          finished,  \* Subscriber.finished
          dropped,   \* Subscriber.dropped
          notify,    \* the permit of Subscriber.notify
          task,      \* where the subscriber's drain task is
          link,      \* whether each connection's mux link still carries frames
          flush,     \* the permit of Inner.flush
          flushq,    \* the flushed calls parked on Inner.flush, oldest first
          waiter,    \* where each flushed call is
          wire,      \* history: the frames handed to emit_on_stream, in order
          refused    \* history: how many of them the peer refused

flushvars == <<flush, flushq, waiter>>

lanevars == <<queue, in_flight, closed, finished, dropped, notify, task, link,
              flush, flushq, waiter, wire, refused>>

Frame == [kind: {"update", "end"}, order: Nat]
TaskState == {"none", "run", "checked", "empty", "parked", "emit", "slot", "settle",
              "settlelost", "lost", "done"}
WaiterState == {"idle", "check", "await", "parked", "returned"}

LaneTypeOK == /\ queue \in [Subs -> Seq(Frame)]
              /\ in_flight \in [Subs -> BOOLEAN]
              /\ closed \in [Subs -> BOOLEAN]
              /\ finished \in [Subs -> BOOLEAN]
              /\ dropped \in [Subs -> Nat]
              /\ notify \in [Subs -> BOOLEAN]
              /\ task \in [Subs -> TaskState]
              /\ link \in [Conns -> {"up", "down"}]
              /\ flush \in [Nodes -> BOOLEAN]
              /\ flushq \in [Nodes -> Seq(Waiters)]
              /\ waiter \in [Waiters -> WaiterState]
              /\ wire \in [Subs -> Seq(Frame)]
              /\ refused \in [Subs -> Nat]

LaneInit == /\ queue = [s \in Subs |-> <<>>]
            /\ in_flight = [s \in Subs |-> FALSE]
            /\ closed = [s \in Subs |-> FALSE]
            /\ finished = [s \in Subs |-> FALSE]
            /\ dropped = [s \in Subs |-> 0]
            /\ notify = [s \in Subs |-> FALSE]
            /\ task = [s \in Subs |-> "none"]
            /\ link = [c \in Conns |-> "up"]
            /\ flush = [n \in Nodes |-> FALSE]
            /\ flushq = [n \in Nodes |-> <<>>]
            /\ waiter = [w \in Waiters |-> "idle"]
            /\ wire = [s \in Subs |-> <<>>]
            /\ refused = [s \in Subs |-> 0]
-----------------------------------------------------------------------------
\* Mutant: pending forgets the update that is being emitted.
PendingQueued(s) == queue[s] # <<>>

\* Subscriber::pending: something is queued or being emitted.
Pending(s) == in_flight[s] \/ queue[s] # <<>>

\* VecDeque::pop_front.
PopFront(q) == IF q = <<>> THEN q ELSE Tail(q)

\* Subscriber::close on every subscriber of S.
Close(S) == /\ closed' = [s \in Subs |-> closed[s] \/ s \in S]
            /\ notify' = [s \in Subs |-> notify[s] \/ s \in S]

\* Mutant: finish without waking the drain task.
FinishSilently(S, end) ==
    /\ queue' = [s \in Subs |-> IF s \in S THEN Append(queue[s], end[s]) ELSE queue[s]]
    /\ finished' = [s \in Subs |-> finished[s] \/ s \in S]
    /\ UNCHANGED notify

\* Subscriber::finish on every subscriber of S, with the end frame each is due.
Finish(S, end) ==
    /\ queue' = [s \in Subs |-> IF s \in S THEN Append(queue[s], end[s]) ELSE queue[s]]
    /\ finished' = [s \in Subs |-> finished[s] \/ s \in S]
    /\ notify' = [s \in Subs |-> notify[s] \/ s \in S]

\* Inner::push of `update` on every subscriber of M.  `verdict` is what the
\* delivery policy said for those whose queue is full.
Full(M) == {s \in M : Len(queue[s]) >= QueueCapacity}

\* Mutant: a refused new update is not counted.
EvictsOnly(verdict) == {s \in DOMAIN verdict : verdict[s] = "DropOldest"}

\* The subscribers for which the policy dropped an update.
Drops(verdict) == {s \in DOMAIN verdict : verdict[s] \in {"DropOldest", "DropNew"}}

Push(M, verdict, update) ==
    LET full == DOMAIN verdict
        evicts == {s \in full : verdict[s] = "DropOldest"}
        enqueues == (M \ full) \union evicts
    IN  /\ queue' = [s \in Subs |->
                        IF s \in evicts THEN Append(PopFront(queue[s]), update)
                        ELSE IF s \in enqueues THEN Append(queue[s], update)
                        ELSE queue[s]]
        /\ dropped' = [s \in Subs |-> IF s \in Drops(verdict) THEN dropped[s] + 1 ELSE dropped[s]]
        /\ notify' = [s \in Subs |-> notify[s] \/ s \in enqueues]
-----------------------------------------------------------------------------
(* The drain task.                                                          *)

\* The loop head finds the subscriber closed.
DrainStop(s) == /\ task[s] = "run"
                /\ closed[s]
                /\ task' = [task EXCEPT ![s] = "done"]
                /\ UNCHANGED <<queue, in_flight, closed, finished, dropped, notify, link,
                               flushvars, wire, refused>>

\* It finds it open.  The lane lock is taken only afterwards: another thread may
\* run in between when the runtime has several.
DrainOpen(s) == /\ Preemptive
                /\ task[s] = "run"
                /\ ~closed[s]
                /\ task' = [task EXCEPT ![s] = "checked"]
                /\ UNCHANGED <<queue, in_flight, closed, finished, dropped, notify, link,
                               flushvars, wire, refused>>

AtPop(s) == \/ task[s] = "checked"
            \/ ~Preemptive /\ task[s] = "run" /\ ~closed[s]

\* It pops the oldest frame and hands it to the mux.
DrainPop(s) == /\ AtPop(s)
               /\ queue[s] # <<>>
               /\ queue' = [queue EXCEPT ![s] = Tail(@)]
               /\ in_flight' = [in_flight EXCEPT ![s] = TRUE]
               /\ wire' = [wire EXCEPT ![s] = Append(@, Head(queue[s]))]
               /\ task' = [task EXCEPT ![s] = "emit"]
               /\ UNCHANGED <<closed, finished, dropped, notify, link, flushvars, refused>>

\* What the task does after an empty pop, once it has read `finished`.
AfterEmpty(s) == IF finished[s] THEN "done" ELSE "parked"

\* It pops nothing.  `finished` is read after the lane lock is released.
DrainPopEmpty(s) ==
    /\ AtPop(s)
    /\ queue[s] = <<>>
    /\ in_flight' = [in_flight EXCEPT ![s] = FALSE]
    /\ task' = [task EXCEPT ![s] = IF Preemptive THEN "empty" ELSE AfterEmpty(s)]
    /\ UNCHANGED <<queue, closed, finished, dropped, notify, link, flushvars, wire, refused>>

DrainEmpty(s) == /\ task[s] = "empty"
                 /\ task' = [task EXCEPT ![s] = AfterEmpty(s)]
                 /\ UNCHANGED <<queue, in_flight, closed, finished, dropped, notify, link,
                                flushvars, wire, refused>>

\* notified().await takes the permit.
DrainWake(s) == /\ task[s] = "parked"
                /\ notify[s]
                /\ notify' = [notify EXCEPT ![s] = FALSE]
                /\ task' = [task EXCEPT ![s] = "run"]
                /\ UNCHANGED <<queue, in_flight, closed, finished, dropped, link, flushvars, wire, refused>>

\* deliver: the peer accepted the frame.
EmitOk(s) == /\ "Ok" \in PeerAnswers
             /\ task[s] = "emit"
             /\ link[ConnOf[s]] = "up"
             /\ task' = [task EXCEPT ![s] = "settle"]
             /\ UNCHANGED <<queue, in_flight, closed, finished, dropped, notify, link,
                            flushvars, wire, refused>>

\* deliver: the peer refused this one frame, which is counted as dropped.
EmitRefused(s) == /\ "Refused" \in PeerAnswers
                  /\ task[s] = "emit"
                  /\ link[ConnOf[s]] = "up"
                  /\ dropped' = [dropped EXCEPT ![s] = @ + 1]
                  /\ refused' = [refused EXCEPT ![s] = @ + 1]
                  /\ task' = [task EXCEPT ![s] = "settle"]
                  /\ UNCHANGED <<queue, in_flight, closed, finished, notify, link, flushvars, wire>>

\* deliver: no stream slot is free; wait for one, then emit again.
EmitExhausted(s) == /\ "Exhausted" \in PeerAnswers
                    /\ task[s] = "emit"
                    /\ link[ConnOf[s]] = "up"
                    /\ task' = [task EXCEPT ![s] = "slot"]
                    /\ UNCHANGED <<queue, in_flight, closed, finished, dropped, notify,
                                   link, flushvars, wire, refused>>

SlotFreed(s) == /\ task[s] = "slot"
                /\ link[ConnOf[s]] = "up"
                /\ task' = [task EXCEPT ![s] = "emit"]
                /\ UNCHANGED <<queue, in_flight, closed, finished, dropped, notify, link,
                               flushvars, wire, refused>>

\* deliver: the emit or the wait for a slot failed with the link (LinkLost).
EmitLost(s) == /\ task[s] \in {"emit", "slot"}
               /\ link[ConnOf[s]] = "down"
               /\ task' = [task EXCEPT ![s] = "settlelost"]
               /\ UNCHANGED <<queue, in_flight, closed, finished, dropped, notify, link,
                              flushvars, wire, refused>>

\* Notify::notify_one on Inner.flush: wake the oldest waiter or store a permit.
NotifyFlush(n) ==
    \/ /\ flushq[n] = <<>>
       /\ flush' = [flush EXCEPT ![n] = TRUE]
       /\ UNCHANGED <<flushq, waiter>>
    \/ /\ flushq[n] # <<>>
       /\ flushq' = [flushq EXCEPT ![n] = Tail(@)]
       /\ waiter' = [waiter EXCEPT ![Head(flushq[n])] = "check"]
       /\ UNCHANGED flush

\* The emit settled: the lane is idle when nothing is queued behind it, and only
\* then is `flush` signaled.
DrainSettle(s) ==
    /\ task[s] \in {"settle", "settlelost"}
    /\ in_flight' = [in_flight EXCEPT ![s] = FALSE]
    /\ task' = [task EXCEPT ![s] = IF @ = "settle" THEN "run" ELSE "lost"]
    /\ IF queue[s] = <<>> THEN NotifyFlush(NodeOf(s)) ELSE UNCHANGED flushvars
    /\ UNCHANGED <<queue, closed, finished, dropped, notify, link, wire, refused>>

\* A task that lost its link closes its subscriber and ends.
DrainLost(s) == /\ task[s] = "lost"
                /\ Close({s})
                /\ task' = [task EXCEPT ![s] = "done"]
                /\ UNCHANGED <<queue, in_flight, finished, dropped, link, flushvars, wire, refused>>

Drain(s) == \/ DrainStop(s) \/ DrainOpen(s) \/ DrainPop(s) \/ DrainPopEmpty(s)
            \/ DrainEmpty(s) \/ DrainWake(s) \/ EmitOk(s) \/ EmitRefused(s) \/ EmitExhausted(s)
            \/ SlotFreed(s) \/ EmitLost(s) \/ DrainSettle(s) \/ DrainLost(s)
-----------------------------------------------------------------------------
(* flushed().  `registered` is the registry's set of live subscribers.      *)

FlushedCall(w) == /\ waiter[w] = "idle"
                  /\ waiter' = [waiter EXCEPT ![w] = "check"]
                  /\ UNCHANGED <<queue, in_flight, closed, finished, dropped, notify, task,
                                 link, flush, flushq, wire, refused>>

\* One pass of the loop under the state lock.
FlushedCheck(w, registered) ==
    /\ waiter[w] = "check"
    /\ waiter' = [waiter EXCEPT ![w] =
                    IF \E s \in registered : ~closed[s] /\ Pending(s) THEN "await"
                    ELSE "returned"]
    /\ UNCHANGED <<queue, in_flight, closed, finished, dropped, notify, task, link, flush,
                   flushq, wire, refused>>

\* notified().await on Inner.flush: take the permit or park.
FlushedAwait(w) ==
    LET n == WaitsOn[w] IN
    /\ waiter[w] = "await"
    /\ IF flush[n]
       THEN /\ flush' = [flush EXCEPT ![n] = FALSE]
            /\ waiter' = [waiter EXCEPT ![w] = "check"]
            /\ UNCHANGED flushq
       ELSE /\ flushq' = [flushq EXCEPT ![n] = Append(@, w)]
            /\ waiter' = [waiter EXCEPT ![w] = "parked"]
            /\ UNCHANGED flush
    /\ UNCHANGED <<queue, in_flight, closed, finished, dropped, notify, task, link, wire, refused>>

\* The link of a connection fails (external).
LinkDown(c) == /\ link[c] = "up"
               /\ link' = [link EXCEPT ![c] = "down"]
               /\ UNCHANGED <<queue, in_flight, closed, finished, dropped, notify, task,
                              flushvars, wire, refused>>
=============================================================================
