--------------------------------- MODULE Relay ---------------------------------
(***************************************************************************)
(* The demo server's choice of backplane.  Without a processor the registry *)
(* publishes through `Local` directly.  With one it publishes through       *)
(* RelayBackplane: a bounded queue, one worker that sends each note to the  *)
(* processor servlet, and `Local` for the answer.                           *)
(*                                                                          *)
(* A note is named by the position of its acknowledgment; its octets are    *)
(* reduced to what the code tells apart: whether the servlet can read it    *)
(* and whether the transformed note fits an update frame.                   *)
(***************************************************************************)
EXTENDS Backplane, Sequences

CONSTANTS Worker,     \* the relay worker, as a caller of Local::publish
          Depth,      \* RELAY_DEPTH
          MaxAcked    \* bound: publishes that the relay acknowledges

VARIABLES relayed,    \* PUBSUB_PROCESSOR_ENDPOINT is set
          requests,   \* the queue between publish and the worker
          worker,     \* where the worker is: recv, process, publish or done
          item,       \* the request in the worker's hands
          exchange,   \* the round-trip: none, asked, answered or refused
          link,       \* the mux connection to the processor is up
          acked,      \* history: publishes answered Ok
          refusal,    \* what the last refused publish was told
          sequenced,  \* history: the notes that Local stamped, in that order
          dropped     \* history: acknowledged notes that were not stamped

rvars == <<relayed, requests, worker, item, exchange, link, acked, refusal, sequenced, dropped>>
allvars == <<bpvars, rvars>>

ASSUME RelayAssumption == /\ Worker \in Callers
                          /\ Depth \in Nat \ {0}
                          /\ MaxAcked \in Nat

Notes == [n : Nat, topic : Topics, readable : BOOLEAN, fits : BOOLEAN]

RTypeOK == /\ relayed \in BOOLEAN
           /\ requests \in Seq(Notes)
           /\ worker \in {"recv", "process", "publish", "done"}
           /\ item \in Notes \union {NoPublish}
           /\ exchange \in {"none", "asked", "answered", "refused"}
           /\ link \in BOOLEAN
           /\ acked \in Nat
           /\ refusal \in {"none", "RelaySaturated", "RelayClosed"}
           /\ sequenced \in Seq(Nat)
           /\ dropped \subseteq Nat

\* main picks the backplane; RelayBackplane::connect returns with the link up.
RInit == /\ BPInit
         /\ relayed \in BOOLEAN
         /\ requests = <<>>
         /\ worker = "recv"
         /\ item = NoPublish
         /\ exchange = "none"
         /\ link = relayed
         /\ acked = 0
         /\ refusal = "none"
         /\ sequenced = <<>>
         /\ dropped = {}
-----------------------------------------------------------------------------
\* Mutant: a full queue makes room by forgetting its oldest note.
RelayPublishEvicts(t, readable, fits) ==
    /\ relayed
    /\ worker # "done"
    /\ acked < MaxAcked
    /\ LET room == IF Len(requests) < Depth THEN requests ELSE Tail(requests) IN
       requests' = Append(room, [n |-> acked + 1, topic |-> t,
                                 readable |-> readable, fits |-> fits])
    /\ acked' = acked + 1
    /\ UNCHANGED <<bpvars, relayed, worker, item, exchange, link, refusal, sequenced, dropped>>

\* RelayBackplane::publish: a free slot acknowledges, a full queue and a worker
\* that has stopped refuse.
RelayPublish(t, readable, fits) ==
    /\ relayed
    /\ \/ /\ worker # "done"
          /\ Len(requests) < Depth
          /\ acked < MaxAcked
          /\ requests' = Append(requests, [n |-> acked + 1, topic |-> t,
                                           readable |-> readable, fits |-> fits])
          /\ acked' = acked + 1
          /\ UNCHANGED refusal
       \/ /\ worker # "done"
          /\ Len(requests) = Depth
          /\ refusal' = "RelaySaturated"
          /\ UNCHANGED <<requests, acked>>
       \/ /\ worker = "done"
          /\ refusal' = "RelayClosed"
          /\ UNCHANGED <<requests, acked>>
    /\ UNCHANGED <<bpvars, relayed, worker, item, exchange, link, sequenced, dropped>>

\* Mutant: the worker serves the newest request first.
WorkerRecvNewest ==
    /\ worker = "recv"
    /\ requests # <<>>
    /\ item' = requests[Len(requests)]
    /\ requests' = SubSeq(requests, 1, Len(requests) - 1)
    /\ worker' = "process"
    /\ exchange' = "asked"
    /\ UNCHANGED <<bpvars, relayed, link, acked, refusal, sequenced, dropped>>

\* The worker takes the oldest request and emits it to the processor.
WorkerRecv ==
    /\ worker = "recv"
    /\ requests # <<>>
    /\ item' = Head(requests)
    /\ requests' = Tail(requests)
    /\ worker' = "process"
    /\ exchange' = "asked"
    /\ UNCHANGED <<bpvars, relayed, link, acked, refusal, sequenced, dropped>>

\* process_stream: the servlet transforms a readable note and refuses another.
ProcessStream ==
    /\ link
    /\ exchange = "asked"
    /\ exchange' = IF item.readable THEN "answered" ELSE "refused"
    /\ UNCHANGED <<bpvars, relayed, requests, worker, item, link, acked, refusal, sequenced, dropped>>

\* The connection to the processor breaks; an emit in progress hangs or errs.
ProcessorLost ==
    /\ link
    /\ link' = FALSE
    /\ UNCHANGED <<bpvars, relayed, requests, worker, item, exchange, acked, refusal, sequenced, dropped>>

\* process returned a note: the worker calls Local::publish.
WorkerProcessed ==
    /\ worker = "process"
    /\ exchange = "answered"
    /\ worker' = "publish"
    /\ exchange' = "none"
    /\ PublishCall(Worker)
    /\ UNCHANGED <<relayed, requests, item, link, acked, refusal, sequenced, dropped>>

\* The notes that the relay still has to sequence.
Held == {requests[i].n : i \in 1..Len(requests)} \union
        (IF worker \in {"process", "publish"} THEN {item.n} ELSE {})

\* Mutant: the round-trip has no timeout, only the servlet's refusal ends it.
WorkerFailsOnRefusal ==
    /\ worker = "process"
    /\ exchange = "refused"
    /\ worker' = "done"
    /\ requests' = <<>>
    /\ item' = NoPublish
    /\ exchange' = "none"
    /\ dropped' = dropped \union Held
    /\ UNCHANGED <<bpvars, relayed, link, acked, refusal, sequenced>>

\* process returned an error (a refusal, a broken link, or the timeout on a
\* round-trip that has not been answered): the worker returns, which drops the
\* receiving half of the queue with everything in it.
WorkerFails ==
    /\ worker = "process"
    /\ exchange \in {"asked", "refused"}
    /\ worker' = "done"
    /\ requests' = <<>>
    /\ item' = NoPublish
    /\ exchange' = "none"
    /\ dropped' = dropped \union Held
    /\ UNCHANGED <<bpvars, relayed, link, acked, refusal, sequenced>>

\* The worker's Local::publish takes the mutex for the note it holds.
WorkerLock ==
    /\ worker = "publish"
    /\ PublishLock(Worker, item.topic, item.fits)
    /\ UNCHANGED rvars

\* Local::publish returns to the worker, which ignores a refusal and goes on.
WorkerPublished ==
    /\ held # NoPublish
    /\ held.caller = Worker
    /\ PublishSettle
    /\ worker' = "recv"
    /\ item' = NoPublish
    /\ sequenced' = IF Burns(held) THEN Append(sequenced, item.n) ELSE sequenced
    /\ dropped' = IF Burns(held) THEN dropped ELSE dropped \union {item.n}
    /\ UNCHANGED <<relayed, requests, exchange, link, acked, refusal>>
-----------------------------------------------------------------------------
\* What the sinks and the registries do to Local in either deployment.
SinkStep == /\ \/ \E k \in Sinks : Attach(k) \/ SinkGone(k) \/ SinkAccepts(k)
               \/ \E k \in Sinks, cause \in Refusals : SinkRefuses(k, cause)
            /\ UNCHANGED rvars

\* reserve_order passes through to Local.  Each acknowledged note may still need
\* an order, so the bound leaves room for them.
RelayReserve(t) == /\ orders[t] + (IF relayed THEN MaxAcked ELSE 0) < MaxOrder
                   /\ ReserveOrder(t)
                   /\ UNCHANGED rvars

\* Without a processor a registry's publish is Local::publish.
DirectPublish == /\ ~relayed
                 /\ \/ \E p \in Callers \ {Worker} : PublishCall(p)
                    \/ \E p \in Callers \ {Worker}, t \in Topics, fits \in BOOLEAN :
                          PublishLock(p, t, fits)
                    \/ PublishSettle
                 /\ UNCHANGED rvars

RelayNext == \/ SinkStep
             \/ \E t \in Topics : RelayReserve(t)
             \/ DirectPublish
             \/ \E t \in Topics, readable, fits \in BOOLEAN : RelayPublish(t, readable, fits)
             \/ WorkerRecv \/ WorkerProcessed \/ WorkerFails \/ WorkerLock \/ WorkerPublished
             \/ ProcessStream \/ ProcessorLost

RelaySpec == RInit /\ [][RelayNext]_allvars

\* A spawned worker is polled, a timeout elapses, and a sink's deliver returns.
\* Nothing obliges the processor to answer.
SinkAnswers == /\ \E k \in Sinks : \/ SinkAccepts(k)
                                   \/ \E cause \in Refusals : SinkRefuses(k, cause)
               /\ UNCHANGED rvars

RelayFairSpec == /\ RelaySpec
                 /\ WF_allvars(WorkerRecv) /\ WF_allvars(WorkerProcessed)
                 /\ WF_allvars(WorkerFails) /\ WF_allvars(WorkerLock)
                 /\ WF_allvars(WorkerPublished) /\ WF_allvars(SinkAnswers)
-----------------------------------------------------------------------------
AMO == INSTANCE AtMostOnce WITH closed <- (worker = "done")

\* RelayBackplane implements the promise of its doc comment: publishes are
\* sequenced at most once and in the order they were acknowledged, and once a
\* processor failure has closed the relay no publish is acknowledged or sequenced.
ImplementsAtMostOnce == AMO!AMOSpec

\* The bounded queue loses nothing by itself: every acknowledged note is in the
\* queue, in the worker's hands, stamped exactly once, or dropped for a reason the
\* code names (the relay closed, or every sink refused it).
NothingUnaccounted ==
    LET done == {sequenced[i] : i \in 1..Len(sequenced)} IN
    /\ 1..acked = Held \union done \union dropped
    /\ Held \intersect (done \union dropped) = {}
    /\ done \intersect dropped = {}

\* An acknowledged note does not stay with the relay: it is stamped or dropped,
\* even if the processor never answers (the worker's timeout on each round-trip).
AckedSettles == \A n \in 1..MaxAcked : (n \in Held) ~> (n \notin Held)
===============================================================================
