----------------------------- MODULE RelayProofs ------------------------------
(***************************************************************************)
(* Proofs about the relay, for any topics, sinks, callers, queue depth and   *)
(* number of notes.                                                          *)
(*                                                                          *)
(* The notes are settled in the order of their acknowledgments: those that   *)
(* were stamped or dropped are a prefix 1..Settled of the acknowledged ones, *)
(* the worker holds the next one and the queue the rest.  From that follow   *)
(* both the accounting and the step-by-step implementation of AtMostOnce.    *)
(***************************************************************************)
EXTENDS Relay, BackplaneProofs, SequenceTheorems

Busy == worker \in {"process", "publish"}
SetOf(s) == {s[i] : i \in 1..Len(s)}

\* How many notes the relay is through with.
Settled == acked - Len(requests) - (IF Busy THEN 1 ELSE 0)

\* The queue holds the latest notes, in order, and the worker the one before them.
QueueIsSuffix == /\ Settled \in Nat
                 /\ \A i \in 1..Len(requests) : requests[i].n = acked - Len(requests) + i
                 /\ Busy => item \in Notes /\ item.n = acked - Len(requests)

\* The notes the relay is through with are stamped or dropped, never both.
SettledIsPrefix == /\ SetOf(sequenced) \union dropped = 1..Settled
                   /\ SetOf(sequenced) \intersect dropped = {}

\* The worker is at the backplane's mutex only while it publishes, and once.
WorkerAtLocal == /\ Worker \in waiting => worker = "publish"
                 /\ held # NoPublish /\ held.caller = Worker =>
                      worker = "publish" /\ Worker \notin waiting

RelayInv == /\ BPInv /\ RTypeOK
            /\ QueueIsSuffix /\ SettledIsPrefix /\ WorkerAtLocal
-----------------------------------------------------------------------------
\* The elements of a sequence that grew by one.
LEMMA SetOfAppend ==
    ASSUME NEW s \in Seq(Nat), NEW e \in Nat
    PROVE  SetOf(Append(s, e)) = SetOf(s) \union {e}
<1> DEFINE a == Append(s, e)
<1>1. /\ Len(a) = Len(s) + 1 /\ Len(s) \in Nat
      /\ \A i \in 1..Len(s) : a[i] = s[i]
      /\ a[Len(s) + 1] = e
  BY AppendProperties, LenProperties
<1> HIDE DEF a
<1>2. 1..Len(a) = 1..Len(s) \union {Len(s) + 1}
  BY <1>1
<1>3. SetOf(a) = SetOf(s) \union {e}
  BY <1>1, <1>2 DEF SetOf
<1> QED BY <1>3 DEF a

\* What the relay still holds is everything after the settled prefix.
LEMMA HeldIsRest ==
    ASSUME RTypeOK, QueueIsSuffix
    PROVE  Held = (Settled + 1)..acked
<1> DEFINE L == Len(requests)
           Q == {requests[i].n : i \in 1..L}
<1>1. L \in Nat /\ acked \in Nat /\ acked - L \in Nat
  BY LenProperties DEF RTypeOK, QueueIsSuffix, Settled
<1>2. \A i \in 1..L : requests[i].n = acked - L + i
  BY DEF QueueIsSuffix
<1> HIDE DEF L
<1>3. Q = (acked - L + 1)..acked
  <2>1. ASSUME NEW x \in (acked - L + 1)..acked PROVE x \in Q
    <3>1. x - (acked - L) \in 1..L
      BY <2>1, <1>1
    <3>2. requests[x - (acked - L)].n = x
      BY <3>1, <1>1, <1>2
    <3> QED BY <3>1, <3>2
  <2>2. ASSUME NEW x \in Q PROVE x \in (acked - L + 1)..acked
    <3>1. PICK i \in 1..L : x = requests[i].n
      OBVIOUS
    <3>2. x = acked - L + i
      BY <3>1, <1>2
    <3> QED BY <3>2, <1>1
  <2> QED BY <2>1, <2>2
<1>4. CASE Busy
  <2>1. item.n = acked - L /\ Settled + 1 = acked - L
    BY <1>4, <1>1 DEF QueueIsSuffix, Settled, L
  <2>2. Held = Q \union {item.n}
    BY <1>4 DEF Held, Busy, L
  <2>3. (acked - L)..acked = (acked - L + 1)..acked \union {acked - L}
    BY <1>1
  <2> QED BY <2>1, <2>2, <2>3, <1>3
<1>5. CASE ~Busy
  <2>1. Settled = acked - L
    BY <1>5, <1>1 DEF Settled, L
  <2>2. Held = Q
    BY <1>5 DEF Held, Busy, L
  <2> QED BY <2>1, <2>2, <1>3
<1> QED BY <1>4, <1>5

\* Every step of the relay is a step of the backplane or leaves it alone.
LEMMA RelayBackplaneStep == QueueIsSuffix /\ [RelayNext]_allvars => [BPStep]_bpvars
<1> SUFFICES ASSUME QueueIsSuffix, [RelayNext]_allvars PROVE [BPStep]_bpvars
  OBVIOUS
<1> USE DEF BPStep, BPNext
<1>1. CASE SinkStep
  BY <1>1 DEF SinkStep
<1>2. ASSUME NEW t \in Topics, RelayReserve(t) PROVE [BPStep]_bpvars
  BY <1>2 DEF RelayReserve
<1>3. CASE DirectPublish
  BY <1>3 DEF DirectPublish
<1>4. ASSUME NEW t \in Topics, NEW readable \in BOOLEAN, NEW fits \in BOOLEAN,
             RelayPublish(t, readable, fits)
      PROVE  [BPStep]_bpvars
  BY <1>4 DEF RelayPublish
<1>5. CASE WorkerRecv \/ WorkerFails \/ ProcessStream \/ ProcessorLost
  BY <1>5 DEF WorkerRecv, WorkerFails, ProcessStream, ProcessorLost
<1>6. CASE WorkerProcessed
  BY <1>6, RelayAssumption DEF WorkerProcessed
<1>7. CASE WorkerLock
  <2>1. item.topic \in Topics /\ item.fits \in BOOLEAN
    BY <1>7 DEF WorkerLock, QueueIsSuffix, Busy, Notes
  <2> QED BY <2>1, <1>7, RelayAssumption DEF WorkerLock
<1>8. CASE WorkerPublished
  BY <1>8 DEF WorkerPublished
<1>9. CASE UNCHANGED allvars
  BY <1>9 DEF allvars
<1> QED BY <1>1, <1>2, <1>3, <1>4, <1>5, <1>6, <1>7, <1>8, <1>9 DEF RelayNext
-----------------------------------------------------------------------------
\* The worker's standing at the mutex, while the backplane moves under an unchanged relay.
LEMMA WorkerAtLocalStep ==
    ASSUME BPTypeOK, RTypeOK, QueueIsSuffix, WorkerAtLocal, [RelayNext]_allvars
    PROVE  WorkerAtLocal'
<1> USE DEF WorkerAtLocal
<1>1. CASE SinkStep
  <2>1. ASSUME NEW k \in Sinks, Attach(k), UNCHANGED rvars PROVE WorkerAtLocal'
    BY <2>1 DEF Attach, rvars
  <2>2. ASSUME NEW k \in Sinks, UNCHANGED rvars,
               SinkGone(k) \/ SinkAccepts(k) \/ \E cause \in Refusals : SinkRefuses(k, cause)
        PROVE  WorkerAtLocal'
    <3>1. waiting' = waiting /\ worker' = worker
      BY <2>2, Zenon DEF SinkGone, SinkAccepts, SinkRefuses, rvars
    <3>2. ASSUME held' # NoPublish PROVE held # NoPublish /\ held'.caller = held.caller
      <4>1. held # NoPublish /\ held \in Publish
        BY <2>2, <3>2, Zenon DEF SinkGone, SinkAccepts, SinkRefuses, BPTypeOK
      <4>2. held'.caller = held.caller
        BY <2>2, <4>1, Zenon DEF SinkGone, SinkAccepts, SinkRefuses, Publish
      <4> QED BY <4>1, <4>2
    <3> QED BY <3>1, <3>2
  <2> QED BY <2>1, <2>2, <1>1 DEF SinkStep
<1>2. ASSUME NEW t \in Topics, RelayReserve(t) PROVE WorkerAtLocal'
  BY <1>2 DEF RelayReserve, ReserveOrder, rvars
<1>3. CASE DirectPublish
  BY <1>3 DEF DirectPublish, PublishCall, PublishLock, PublishSettle, rvars
<1>4. ASSUME NEW t \in Topics, NEW readable \in BOOLEAN, NEW fits \in BOOLEAN,
             RelayPublish(t, readable, fits)
      PROVE  WorkerAtLocal'
  BY <1>4 DEF RelayPublish, bpvars
<1>5. CASE WorkerRecv \/ WorkerFails \/ ProcessStream \/ ProcessorLost
  BY <1>5 DEF WorkerRecv, WorkerFails, ProcessStream, ProcessorLost, bpvars
<1>6. CASE WorkerProcessed
  BY <1>6 DEF WorkerProcessed, PublishCall
<1>7. CASE WorkerLock
  <2>1. worker' = "publish" /\ waiting' = waiting \ {Worker}
    BY <1>7 DEF WorkerLock, PublishLock, rvars
  <2> QED BY <2>1
<1>8. CASE WorkerPublished
  BY <1>8 DEF WorkerPublished, PublishSettle
<1>9. CASE UNCHANGED allvars
  BY <1>9 DEF allvars, bpvars, rvars
<1> QED BY <1>1, <1>2, <1>3, <1>4, <1>5, <1>6, <1>7, <1>8, <1>9 DEF RelayNext
-----------------------------------------------------------------------------
\* The queue, the worker's item and the history, when the relay takes a note.
LEMMA AcknowledgeStep ==
    ASSUME RTypeOK, QueueIsSuffix, SettledIsPrefix,
           NEW note \in Notes, note.n = acked + 1,
           requests' = Append(requests, note), acked' = acked + 1,
           UNCHANGED <<worker, item, sequenced, dropped>>
    PROVE  requests' \in Seq(Notes) /\ QueueIsSuffix' /\ SettledIsPrefix'
<1>1. /\ requests \in Seq(Notes) /\ acked \in Nat /\ Len(requests) \in Nat
  BY LenProperties DEF RTypeOK
<1>2. /\ requests' \in Seq(Notes) /\ Len(requests') = Len(requests) + 1
      /\ \A i \in 1..Len(requests) : requests'[i] = requests[i]
      /\ requests'[Len(requests) + 1] = note
  BY <1>1, AppendProperties
<1>3. Busy' = Busy
  BY DEF Busy
<1>4. Settled' = Settled
  BY <1>1, <1>2, <1>3 DEF Settled
<1>5. ASSUME NEW i \in 1..Len(requests')
      PROVE  requests'[i].n = acked' - Len(requests') + i
  <2>1. CASE i \in 1..Len(requests)
    <3>1. requests[i].n = acked - Len(requests) + i
      BY <2>1 DEF QueueIsSuffix
    <3>2. acked' - Len(requests') + i = acked - Len(requests) + i
      BY <1>1, <1>2
    <3> QED BY <2>1, <3>1, <3>2, <1>2
  <2>2. CASE i = Len(requests) + 1
    <3>1. acked' - Len(requests') + i = acked + 1
      BY <2>2, <1>1, <1>2
    <3> QED BY <2>2, <3>1, <1>2
  <2> QED BY <1>1, <1>2, <2>1, <2>2
<1>6. Busy' => item' \in Notes /\ item'.n = acked' - Len(requests')
  <2>1. acked' - Len(requests') = acked - Len(requests)
    BY <1>1, <1>2
  <2> QED BY <2>1, <1>3 DEF QueueIsSuffix
<1> QED BY <1>2, <1>4, <1>5, <1>6 DEF QueueIsSuffix, SettledIsPrefix

\* ... when the worker takes the oldest request,
LEMMA RecvStep ==
    ASSUME RTypeOK, QueueIsSuffix, SettledIsPrefix, WorkerRecv
    PROVE  RTypeOK' /\ QueueIsSuffix' /\ SettledIsPrefix'
<1>1. /\ requests \in Seq(Notes) /\ acked \in Nat /\ Len(requests) \in Nat /\ requests # <<>>
  BY LenProperties DEF RTypeOK, WorkerRecv
<1>2. /\ requests' \in Seq(Notes) /\ Len(requests') = Len(requests) - 1
      /\ \A i \in 1..Len(requests') : requests'[i] = requests[i + 1]
      /\ item' = requests[1] /\ item' \in Notes
  BY <1>1, HeadTailProperties DEF WorkerRecv
<1>3. ~Busy /\ Busy' /\ acked' = acked /\ UNCHANGED <<sequenced, dropped>>
  BY DEF Busy, WorkerRecv
<1>4. Len(requests) >= 1
  BY <1>1, EmptySeq
<1>5. Settled' = Settled
  BY <1>1, <1>2, <1>3 DEF Settled
<1>6. ASSUME NEW i \in 1..Len(requests')
      PROVE  requests'[i].n = acked' - Len(requests') + i
  <2>1. i + 1 \in 1..Len(requests)
    BY <1>1, <1>2
  <2>2. requests[i + 1].n = acked - Len(requests) + (i + 1)
    BY <2>1 DEF QueueIsSuffix
  <2>3. acked' - Len(requests') + i = acked - Len(requests) + (i + 1)
    BY <1>1, <1>2, <1>3
  <2> QED BY <2>2, <2>3, <1>2
<1>7. item'.n = acked' - Len(requests')
  <2>1. requests[1].n = acked - Len(requests) + 1
    BY <1>1, <1>4 DEF QueueIsSuffix
  <2> QED BY <2>1, <1>1, <1>2, <1>3
<1>8. RTypeOK'
  BY <1>2 DEF RTypeOK, WorkerRecv
<1> QED BY <1>2, <1>3, <1>5, <1>6, <1>7, <1>8 DEF QueueIsSuffix, SettledIsPrefix

\* ... when a round-trip fails,
LEMMA FailStep ==
    ASSUME RTypeOK, QueueIsSuffix, SettledIsPrefix, WorkerFails
    PROVE  RTypeOK' /\ QueueIsSuffix' /\ SettledIsPrefix'
<1>1. Held = (Settled + 1)..acked
  BY HeldIsRest
<1>2. Settled \in Nat /\ acked \in Nat /\ Settled <= acked
  <2>1. Len(requests) \in Nat /\ acked \in Nat
    BY LenProperties DEF RTypeOK
  <2> QED BY <2>1 DEF QueueIsSuffix, Settled
<1>3. requests' = <<>> /\ Len(requests') = 0 /\ ~Busy' /\ acked' = acked
  BY DEF WorkerFails, Busy
<1>4. Settled' = acked
  BY <1>2, <1>3 DEF Settled
<1>5. 1..acked = 1..Settled \union ((Settled + 1)..acked)
  BY <1>2
<1>6. sequenced' = sequenced /\ dropped' = dropped \union Held
  BY DEF WorkerFails
<1>7. SetOf(sequenced) \intersect Held = {}
  BY <1>1, <1>2 DEF SettledIsPrefix
<1>8. SettledIsPrefix'
  BY <1>1, <1>4, <1>5, <1>6, <1>7 DEF SettledIsPrefix
<1>9. RTypeOK'
  <2>1. Held \subseteq Nat
    BY <1>1, <1>2
  <2> QED BY <2>1, <1>6 DEF RTypeOK, WorkerFails
<1> QED BY <1>2, <1>3, <1>4, <1>8, <1>9 DEF QueueIsSuffix

\* ... and when Local::publish returned to the worker.
LEMMA PublishedStep ==
    ASSUME RTypeOK, QueueIsSuffix, SettledIsPrefix, WorkerAtLocal, WorkerPublished
    PROVE  /\ RTypeOK' /\ QueueIsSuffix' /\ SettledIsPrefix'
           /\ item.n = Settled + 1 /\ item.n \in 1..acked
<1>1. worker = "publish" /\ Busy /\ ~Busy'
  BY DEF WorkerAtLocal, WorkerPublished, Busy
<1>2. /\ Len(requests) \in Nat /\ acked \in Nat /\ Settled \in Nat
      /\ item.n = acked - Len(requests)
  BY <1>1, LenProperties DEF RTypeOK, QueueIsSuffix
<1>3. item.n = Settled + 1 /\ item.n \in 1..acked
  BY <1>1, <1>2 DEF Settled
<1>4. UNCHANGED <<requests, acked>>
  BY DEF WorkerPublished
<1>5. Settled' = Settled + 1
  BY <1>1, <1>2, <1>4 DEF Settled
<1>6. 1..Settled' = 1..Settled \union {item.n} /\ item.n \notin 1..Settled
  BY <1>2, <1>3, <1>5
<1>7. SetOf(Append(sequenced, item.n)) = SetOf(sequenced) \union {item.n}
  BY <1>2, <1>3, SetOfAppend DEF RTypeOK
<1>8. SettledIsPrefix' /\ sequenced' \in Seq(Nat) /\ dropped' \subseteq Nat
  <2>1. CASE Burns(held)
    <3>1. sequenced' = Append(sequenced, item.n) /\ dropped' = dropped
      BY <2>1 DEF WorkerPublished
    <3>2. sequenced' \in Seq(Nat)
      BY <3>1, <1>2, <1>3, AppendProperties DEF RTypeOK
    <3>3. item.n \notin dropped
      BY <1>6 DEF SettledIsPrefix
    <3> QED BY <3>1, <3>2, <3>3, <1>6, <1>7 DEF SettledIsPrefix, RTypeOK
  <2>2. CASE ~Burns(held)
    <3>1. sequenced' = sequenced /\ dropped' = dropped \union {item.n}
      BY <2>2 DEF WorkerPublished
    <3>2. item.n \notin SetOf(sequenced)
      BY <1>6 DEF SettledIsPrefix
    <3> QED BY <3>1, <3>2, <1>2, <1>3, <1>6 DEF SettledIsPrefix, RTypeOK
  <2> QED BY <2>1, <2>2
<1>9. RTypeOK'
  BY <1>8 DEF RTypeOK, WorkerPublished
<1>10. QueueIsSuffix'
  BY <1>1, <1>2, <1>4, <1>5 DEF QueueIsSuffix
<1> QED BY <1>3, <1>8, <1>9, <1>10

\* A step that leaves the relay's own variables alone keeps what they satisfy.
LEMMA RelayIdle ==
    ASSUME RTypeOK, QueueIsSuffix, SettledIsPrefix, UNCHANGED rvars
    PROVE  RTypeOK' /\ QueueIsSuffix' /\ SettledIsPrefix'
<1>1. Busy' = Busy /\ Settled' = Settled
  BY DEF rvars, Busy, Settled
<1>2. RTypeOK'
  BY DEF rvars, RTypeOK
<1> QED BY <1>1, <1>2 DEF rvars, QueueIsSuffix, SettledIsPrefix

\* A publish at the relay enqueues one note, or changes nothing but what it answers.
LEMMA RelayPublishEffect ==
    ASSUME RTypeOK, NEW t \in Topics, NEW readable \in BOOLEAN, NEW fits \in BOOLEAN,
           RelayPublish(t, readable, fits)
    PROVE  /\ \/ /\ \E note \in Notes : note.n = acked + 1 /\ requests' = Append(requests, note)
                 /\ acked' = acked + 1 /\ worker # "done"
              \/ UNCHANGED <<requests, acked>>
           /\ refusal' \in {"none", "RelaySaturated", "RelayClosed"}
           /\ UNCHANGED <<relayed, worker, item, exchange, link, sequenced, dropped>>
<1> DEFINE note == [n |-> acked + 1, topic |-> t, readable |-> readable, fits |-> fits]
<1>1. note \in Notes /\ note.n = acked + 1
  BY DEF Notes, RTypeOK
<1>2. \/ /\ requests' = Append(requests, note) /\ acked' = acked + 1 /\ worker # "done"
      \/ UNCHANGED <<requests, acked>>
  BY DEF RelayPublish
<1>3. refusal' \in {"none", "RelaySaturated", "RelayClosed"}
  BY DEF RelayPublish, RTypeOK
<1>4. UNCHANGED <<relayed, worker, item, exchange, link, sequenced, dropped>>
  BY DEF RelayPublish
<1> HIDE DEF note
<1> QED BY <1>1, <1>2, <1>3, <1>4

\* The inductive step.
LEMMA RelayInvStep == RelayInv /\ [RelayNext]_allvars => RelayInv'
<1> SUFFICES ASSUME RelayInv, [RelayNext]_allvars PROVE RelayInv'
  OBVIOUS
<1> DEFINE Own == RTypeOK' /\ QueueIsSuffix' /\ SettledIsPrefix'
<1>0. BPInv /\ BPTypeOK /\ RTypeOK /\ QueueIsSuffix /\ SettledIsPrefix /\ WorkerAtLocal
  BY DEF RelayInv, BPInv
<1>a. BPInv'
  BY <1>0, RelayBackplaneStep, BPInvStep
<1>b. WorkerAtLocal'
  BY <1>0, WorkerAtLocalStep
<1>1. ASSUME UNCHANGED rvars PROVE Own
  BY <1>0, <1>1, RelayIdle
<1>2. ASSUME NEW t \in Topics, NEW readable \in BOOLEAN, NEW fits \in BOOLEAN,
             RelayPublish(t, readable, fits)
      PROVE  Own
  <2>0. /\ \/ /\ \E note \in Notes : note.n = acked + 1 /\ requests' = Append(requests, note)
              /\ acked' = acked + 1 /\ worker # "done"
           \/ UNCHANGED <<requests, acked>>
        /\ refusal' \in {"none", "RelaySaturated", "RelayClosed"}
        /\ UNCHANGED <<relayed, worker, item, exchange, link, sequenced, dropped>>
    BY <1>0, <1>2, RelayPublishEffect
  <2>1. CASE UNCHANGED <<requests, acked>>
    <3>1. Busy' = Busy /\ Settled' = Settled
      BY <2>0, <2>1 DEF Busy, Settled
    <3> QED BY <1>0, <2>0, <2>1, <3>1 DEF RTypeOK, QueueIsSuffix, SettledIsPrefix
  <2>2. ASSUME NEW note \in Notes, note.n = acked + 1, requests' = Append(requests, note),
               acked' = acked + 1
        PROVE  Own
    <3>1. requests' \in Seq(Notes) /\ QueueIsSuffix' /\ SettledIsPrefix'
      BY <1>0, <2>0, <2>2, AcknowledgeStep
    <3>2. RTypeOK'
      BY <1>0, <2>0, <2>2, <3>1 DEF RTypeOK
    <3> QED BY <3>1, <3>2
  <2> QED BY <2>0, <2>1, <2>2
<1>3. ASSUME WorkerRecv PROVE Own
  BY <1>0, <1>3, RecvStep
<1>4. ASSUME WorkerFails PROVE Own
  BY <1>0, <1>4, FailStep
<1>5. ASSUME WorkerPublished PROVE Own
  BY <1>0, <1>5, PublishedStep
<1>6. ASSUME WorkerProcessed \/ ProcessStream \/ ProcessorLost PROVE Own
  <2>1. Busy' = Busy /\ UNCHANGED <<requests, item, acked, sequenced, dropped>>
    BY <1>6 DEF WorkerProcessed, ProcessStream, ProcessorLost, Busy
  <2>2. Settled' = Settled
    BY <2>1 DEF Settled
  <2>3. RTypeOK'
    BY <1>0, <1>6, Zenon DEF RTypeOK, WorkerProcessed, ProcessStream, ProcessorLost
  <2> QED BY <1>0, <2>1, <2>2, <2>3 DEF QueueIsSuffix, SettledIsPrefix
<1>7. Own
  BY <1>1, <1>2, <1>3, <1>4, <1>5, <1>6
     DEF RelayNext, SinkStep, RelayReserve, DirectPublish, WorkerLock, allvars
<1> QED BY <1>a, <1>b, <1>7 DEF RelayInv

\* The inductive invariant behind the relay's promises.
LEMMA RelayInvariant == RelaySpec => []RelayInv
<1>1. RInit => RelayInv
  <2> SUFFICES ASSUME RInit PROVE RelayInv
    OBVIOUS
  <2>1. BPInv
    BY DEF RInit, BPInit, BPInv, BPTypeOK, HeldIsNext, HistoryBounded, DeliveredSomewhere,
           EveryStampUsedOnce, Answers
  <2>2. ~Busy /\ requests = <<>> /\ acked = 0
    BY DEF RInit, Busy
  <2>3. Len(requests) = 0
    BY <2>2
  <2>4. Settled = acked - Len(requests) - 0
    BY <2>2, Zenon DEF Settled
  <2>5. Settled = 0
    BY <2>2, <2>3, <2>4
  <2>6. SetOf(sequenced) = {} /\ dropped = {}
    BY DEF RInit, SetOf
  <2>7. RTypeOK
    BY DEF RInit, RTypeOK
  <2>8. WorkerAtLocal
    BY DEF RInit, BPInit, WorkerAtLocal
  <2> QED BY <2>1, <2>2, <2>3, <2>5, <2>6, <2>7, <2>8 DEF RelayInv, QueueIsSuffix, SettledIsPrefix
<1> QED BY <1>1, RelayInvStep, PTL DEF RelaySpec
-----------------------------------------------------------------------------
\* Every acknowledged note is queued, in the worker's hands, stamped once or dropped for a
\* reason, for a queue of any depth (RelayBackplane::publish, relay_worker).
THEOREM RelayAccounts == RelaySpec => []NothingUnaccounted
<1>1. RelayInv => NothingUnaccounted
  <2> SUFFICES ASSUME RelayInv PROVE NothingUnaccounted
    OBVIOUS
  <2>1. /\ Held = (Settled + 1)..acked
        /\ SetOf(sequenced) \union dropped = 1..Settled
        /\ SetOf(sequenced) \intersect dropped = {}
    BY HeldIsRest DEF RelayInv, SettledIsPrefix
  <2>2. Settled \in Nat /\ acked \in Nat /\ Settled <= acked
    <3>1. Len(requests) \in Nat /\ acked \in Nat
      BY LenProperties DEF RTypeOK, RelayInv
    <3> QED BY <3>1 DEF RelayInv, QueueIsSuffix, Settled
  <2>3. /\ 1..acked = ((Settled + 1)..acked) \union 1..Settled
        /\ ((Settled + 1)..acked) \intersect 1..Settled = {}
    BY <2>2
  <2> QED BY <2>1, <2>3 DEF NothingUnaccounted, SetOf
<1> QED BY <1>1, RelayInvariant, PTL

\* The stamps stay dense when the publishes come from the relay's worker.
THEOREM RelayStampsUsedOnce == RelaySpec => []EveryStampUsedOnce
<1>1. RelayInv => EveryStampUsedOnce
  BY DEF RelayInv, BPInv
<1> QED BY <1>1, RelayInvariant, PTL

\* The relay implements the promise of its doc comment: at most once, in the order of the
\* acknowledgments, nothing after a failure (RelayBackplane).
THEOREM RelayImplements == RelaySpec => ImplementsAtMostOnce
<1> USE DEF AMO!amovars, AMO!AMONext, AMO!Acknowledge, AMO!Fail, AMO!SequenceOne
<1>1. RInit => AMO!AMOInit
  BY DEF RInit, AMO!AMOInit
<1>2. ASSUME RelayInv, [RelayNext]_allvars PROVE [AMO!AMONext]_(AMO!amovars)
  <2>0. RTypeOK /\ QueueIsSuffix /\ SettledIsPrefix /\ WorkerAtLocal
    BY <1>2 DEF RelayInv
  <2>1. CASE UNCHANGED rvars
    BY <2>1 DEF rvars
  <2>2. ASSUME NEW t \in Topics, NEW readable \in BOOLEAN, NEW fits \in BOOLEAN,
               RelayPublish(t, readable, fits)
        PROVE  [AMO!AMONext]_(AMO!amovars)
    BY <2>0, <2>2, RelayPublishEffect
  <2>3. CASE WorkerRecv \/ WorkerProcessed \/ ProcessStream \/ ProcessorLost
    BY <2>3 DEF WorkerRecv, WorkerProcessed, ProcessStream, ProcessorLost
  <2>4. CASE WorkerFails
    BY <2>4 DEF WorkerFails
  <2>5. CASE WorkerPublished
    <3>1. item.n = Settled + 1 /\ item.n \in 1..acked
      BY <2>0, <2>5, PublishedStep
    <3>2. Settled \in Nat /\ \A i \in 1..Len(sequenced) : sequenced[i] \in 1..Settled
      BY <2>0 DEF QueueIsSuffix, SettledIsPrefix, SetOf
    <3>3. \A i \in 1..Len(sequenced) : sequenced[i] < item.n
      BY <3>1, <3>2
    <3>4. worker # "done" /\ worker' # "done" /\ acked' = acked
      BY <2>0, <2>5 DEF WorkerPublished, WorkerAtLocal
    <3>5. sequenced' = Append(sequenced, item.n) \/ sequenced' = sequenced
      BY <2>5 DEF WorkerPublished
    <3> QED BY <3>1, <3>3, <3>4, <3>5
  <2> QED BY <1>2, <2>1, <2>2, <2>3, <2>4, <2>5, Zenon
     DEF RelayNext, SinkStep, RelayReserve, DirectPublish, WorkerLock, allvars
<1> QED BY <1>1, <1>2, RelayInvariant, PTL DEF RelaySpec, ImplementsAtMostOnce, AMO!AMOSpec
===============================================================================
