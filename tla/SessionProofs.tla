----------------------------- MODULE SessionProofs ----------------------------
(***************************************************************************)
(* Proofs about the races of a MuxWsClient, for any number of calls and any  *)
(* negotiated cap on streams.                                                *)
(*                                                                          *)
(* A race is over when its result is set; the invariant ties each listener   *)
(* and each stream to a race that is not.  A call that was not made yet has  *)
(* no result, so making it starts a race.                                    *)
(***************************************************************************)
EXTENDS Session, FiniteSetTheorems, TLAPS

Sockets == {"none", "connecting", "open", "closing", "closed"}

SessionTypeOK ==
    /\ socket \in Sockets /\ dial \in {"idle", "racing", "client", "rejected"}
    /\ op \in [Requests -> Ops \cup {"none"}]
    /\ result \in [Racers -> {"pending", "ok", "failed", "abort"}]
    /\ ready \in [Racers -> {"none", "ok", "failed"}]
    /\ listeners \subseteq Racers /\ streams \subseteq Requests /\ IsFiniteSet(streams)

Unmade == \A c \in Requests : op[c] = "none" => result[c] = "pending"

SessionInv == SessionTypeOK /\ Unmade /\ NoListenerLeft /\ StreamsReturned

racevars == <<dial, op, result, listeners, streams>>
-----------------------------------------------------------------------------
\* What touches no race: only the types of the rest are at stake.
LEMMA OutsideRaces ==
    ASSUME SessionInv, UNCHANGED racevars, socket' \in Sockets,
           ready' \in [Racers -> {"none", "ok", "failed"}]
    PROVE  SessionInv'
<1>1. SessionTypeOK'
  BY DEF SessionInv, SessionTypeOK, racevars
<1>2. Unmade' /\ NoListenerLeft' /\ StreamsReturned'
  BY DEF SessionInv, Unmade, NoListenerLeft, StreamsReturned, Racing, racevars
<1> QED BY <1>1, <1>2 DEF SessionInv

\* A dial is rejected at once, or its race begins.
LEMMA ConnectStep ==
    ASSUME SessionInv, NEW k \in Dials, NEW m \in {"good", "bad identity", "bad offer"}, Connect(k, m)
    PROVE  SessionInv'
<1>1. /\ dial = "idle" /\ dial' \in {"rejected", "racing"} /\ UNCHANGED <<ready, op, streams>>
      /\ \/ result' = result /\ dial' = "racing" /\ listeners' \subseteq {"dial"}
         \/ \E o \in {"abort", "failed"} :
              result' = [result EXCEPT !["dial"] = o] /\ dial' = "rejected" /\ listeners' = listeners
      /\ socket' \in Sockets
  BY DEF Connect, muxvars, SessionInv, SessionTypeOK, Sockets
<1>2. "dial" \in Racers /\ "dial" \notin Requests /\ Requests \subseteq Racers
  BY SessionAssumption DEF Racers
<1>3. result' \in [Racers -> {"pending", "ok", "failed", "abort"}]
      /\ \A c \in Requests : result'[c] = result[c]
  BY <1>1, <1>2 DEF SessionInv, SessionTypeOK
<1>4. SessionTypeOK'
  BY <1>1, <1>2, <1>3 DEF SessionInv, SessionTypeOK
<1>5. Unmade' /\ StreamsReturned'
  BY <1>1, <1>3 DEF SessionInv, SessionTypeOK, Unmade, StreamsReturned
<1>6. NoListenerLeft'
  <2> SUFFICES ASSUME NEW r \in listeners' PROVE Racing(r)'
    BY DEF NoListenerLeft
  <2>1. CASE dial' = "racing"
    BY <1>1, <2>1 DEF Racing
  <2>2. CASE dial' = "rejected"
    <3>1. r \in listeners /\ r \in Racers
      BY <1>1, <2>2 DEF SessionInv, SessionTypeOK
    <3>2. Racing(r)
      BY <3>1 DEF SessionInv, NoListenerLeft
    <3>3. r # "dial" /\ r \in Requests
      BY <1>1, <3>1, <3>2 DEF Racing, Racers
    <3> QED BY <1>1, <1>3, <3>2, <3>3 DEF Racing
  <2> QED BY <1>1, <2>1, <2>2
<1> QED BY <1>4, <1>5, <1>6 DEF SessionInv

\* The end of the dial's race, whoever won it.
LEMMA DialSettledStep ==
    ASSUME SessionInv, DialSettled
    PROVE  SessionInv'
<1>1. /\ dial' \in {"client", "rejected"} /\ UNCHANGED <<ready, op, streams>>
      /\ result' = [result EXCEPT !["dial"] = IF ready["dial"] # "none" THEN ready["dial"] ELSE "abort"]
      /\ listeners' = listeners \ {"dial"} /\ socket' \in {socket, CloseRaw(socket)}
  BY DEF DialSettled
<1>2. "dial" \in Racers /\ "dial" \notin Requests /\ Requests \subseteq Racers
  BY SessionAssumption DEF Racers
<1>3. socket' \in Sockets
  BY <1>1 DEF CloseRaw, SessionInv, SessionTypeOK, Sockets
<1>4. result' \in [Racers -> {"pending", "ok", "failed", "abort"}]
      /\ \A c \in Requests : result'[c] = result[c]
  BY <1>1, <1>2 DEF SessionInv, SessionTypeOK
<1>5. SessionTypeOK'
  BY <1>1, <1>3, <1>4 DEF SessionInv, SessionTypeOK
<1>6. Unmade' /\ StreamsReturned'
  BY <1>1, <1>4 DEF SessionInv, SessionTypeOK, Unmade, StreamsReturned
<1>7. NoListenerLeft'
  <2> SUFFICES ASSUME NEW r \in listeners' PROVE Racing(r)'
    BY DEF NoListenerLeft
  <2>1. r \in listeners /\ r # "dial" /\ r \in Requests
    BY <1>1 DEF SessionInv, SessionTypeOK, Racers
  <2>2. Racing(r)
    BY <2>1 DEF SessionInv, NoListenerLeft
  <2> QED BY <1>1, <1>4, <2>1, <2>2 DEF Racing
<1> QED BY <1>5, <1>6, <1>7 DEF SessionInv

\* A call that is made takes a stream only below the cap.
LEMMA StartStep ==
    ASSUME SessionInv, NEW c \in Requests, NEW m \in Ops, NEW p \in BOOLEAN, Start(c, m, p)
    PROVE  SessionInv'
<1>0. /\ c \in Racers /\ c # "dial" /\ Requests \subseteq Racers /\ "none" \notin Ops
      /\ op[c] = "none" /\ op' = [op EXCEPT ![c] = m] /\ UNCHANGED <<dial, socket>>
      /\ result[c] = "pending"
  BY SessionAssumption DEF Start, Racers, Ops, SessionInv, Unmade
<1>1. /\ op' \in [Requests -> Ops \cup {"none"}] /\ op'[c] = m
      /\ \A d \in Requests : d # c => op'[d] = op[d]
  BY <1>0 DEF SessionInv, SessionTypeOK
<1>2. c \notin listeners /\ c \notin streams
  <2>1. c \notin listeners
    BY <1>0 DEF SessionInv, NoListenerLeft, Racing
  <2>2. c \notin streams
    BY <1>0 DEF SessionInv, StreamsReturned
  <2> QED BY <2>1, <2>2
<1>3. CASE signal[c] = "aborted" /\ m # "shutdown"
  <2>1. result' = [result EXCEPT ![c] = "abort"] /\ UNCHANGED <<listeners, streams, ready>>
    BY <1>3 DEF Start
  <2>2. result' \in [Racers -> {"pending", "ok", "failed", "abort"}]
        /\ \A r \in Racers : r # c => result'[r] = result[r]
    BY <1>0, <2>1 DEF SessionInv, SessionTypeOK
  <2>3. SessionTypeOK'
    BY <1>0, <1>1, <2>1, <2>2 DEF SessionInv, SessionTypeOK
  <2>4. Unmade'
    BY <1>0, <1>1, <2>2 DEF SessionInv, Unmade
  <2>5. NoListenerLeft'
    BY <1>0, <1>1, <1>2, <2>1, <2>2 DEF SessionInv, SessionTypeOK, NoListenerLeft, Racing, Racers
  <2>6. StreamsReturned'
    BY <1>0, <1>1, <1>2, <2>1, <2>2 DEF SessionInv, SessionTypeOK, StreamsReturned
  <2> QED BY <2>3, <2>4, <2>5, <2>6 DEF SessionInv
<1>4. CASE ~(signal[c] = "aborted" /\ m # "shutdown")
  <2>1. /\ result' = result /\ listeners' \in {listeners, listeners \cup {c}}
        /\ \/ streams' = streams
           \/ m = "request" /\ Headroom /\ streams' = streams \cup {c}
        /\ \/ ready' = ready
           \/ ready' = [ready EXCEPT ![c] = "failed"]
    BY <1>4 DEF Start
  <2>2. ready' \in [Racers -> {"none", "ok", "failed"}]
    BY <1>0, <2>1 DEF SessionInv, SessionTypeOK
  <2>3. /\ streams' \subseteq Requests /\ IsFiniteSet(streams')
        /\ Cardinality(streams') <= MaxStreams
    <3>1. CASE streams' = streams
      BY <3>1 DEF SessionInv, SessionTypeOK, StreamsReturned
    <3>2. CASE Headroom /\ streams' = streams \cup {c}
      <4>1. IsFiniteSet(streams) /\ streams \subseteq Requests /\ Cardinality(streams) < MaxStreams
        BY <3>2 DEF SessionInv, SessionTypeOK, Headroom
      <4>2. Cardinality(streams) \in Nat
        BY <4>1, FS_CardinalityType
      <4>3. IsFiniteSet(streams') /\ Cardinality(streams') = Cardinality(streams) + 1
        BY <1>2, <3>2, <4>1, FS_AddElement
      <4>4. Cardinality(streams') <= MaxStreams
        BY <4>1, <4>2, <4>3, SessionAssumption
      <4> QED BY <3>2, <4>1, <4>3, <4>4
    <3> QED BY <2>1, <3>1, <3>2
  <2>4. SessionTypeOK'
    BY <1>0, <1>1, <2>1, <2>2, <2>3 DEF SessionInv, SessionTypeOK
  <2>5. Unmade'
    BY <1>0, <1>1, <2>1 DEF SessionInv, Unmade
  <2>6. NoListenerLeft'
    BY <1>0, <1>1, <2>1 DEF SessionInv, SessionTypeOK, NoListenerLeft, Racing, Racers
  <2>7. \A d \in streams' : op'[d] = "request" /\ result'[d] = "pending"
    BY <1>0, <1>1, <1>2, <2>1 DEF SessionInv, SessionTypeOK, StreamsReturned
  <2>8. StreamsReturned'
    BY <2>3, <2>7 DEF StreamsReturned
  <2> QED BY <2>4, <2>5, <2>6, <2>8 DEF SessionInv
<1> QED BY <1>3, <1>4

\* Whoever wins, the future and the watch guard are dropped with the race.
LEMMA PollStep ==
    ASSUME SessionInv, NEW c \in Requests, Poll(c)
    PROVE  SessionInv'
<1>0. c \in Racers /\ c # "dial" /\ Requests \subseteq Racers
  BY SessionAssumption DEF Racers
<1>1. PICK o \in {"ok", "failed", "abort"} :
        /\ result' = [result EXCEPT ![c] = o] /\ listeners' = listeners \ {c}
        /\ streams' = streams \ {c} /\ op[c] # "none" /\ UNCHANGED <<op, dial, socket, ready>>
  BY <1>0 DEF Poll, Settled, SessionInv, SessionTypeOK
<1>2. result' \in [Racers -> {"pending", "ok", "failed", "abort"}]
      /\ \A r \in Racers : r # c => result'[r] = result[r]
  BY <1>0, <1>1 DEF SessionInv, SessionTypeOK
<1>3. IsFiniteSet(streams') /\ Cardinality(streams') <= MaxStreams
  <2>1. IsFiniteSet(streams) /\ Cardinality(streams) <= MaxStreams
    BY DEF SessionInv, SessionTypeOK, StreamsReturned
  <2>2. IsFiniteSet(streams') /\ Cardinality(streams') <= Cardinality(streams)
    BY <1>1, <2>1, FS_Subset
  <2>3. Cardinality(streams) \in Nat /\ Cardinality(streams') \in Nat
    BY <2>1, <2>2, FS_CardinalityType
  <2> QED BY <2>1, <2>2, <2>3, SessionAssumption
<1>4. SessionTypeOK'
  BY <1>1, <1>2, <1>3 DEF SessionInv, SessionTypeOK
<1>5. Unmade'
  BY <1>0, <1>1, <1>2 DEF SessionInv, Unmade
<1>6. NoListenerLeft'
  BY <1>0, <1>1, <1>2 DEF SessionInv, SessionTypeOK, NoListenerLeft, Racing
<1>7. StreamsReturned'
  BY <1>0, <1>1, <1>2, <1>3 DEF SessionInv, SessionTypeOK, StreamsReturned
<1> QED BY <1>4, <1>5, <1>6, <1>7 DEF SessionInv
-----------------------------------------------------------------------------
\* Every step of the socket, the mux, the calls and the application keeps the invariant.
LEMMA SessionInvStep == SessionInv /\ [SessionNext]_sessionvars => SessionInv'
<1> SUFFICES ASSUME SessionInv, [SessionNext]_sessionvars PROVE SessionInv'
  OBVIOUS
<1>0. /\ socket \in Sockets /\ ready \in [Racers -> {"none", "ok", "failed"}]
      /\ "dial" \in Racers /\ Requests \subseteq Racers
  BY DEF SessionInv, SessionTypeOK, Racers
<1>1. CASE SocketOpens \/ SocketCloses
  BY <1>0, <1>1, OutsideRaces DEF SocketOpens, SocketCloses, muxvars, racevars, Sockets
<1>2. ASSUME NEW o \in {"ok", "failed"}, Handshaken(o) PROVE SessionInv'
  BY <1>0, <1>2, OutsideRaces DEF Handshaken, muxvars, racevars
<1>3. CASE PumpsEnd \/ KeepAlive \/ PeerDrains
  BY <1>0, <1>3, OutsideRaces DEF PumpsEnd, KeepAlive, PeerDrains, racevars
<1>4. CASE CloseClient
  BY <1>0, <1>4, OutsideRaces DEF CloseClient, CloseRaw, muxvars, racevars, Sockets
<1>5. ASSUME NEW r \in Racers, Abort(r) PROVE SessionInv'
  BY <1>0, <1>5, OutsideRaces DEF Abort, muxvars, racevars
<1>6. ASSUME NEW c \in Requests, Ready(c) \/ Dead(c) PROVE SessionInv'
  BY <1>0, <1>6, OutsideRaces DEF Ready, Dead, muxvars, racevars
<1>7. CASE UNCHANGED sessionvars
  BY <1>0, <1>7, OutsideRaces DEF sessionvars, racevars
<1>8. CASE SessionNext
  BY <1>1, <1>2, <1>3, <1>4, <1>5, <1>6, <1>8, ConnectStep, DialSettledStep, StartStep, PollStep
     DEF SessionNext, DialRuns
<1> QED BY <1>7, <1>8

\* The inductive invariant behind the races of a session.
LEMMA SessionInvariant == SessionSpec => []SessionInv
<1>1. SessionInit => SessionInv
  <2> SUFFICES ASSUME SessionInit PROVE SessionInv
    OBVIOUS
  <2>1. IsFiniteSet({}) /\ Cardinality({}) = 0
    BY FS_EmptySet
  <2>2. SessionTypeOK
    BY <2>1 DEF SessionInit, SessionTypeOK, Sockets, Ops
  <2>3. Unmade /\ NoListenerLeft /\ StreamsReturned
    BY <2>1, SessionAssumption DEF SessionInit, Unmade, NoListenerLeft, StreamsReturned, Racers
  <2> QED BY <2>2, <2>3 DEF SessionInv
<1> QED BY <1>1, SessionInvStep, PTL DEF SessionSpec

\* Whoever wins a race between a signal and a future, no listener and no stream is left
\* behind, for any number of calls and any cap (AbortWatch, race_abort).
THEOREM RacesLeaveNothing == SessionSpec => []RaceLeavesNothing
<1>1. SessionInv => RaceLeavesNothing
  BY DEF SessionInv, RaceLeavesNothing
<1> QED BY <1>1, SessionInvariant, PTL

\* A dial that settles with its signal aborted leaves no open socket, also when the
\* connection was ready in the same tick (await_open, establish).
THEOREM AbortCloses == SessionSpec => AbortClosesDial
<1>1. ASSUME SessionInv, [SessionNext]_sessionvars
      PROVE  [dial = "racing" /\ dial' # "racing" /\ signal["dial"] = "aborted"
                => socket' \notin {"connecting", "open"}]_sessionvars
  <2> SUFFICES ASSUME dial = "racing", dial' # "racing", signal["dial"] = "aborted"
               PROVE  socket' \notin {"connecting", "open"}
    OBVIOUS
  <2>1. DialSettled
    BY <1>1 DEF SessionNext, sessionvars, DialRuns, SocketOpens, SocketCloses, Handshaken, PumpsEnd,
                KeepAlive, PeerDrains, CloseClient, Connect, Abort, Ready, Poll, Dead, Start, muxvars
  <2>2. socket' = CloseRaw(socket)
    BY <2>1 DEF DialSettled
  <2> QED BY <2>2 DEF CloseRaw
<1> QED BY <1>1, SessionInvariant, PTL DEF SessionSpec, AbortClosesDial
===============================================================================
