------------------------------- MODULE Session --------------------------------
(***************************************************************************)
(* A MuxWsClient from dial to close: connect with its abort signal, the     *)
(* socket's lifecycle promises, unary requests, pings, slot waits and the    *)
(* shutdown, each raced against a signal of its own, and the keepalive.      *)
(* JavaScript is single-threaded: an event marks a future ready, and a later *)
(* microtask polls it.  Socket, gloo wrapper and mux are external.           *)
(***************************************************************************)
EXTENDS Naturals, FiniteSets

CONSTANTS Requests,   \* the calls of this behaviour, of any method
          MaxStreams  \* the negotiated cap on concurrent streams

ASSUME SessionAssumption == MaxStreams \in Nat /\ "dial" \notin Requests

Dials == {"cleartext", "handshake"}
Ops == {"request", "ping", "slot", "shutdown"}
Racers == Requests \cup {"dial"}

VARIABLES socket,    \* readyState: "none", "connecting", "open", "closing", "closed"
          closedP,   \* the closed promise: "pending" or "resolved"
          watch,     \* open_promise's OpenWatch: "unset", "set" or "taken"
          dial,      \* "idle", "racing", "client" or "rejected"
          ready,     \* what each raced future is ready with: "none", "ok", "failed"
          signal,    \* each race's signal: "absent", "live" or "aborted"
          listeners, \* abort listeners on those signals
          op,        \* the method of each call, or "none"
          result,    \* "pending", "ok", "failed" or "abort"
          streams,   \* calls that hold a stream of the mux
          draining,  \* a GoAway was sent or received
          keepalive, \* "off", "sleeping", "pinging", "ended"
          pumps      \* the mux drivers: "off", "running", "ended"

sessionvars == <<socket, closedP, watch, dial, ready, signal, listeners, op, result,
                 streams, draining, keepalive, pumps>>
muxvars == <<streams, draining, keepalive, pumps>>

SessionInit ==
    /\ socket = "none" /\ closedP = "pending" /\ watch = "unset" /\ dial = "idle"
    /\ ready = [r \in Racers |-> "none"]
    /\ signal \in [Racers -> {"absent", "live"}]
    /\ listeners = {}
    /\ op = [c \in Requests |-> "none"] /\ result = [r \in Racers |-> "pending"]
    /\ streams = {} /\ draining = FALSE /\ keepalive = "off" /\ pumps = "off"

\* raw.close(): nothing on a socket that is closing or closed.
CloseRaw(s) == IF s \in {"connecting", "open"} THEN "closing" ELSE s

\* signal.abort() by the application, before, during or after what it is raced with.
Abort(r) ==
    /\ signal[r] = "live"
    /\ signal' = [signal EXCEPT ![r] = "aborted"]
    /\ UNCHANGED <<socket, closedP, watch, dial, ready, listeners, op, result, muxvars>>
-----------------------------------------------------------------------------
(* Dialling.                                                                *)

\* connect, connectCleartext, connectMutual and connectMutualWithSigner up to the
\* race: an aborted signal and bad key material reject before a socket exists; a bad
\* session offer drops the transport, whose wrapper closes the socket.
Connect(kind, material) ==
    /\ dial = "idle"
    /\ IF signal["dial"] = "aborted"
       THEN /\ dial' = "rejected" /\ result' = [result EXCEPT !["dial"] = "abort"]
            /\ UNCHANGED <<socket, closedP, watch, listeners>>
       ELSE IF material = "bad identity" /\ kind = "handshake"
       THEN /\ dial' = "rejected" /\ result' = [result EXCEPT !["dial"] = "failed"]
            /\ UNCHANGED <<socket, closedP, watch, listeners>>
       ELSE IF material = "bad offer" /\ kind = "handshake"
       THEN /\ dial' = "rejected" /\ result' = [result EXCEPT !["dial"] = "failed"]
            /\ socket' = "closing" /\ closedP' = "resolved"
            /\ UNCHANGED <<watch, listeners>>
       ELSE /\ dial' = "racing" /\ socket' = "connecting"
            /\ watch' = IF kind = "cleartext" THEN "set" ELSE "unset"
            /\ listeners' = IF signal["dial"] = "live" THEN {"dial"} ELSE {}
            /\ UNCHANGED <<closedP, result>>
    /\ UNCHANGED <<ready, signal, op, muxvars>>

\* The socket opens: a cleartext dial takes its watch and is ready.
SocketOpens ==
    /\ socket = "connecting" /\ socket' = "open"
    /\ watch' = IF watch = "set" THEN "taken" ELSE watch
    /\ ready' = IF watch = "set" THEN [ready EXCEPT !["dial"] = "ok"] ELSE ready
    /\ UNCHANGED <<closedP, dial, signal, listeners, op, result, muxvars>>

\* perform_client_handshake ends: the peer negotiated multiplexing, or it failed, or
\* the operation deadline passed.
Handshaken(outcome) ==
    /\ dial = "racing" /\ watch = "unset" /\ ready["dial"] = "none"
    /\ socket = "open" \/ outcome = "failed"
    /\ ready' = [ready EXCEPT !["dial"] = outcome]
    /\ UNCHANGED <<socket, closedP, watch, dial, signal, listeners, op, result, muxvars>>

\* Mutant: an abort that lost to the connection leaves the socket open.
DialSettledUnclosed ==
    LET won == ready["dial"] # "none"
        outcome == IF won THEN ready["dial"] ELSE "abort" IN
    /\ dial = "racing" /\ (won \/ signal["dial"] = "aborted")
    /\ result' = [result EXCEPT !["dial"] = outcome]
    /\ listeners' = listeners \ {"dial"}
    /\ socket' = IF outcome = "ok" THEN socket ELSE CloseRaw(socket)
    /\ closedP' = IF outcome = "ok" THEN closedP ELSE "resolved"
    /\ IF outcome = "ok"
       THEN dial' = "client" /\ pumps' = "running" /\ keepalive' = "sleeping"
       ELSE dial' = "rejected" /\ UNCHANGED <<pumps, keepalive>>
    /\ UNCHANGED <<watch, ready, signal, op, streams, draining>>

\* race_abort polls the dial first, then the abort; afterwards an aborted signal closes
\* the socket whichever won.  A dial that failed or lost drops its transport.
DialSettled ==
    LET won == ready["dial"] # "none"
        outcome == IF won THEN ready["dial"] ELSE "abort" IN
    /\ dial = "racing" /\ (won \/ signal["dial"] = "aborted")
    /\ result' = [result EXCEPT !["dial"] = outcome]
    /\ listeners' = listeners \ {"dial"}
    /\ socket' = IF outcome # "ok" \/ signal["dial"] = "aborted" THEN CloseRaw(socket) ELSE socket
    /\ closedP' = IF outcome = "ok" THEN closedP ELSE "resolved"
    /\ IF outcome = "ok"
       THEN dial' = "client" /\ pumps' = "running" /\ keepalive' = "sleeping"
       ELSE dial' = "rejected" /\ UNCHANGED <<pumps, keepalive>>
    /\ UNCHANGED <<watch, ready, signal, op, streams, draining>>

\* The close event: the first one, genuine or dispatched by the dropped wrapper,
\* resolves the closed promise, and rejects an open promise still waiting.
SocketCloses ==
    /\ socket \in {"connecting", "open", "closing"} /\ socket' = "closed"
    /\ closedP' = "resolved"
    /\ watch' = IF watch = "set" THEN "taken" ELSE watch
    /\ ready' = IF watch = "set" THEN [ready EXCEPT !["dial"] = "failed"] ELSE ready
    /\ UNCHANGED <<dial, signal, listeners, op, result, muxvars>>
-----------------------------------------------------------------------------
(* Calls on an established client.                                          *)

\* The mux admits a stream: not draining, and below the negotiated cap.
Headroom == pumps = "running" /\ ~draining /\ Cardinality(streams) < MaxStreams

\* request, requestWithSignal, submitWork, ping, waitForStreamSlot, shutdown, shutdownWith
\* up to the first await.  A signal that is already aborted rejects before the call is
\* polled, a frame or a reason that does not parse before the mux is asked.
Start(c, method, parses) ==
    LET admitted == parses /\ Headroom IN
    /\ dial = "client" /\ op[c] = "none"
    /\ op' = [op EXCEPT ![c] = method]
    /\ IF signal[c] = "aborted" /\ method # "shutdown"
       THEN result' = [result EXCEPT ![c] = "abort"] /\ UNCHANGED <<listeners, streams, draining, ready>>
       ELSE /\ listeners' = IF signal[c] = "live" /\ method # "shutdown"
                            THEN listeners \cup {c} ELSE listeners
            /\ streams' = IF method = "request" /\ admitted THEN streams \cup {c} ELSE streams
            /\ ready' = IF (method = "request" /\ ~admitted) \/ (method = "shutdown" /\ ~parses)
                        THEN [ready EXCEPT ![c] = "failed"] ELSE ready
            /\ draining' = (draining \/ (method = "shutdown" /\ parses))
            /\ UNCHANGED result
    /\ UNCHANGED <<socket, closedP, watch, dial, signal, keepalive, pumps>>

\* A slot wait is over when a stream would be admitted or never will be again; a
\* shutdown when the streams have drained; the peer answers requests and pings.
Ready(c) ==
    /\ op[c] # "none" /\ result[c] = "pending" /\ ready[c] = "none"
    /\ pumps = "running" /\ socket = "open"
    /\ \/ op[c] \in {"request", "ping"} /\ ready' = [ready EXCEPT ![c] = "ok"]
       \/ op[c] = "slot" /\ Headroom /\ ready' = [ready EXCEPT ![c] = "ok"]
       \/ op[c] = "slot" /\ draining /\ ready' = [ready EXCEPT ![c] = "failed"]
       \/ op[c] = "shutdown" /\ streams = {} /\ ready' = [ready EXCEPT ![c] = "ok"]
    /\ UNCHANGED <<socket, closedP, watch, dial, signal, listeners, op, result, muxvars>>

\* Mutant: an aborted call keeps its stream.
SettledUndropped(c, outcome) ==
    /\ result' = [result EXCEPT ![c] = outcome]
    /\ listeners' = listeners \ {c}
    /\ streams' = IF outcome = "abort" THEN streams ELSE streams \ {c}

\* How a race ends: drop of the future, drop of the watch guard.
Settled(c, outcome) ==
    /\ result' = [result EXCEPT ![c] = outcome]
    /\ listeners' = listeners \ {c}
    /\ streams' = streams \ {c}

\* The poll of a raced call: what is ready wins, else the abort drops the future,
\* which frees its stream; the watch guard detaches the listener either way.
Poll(c) ==
    /\ op[c] # "none" /\ result[c] = "pending"
    /\ \/ ready[c] # "none" /\ Settled(c, ready[c])
       \/ /\ ready[c] = "none" /\ signal[c] = "aborted" /\ op[c] # "shutdown"
          /\ Settled(c, "abort")
    /\ UNCHANGED <<socket, closedP, watch, dial, ready, signal, op, draining, keepalive, pumps>>

\* The peer's GoAway.
PeerDrains ==
    /\ pumps = "running" /\ ~draining /\ draining' = TRUE
    /\ UNCHANGED <<socket, closedP, watch, dial, ready, signal, listeners, op, result,
                   streams, keepalive, pumps>>

\* The drivers meet the closed socket and end.
PumpsEnd ==
    /\ pumps = "running" /\ socket = "closed" /\ pumps' = "ended"
    /\ UNCHANGED <<socket, closedP, watch, dial, ready, signal, listeners, op, result,
                   streams, draining, keepalive>>

\* Without drivers whatever is pending on the mux is ready with ConnectionClosed.
Dead(c) ==
    /\ pumps = "ended" /\ op[c] # "none" /\ result[c] = "pending" /\ ready[c] = "none"
    /\ ready' = [ready EXCEPT ![c] = "failed"]
    /\ UNCHANGED <<socket, closedP, watch, dial, signal, listeners, op, result, muxvars>>

\* Mutant: a ping that failed is tried again.
KeepAliveRetries ==
    /\ \/ keepalive = "sleeping" /\ keepalive' = "pinging"
       \/ keepalive = "pinging" /\ keepalive' = "sleeping"
    /\ UNCHANGED <<socket, closedP, watch, dial, ready, signal, listeners, op, result,
                   streams, draining, pumps>>

\* keep_alive: sleep, ping, and end with the first ping that fails.
KeepAlive ==
    /\ \/ keepalive = "sleeping" /\ keepalive' = "pinging"
       \/ keepalive = "pinging" /\ pumps = "running" /\ socket = "open" /\ keepalive' = "sleeping"
       \/ keepalive = "pinging" /\ pumps = "ended" /\ keepalive' = "ended"
    /\ UNCHANGED <<socket, closedP, watch, dial, ready, signal, listeners, op, result,
                   streams, draining, pumps>>

\* close(): closes the socket without a drain.
CloseClient ==
    /\ dial = "client" /\ socket' = CloseRaw(socket) /\ socket' # socket
    /\ UNCHANGED <<closedP, watch, dial, ready, signal, listeners, op, result, muxvars>>

DialRuns == SocketOpens \/ \E o \in {"ok", "failed"} : Handshaken(o)

SessionNext ==
    \/ DialRuns \/ DialSettled \/ SocketCloses \/ PumpsEnd \/ KeepAlive
    \/ PeerDrains \/ CloseClient
    \/ \E k \in Dials, m \in {"good", "bad identity", "bad offer"} : Connect(k, m)
    \/ \E r \in Racers : Abort(r)
    \/ \E c \in Requests : Ready(c) \/ Poll(c) \/ Dead(c) \/ \E m \in Ops, p \in BOOLEAN : Start(c, m, p)

SessionSpec == SessionInit /\ [][SessionNext]_sessionvars

\* The executor polls what is ready and timers fire; a dial in progress and a closing
\* socket come to an end.  Nothing makes the peer answer or the application abort.
SessionFair ==
    /\ WF_sessionvars(DialRuns) /\ WF_sessionvars(DialSettled)
    /\ WF_sessionvars(socket = "closing" /\ SocketCloses)
    /\ WF_sessionvars(PumpsEnd) /\ WF_sessionvars(KeepAlive)
    /\ \A c \in Requests : WF_sessionvars(Poll(c)) /\ WF_sessionvars(Dead(c))
-----------------------------------------------------------------------------
Racing(r) == IF r = "dial" THEN dial = "racing" ELSE op[r] # "none" /\ result[r] = "pending"

\* A dial that settled with its signal aborted leaves no open socket behind, even when
\* the connection was ready in the same tick (await_open, establish).
AbortClosesDial ==
    [][dial = "racing" /\ dial' # "racing" /\ signal["dial"] = "aborted"
         => socket' \notin {"connecting", "open"}]_sessionvars

\* A settled race leaves no abort listener on its signal, whoever won, so a signal
\* reused across calls does not accumulate them (AbortWatch).
NoListenerLeft == \A r \in listeners : Racing(r)

\* A stream of the mux belongs to a pending request: an abort that races the answer
\* frees it (the drop of the emit future), and the cap is never exceeded.
StreamsReturned ==
    /\ \A c \in streams : op[c] = "request" /\ result[c] = "pending"
    /\ Cardinality(streams) <= MaxStreams

\* After the socket closed every call settles, the closed promise is resolved and the
\* keepalive has ended (the documentation of MuxWsClient, keep_alive).
ClosedSettlesAll ==
    socket = "closed" ~> /\ closedP = "resolved" /\ keepalive \in {"off", "ended"}
                         /\ \A r \in Racers : ~Racing(r)

\* Every dial ends: with a client, a failure or the abort reason (connect).
DialEnds == dial = "racing" ~> dial \in {"client", "rejected"}

\* Whoever wins a race between a signal and a future, neither side leaves anything behind.
RaceLeavesNothing == NoListenerLeft /\ StreamsReturned

\* Every dial ends, and a closed socket ends everything that waits on it.
SessionSettles == ClosedSettlesAll /\ DialEnds
===============================================================================
