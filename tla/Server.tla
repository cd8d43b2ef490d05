-------------------------------- MODULE Server --------------------------------
(***************************************************************************)
(* The echo servers: the accept loop over WsListener, serve_connection with  *)
(* its reader and writer tasks, and the commands a frame id selects, which   *)
(* call the client back on the connection they arrived on.                   *)
(***************************************************************************)
EXTENDS Naturals

CONSTANTS Peers   \* connecting clients, one request each

Bodies == {"unary", "streaming", "duplex"}
Ids == {"drain-calm", "sink", "call-me-stream:urn", "call-me-stream:junk", "call-me", "plain"}

VARIABLES body,     \* TBWS_ECHO_BODY; "streaming" is the default
          accepts,  \* the accept loop: "idle", the peer it upgrades, or "stopped"
          peering,  \* each peer's connection
          running,  \* its reader and writer tasks run
          request,  \* its request: kind, id, stage, how it was called back, answer
          callback  \* how the client's own handler settled the call-back

echovars == <<body, accepts, peering, running, request, callback>>

NoRequest == [kind |-> "none", id |-> "plain", stage |-> "none", via |-> "none",
              status |-> "none", frame |-> FALSE]

ServerInit ==
    /\ body \in Bodies /\ accepts = "idle"
    /\ peering = [p \in Peers |-> "none"] /\ running = [p \in Peers |-> FALSE]
    /\ request = [p \in Peers |-> NoRequest] /\ callback = [p \in Peers |-> "none"]
-----------------------------------------------------------------------------
PeerDials(p) ==
    /\ peering[p] = "none" /\ peering' = [peering EXCEPT ![p] = "backlog"]
    /\ UNCHANGED <<body, accepts, running, request, callback>>

\* WsListener::accept up to the upgrade, which runs inside accept.
Accept(p) ==
    /\ accepts = "idle" /\ peering[p] = "backlog"
    /\ accepts' = p /\ peering' = [peering EXCEPT ![p] = "upgrading"]
    /\ UNCHANGED <<body, running, request, callback>>

\* Mutant: a failed upgrade ends the accept loop.
UpgradedOrStopped(p, ok) ==
    /\ accepts = p
    /\ accepts' = IF ok THEN "idle" ELSE "stopped"
    /\ peering' = [peering EXCEPT ![p] = IF ok THEN "handshake" ELSE "ended"]
    /\ UNCHANGED <<body, running, request, callback>>

\* The upgrade ends.  A failed one is the fault of its connection: the loop goes on; a
\* good one is served by a task of its own.
Upgraded(p, ok) ==
    /\ accepts = p
    /\ accepts' = "idle"
    /\ peering' = [peering EXCEPT ![p] = IF ok THEN "handshake" ELSE "ended"]
    /\ UNCHANGED <<body, running, request, callback>>

\* serve_handshake and assemble_mux; a cleartext server splits at once.
Negotiated(p, ok) ==
    /\ peering[p] = "handshake"
    /\ peering' = [peering EXCEPT ![p] = IF ok THEN "serving" ELSE "ended"]
    /\ running' = [running EXCEPT ![p] = ok]
    /\ UNCHANGED <<body, accepts, request, callback>>

\* The responder ends with or without an error: both tasks are aborted before the
\* outcome is looked at, and what was being served is gone.
Served(p, ok) ==
    /\ peering[p] \in {"serving", "draining"}
    /\ peering' = [peering EXCEPT ![p] = "ended"]
    /\ running' = [running EXCEPT ![p] = FALSE]
    /\ request' = [request EXCEPT ![p].stage = IF @ \in {"asked", "calling"} THEN "lost" ELSE @]
    /\ UNCHANGED <<body, accepts, callback>>
-----------------------------------------------------------------------------
(* Requests.                                                                *)

Asks(p, kind, id) ==
    /\ peering[p] = "serving" /\ request[p].stage = "none"
    /\ request' = [request EXCEPT ![p] = [NoRequest EXCEPT !.kind = kind, !.id = id,
                                                           !.stage = "asked"]]
    /\ UNCHANGED <<body, accepts, peering, running, callback>>

RepliesTo(p, status, frame) ==
    /\ request' = [request EXCEPT ![p].stage = "answered", ![p].status = status,
                                  ![p].frame = frame]
    /\ UNCHANGED <<body, accepts, running>>

CallsBack(p, via) ==
    /\ request' = [request EXCEPT ![p].stage = "calling", ![p].via = via]
    /\ UNCHANGED <<body, accepts, peering, running, callback>>

\* The kinds a connection serves: EchoFrames takes unary and streamed bodies, the other
\* modes one kind; the rest is refused by default.
Serves(kind) == kind = body \/ (body = "streaming" /\ kind = "unary")

\* Which prefix of the protocol an id starts with; CALL_ME is a prefix of CALL_ME_STREAM.
StartsWith(id, prefix) ==
    \/ id = prefix
    \/ prefix \in {"call-me-stream:", "call-me"} /\ id \in {"call-me-stream:urn", "call-me-stream:junk"}

\* The command echo_stream takes an id for.
EchoCommand(id) ==
    IF StartsWith(id, "drain-calm") THEN "drain"
    ELSE IF StartsWith(id, "sink") THEN "sink"
    ELSE IF StartsWith(id, "call-me-stream:") THEN "call stream"
    ELSE IF StartsWith(id, "call-me") THEN "call"
    ELSE "echo"

\* echo_stream, echo_streaming and call_me_stream up to their first await.  A streamed
\* body gets the id of its route before echo_stream sees it, so it is always echoed; a
\* target that does not parse is an argument fault, a stream that does not open our own.
EchoStream(p) ==
    LET id == IF request[p].kind = "streaming" THEN "plain" ELSE request[p].id IN
    /\ request[p].stage = "asked" /\ Serves(request[p].kind) /\ request[p].kind # "duplex"
    /\ \/ /\ EchoCommand(id) = "drain"
          /\ peering' = [peering EXCEPT ![p] = "draining"]
          /\ RepliesTo(p, "Ok", FALSE) /\ UNCHANGED callback
       \/ EchoCommand(id) = "sink" /\ RepliesTo(p, "Ok", FALSE) /\ UNCHANGED <<peering, callback>>
       \/ EchoCommand(id) = "echo" /\ RepliesTo(p, "Ok", TRUE) /\ UNCHANGED <<peering, callback>>
       \/ EchoCommand(id) = "call" /\ CallsBack(p, "unrouted")
       \/ /\ EchoCommand(id) = "call stream"
          /\ \/ id = "call-me-stream:urn" /\ CallsBack(p, "routed")
             \/ /\ RepliesTo(p, IF id = "call-me-stream:urn" THEN "Internal" ELSE "InvalidArgument", FALSE)
                /\ UNCHANGED <<peering, callback>>

\* A streamed body that ended early or does not decode.
BodyFails(p, status) ==
    /\ request[p].stage = "asked" /\ request[p].kind = "streaming" /\ Serves("streaming")
    /\ RepliesTo(p, status, FALSE) /\ UNCHANGED <<peering, callback>>

\* echo_duplex pushes every chunk back, until the last one or a failure of either half.
EchoDuplex(p, broke) ==
    /\ request[p].stage = "asked" /\ request[p].kind = "duplex" /\ Serves("duplex")
    /\ RepliesTo(p, IF broke THEN "Cancelled" ELSE "Ok", FALSE) /\ UNCHANGED <<peering, callback>>

RefusesStream(p) ==
    /\ request[p].stage = "asked" /\ ~Serves(request[p].kind)
    /\ RepliesTo(p, "Unimplemented", FALSE) /\ UNCHANGED <<peering, callback>>

\* How a call-back ends: the handler's answer with or without a frame, its refusal, a
\* fault of the link, or a body that could not be written.
Callbacks == {"frame", "empty", "Unavailable", "NotFound", "fault", "unwritten"}

\* Mutant: every failed call-back is Internal.
RelayedInternal(outcome) ==
    CASE outcome \in {"frame", "empty"} -> "Ok"
      [] outcome = "unwritten" -> "Cancelled"
      [] OTHER -> "Internal"

\* relayed_status: a peer refusal keeps its status, anything else is Internal.
RelayedStatus(outcome) ==
    CASE outcome \in {"frame", "empty"} -> "Ok"
      [] outcome = "unwritten" -> "Cancelled"
      [] outcome = "fault" -> "Internal"
      [] OTHER -> outcome

CalledBack(p, outcome) ==
    /\ request[p].stage = "calling" /\ (outcome = "unwritten" => request[p].via = "routed")
    /\ callback' = [callback EXCEPT ![p] = outcome]
    /\ RepliesTo(p, RelayedStatus(outcome), outcome = "frame") /\ UNCHANGED peering

ServerNext == \E p \in Peers :
    \/ PeerDials(p) \/ Accept(p) \/ EchoStream(p) \/ RefusesStream(p)
    \/ \E ok \in BOOLEAN : Upgraded(p, ok) \/ Negotiated(p, ok) \/ Served(p, ok) \/ EchoDuplex(p, ok)
    \/ \E k \in Bodies, id \in Ids : Asks(p, k, id)
    \/ \E s \in {"Cancelled", "InvalidArgument"} : BodyFails(p, s)
    \/ \E o \in Callbacks : CalledBack(p, o)

ServerSpec == ServerInit /\ [][ServerNext]_echovars

\* The loop task runs; which waiting connection it takes up is left open.
ServerFair == WF_echovars(\E p \in Peers : Accept(p))
-----------------------------------------------------------------------------
\* A failed upgrade is never fatal to the server: as long as upgrades come to an end, well
\* or badly, every connection that waits is taken up ("a per-connection fault ... never
\* server-fatal", main).  The premise is needed: accept has no deadline of its own.
AcceptGoesOn ==
    []<>(accepts \notin Peers) => \A p \in Peers : peering[p] = "backlog" ~> peering[p] # "backlog"

\* A connection that ended leaves no reader or writer task behind, whether its responder
\* failed or not (serve_connection).
NoPumpLeft == \A p \in Peers : running[p] => peering[p] \in {"serving", "draining"}

\* A request that names a target is called back on that route only, and one that does
\* not name one never is (the order of the prefixes in echo_stream).
TargetIsRouted ==
    \A p \in Peers : request[p].via # "none" =>
      (request[p].via = "routed" <=> request[p].id = "call-me-stream:urn")

\* The requester sees the status the call-back handler refused with, and Ok only if
\* the client's handler accepted ("a peer refusal keeps its status", relayed_status).
RefusalIsRelayed ==
    \A p \in Peers : callback[p] # "none" =>
      /\ callback[p] \in {"Unavailable", "NotFound"} => request[p].status = callback[p]
      /\ request[p].status = "Ok" <=> callback[p] \in {"frame", "empty"}

\* What a peer asked for is what it gets, and nothing of its connection outlives it.
EchoIsFaithful == NoPumpLeft /\ TargetIsRouted /\ RefusalIsRelayed
===============================================================================
