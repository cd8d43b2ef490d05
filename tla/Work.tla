--------------------------------- MODULE Work ---------------------------------
(***************************************************************************)
(* The work plane: submitWork nests a signed frame in a routing envelope,    *)
(* the gateway passes the nested bytes to a servlet, the probe servlet       *)
(* verifies and answers with a signed frame, and the reply is resolved or    *)
(* rejected in the browser.  The gateway and hive are external: they refuse  *)
(* work, or move the nested bytes both ways.                                 *)
(***************************************************************************)
EXTENDS Naturals, Sequences

CONSTANTS Submissions   \* concurrent submitWork calls, one frame id each

VARIABLES startup,   \* how far the gateway example's main has come
          identity,  \* WORK_IDENTITY is set
          work       \* each submission: see NotSubmitted

workvars == <<startup, identity, work>>

\* A frame by what the plane tells apart: whose id it has, what it holds and whether its
\* signature covers that.  Bytes may also fail to decode.
FramesOf(c) == [id : {c}, body : {"ask"}, signed : BOOLEAN] \cup [id : {c}, body : {"undecodable"}, signed : {FALSE}]
NoFrame == [id |-> "none", body |-> "none", signed |-> FALSE]

NotSubmitted == [stage |-> "unsent", frame |-> NoFrame, wire |-> NoFrame, wrapper |-> "none",
           seen |-> NoFrame, status |-> "none", reply |-> NoFrame, code |-> "none",
           refusal |-> "none", result |-> NoFrame]

WorkInit == /\ startup = "load identity" /\ identity = FALSE
            /\ work = [c \in Submissions |-> NotSubmitted]
-----------------------------------------------------------------------------
(* The gateway process.                                                     *)

\* main: the identity slot is filled before anything that serves is started; any step that
\* fails ends the process.
Main ==
    /\ \/ startup = "load identity" /\ startup' = "start gateway" /\ identity' = TRUE
       \/ startup = "start gateway" /\ startup' = "start servlet" /\ identity' = identity
       \/ startup = "start servlet" /\ startup' = "register" /\ identity' = identity
       \/ startup = "register" /\ startup' = "serving" /\ identity' = identity
       \/ startup # "serving" /\ startup' = "failed" /\ identity' = identity
    /\ UNCHANGED work

GatewayUp == startup \in {"start servlet", "register", "serving"}
ServletUp == startup \in {"register", "serving"}
-----------------------------------------------------------------------------
(* The browser's side.                                                      *)

Rejects(c, code, refusal) ==
    work' = [work EXCEPT ![c].stage = "rejected", ![c].code = code, ![c].refusal = refusal]

\* Mutant: the request frame is built anew around its body.
NestsBody(c, frame) == [frame EXCEPT !.signed = FALSE]

\* WorkRequestEnvelope::from_encoded: the caller's own bytes are the payload.
FromEncoded(c, frame) == frame

\* run_submit_work up to the emit: the target is a URN, the bytes are a frame, whose id
\* the wrapper reuses (into_transport_frame).
SubmitWork(c, target, frame) ==
    /\ work[c].stage = "unsent"
    /\ IF target = "not a urn" THEN Rejects(c, "InvalidStreamRoute", "none")
       ELSE IF frame.body = "undecodable" THEN Rejects(c, "none", "none")
       ELSE work' = [work EXCEPT ![c].stage = "sent", ![c].frame = frame,
                                 ![c].wire = FromEncoded(c, frame), ![c].wrapper = frame.id]
    /\ UNCHANGED <<startup, identity>>

\* WorkReply::refusal_checked and served_der: a status that is not Ok refuses whatever
\* the payload, Ok needs one, and it must decode.
ServedReply(c) ==
    IF work[c].status # "Ok" THEN "WorkRefused"
    ELSE IF work[c].reply = NoFrame THEN "MissingResponse"
    ELSE IF work[c].reply.body = "undecodable" THEN "DecodeError"
    ELSE "none"

\* work_error_to_js: a refusal names its status.
Resolve(c) ==
    /\ work[c].stage = "replied"
    /\ IF ServedReply(c) # "none"
       THEN Rejects(c, ServedReply(c), IF ServedReply(c) = "WorkRefused" THEN work[c].status ELSE "none")
       ELSE work' = [work EXCEPT ![c].stage = "resolved", ![c].result = work[c].reply]
    /\ UNCHANGED <<startup, identity>>

\* The mux stream fails, is refused (transport_to_js names the inner failure), or answers
\* without a frame.
EmitFails(c, code) ==
    /\ work[c].stage = "sent" /\ Rejects(c, code, "none")
    /\ UNCHANGED <<startup, identity>>
-----------------------------------------------------------------------------
(* The gateway's side.                                                      *)

\* The gateway refuses: no servlet is registered, or it is shedding load.  A refusal may
\* still carry a payload.
GatewayRefuses(c, status, reply) ==
    /\ work[c].stage = "sent" /\ GatewayUp
    /\ work' = [work EXCEPT ![c].stage = "replied", ![c].status = status, ![c].reply = reply]
    /\ UNCHANGED <<startup, identity>>

\* The nested bytes reach the servlet: directly over TCP as soon as it listens.
Routed(c) ==
    /\ work[c].stage = "sent" /\ ServletUp
    /\ work' = [work EXCEPT ![c].stage = "routed", ![c].seen = work[c].wire]
    /\ UNCHANGED <<startup, identity>>

\* WorkProbeServlet's handler: without an identity it fails; otherwise it answers the
\* frame's id with whether the signature verified, signed.
Handler(c) ==
    /\ work[c].stage = "routed" /\ ServletUp
    /\ work' = [work EXCEPT ![c].stage = IF identity THEN "replied" ELSE "unconfigured",
                            ![c].status = "Ok",
                            ![c].reply = [id |-> work[c].seen.id, signed |-> TRUE,
                              body |-> IF work[c].seen.signed THEN "verified" ELSE "unverified"]]
    /\ UNCHANGED <<startup, identity>>

\* The handler has its identity and fails all the same: the reply does not encode, the
\* identity has no signing key, or the provider does not sign.  The framework around it
\* answers with a status and no frame.
HandlerFails(c, status) ==
    /\ work[c].stage = "routed" /\ ServletUp /\ identity
    /\ work' = [work EXCEPT ![c].stage = "replied", ![c].status = status]
    /\ UNCHANGED <<startup, identity>>

\* The reply is lost or damaged on its way back.
ReplyDamaged(c) ==
    /\ work[c].stage = "replied" /\ work[c].status = "Ok"
    /\ \E bad \in {NoFrame, [id |-> c, body |-> "undecodable", signed |-> FALSE]} :
         work' = [work EXCEPT ![c].reply = bad]
    /\ UNCHANGED <<startup, identity>>

WorkNext ==
    \/ Main
    \/ \E c \in Submissions :
         \/ \E t \in {"urn", "not a urn"}, f \in FramesOf(c) : SubmitWork(c, t, f)
         \/ \E code \in {"ConnectionClosed", "SizeExceeded", "MissingResponse"} : EmitFails(c, code)
         \/ \E s \in {"Unavailable", "NotFound"},
               r \in {NoFrame, [id |-> c, body |-> "verified", signed |-> FALSE]} : GatewayRefuses(c, s, r)
         \/ \E s \in {"Ok", "Unavailable"} : HandlerFails(c, s)
         \/ Routed(c) \/ Handler(c) \/ ReplyDamaged(c) \/ Resolve(c)

WorkSpec == WorkInit /\ [][WorkNext]_workvars
-----------------------------------------------------------------------------
\* A submission resolves only with the servlet's own signed answer to its own frame, and
\* the verdict in it is about the bytes the caller signed (the envelope and the reply
\* nest frames byte for byte).
ResolvedIsServletAnswer ==
    \A c \in Submissions : work[c].stage = "resolved" =>
      /\ work[c].result.id = c /\ work[c].result.signed
      /\ (work[c].result.body = "verified") <=> work[c].frame.signed

\* A refused submission is rejected with the gateway's status, also when the refusal
\* carries a payload ("regardless of any payload", served).
RefusalNamesStatus ==
    \A c \in Submissions :
      /\ work[c].stage = "resolved" => work[c].status = "Ok"
      /\ work[c].code = "WorkRefused" <=> work[c].refusal # "none"
      /\ work[c].refusal # "none" => work[c].refusal = work[c].status

\* The handler never runs before the work identity is installed ("the handler never
\* observes an empty slot").
HandlerHasIdentity == \A c \in Submissions : work[c].stage # "unconfigured"

\* A caller learns what happened to its own submission: the servlet's signed answer, or
\* the status that refused it (submitWork, the gateway and the servlet).
WorkIsFaithful == ResolvedIsServletAnswer /\ RefusalNamesStatus /\ HandlerHasIdentity
===============================================================================
