-------------------------------- MODULE Serve ---------------------------------
(***************************************************************************)
(* Answering server-initiated streams from JavaScript: the claim of the     *)
(* peer-serve mode in the TypeScript client and again in MuxWsClient, the    *)
(* handler slot the serve loop reads at each dispatch, and the status a      *)
(* settled handler answers with.                                            *)
(***************************************************************************)
EXTENDS Naturals

CONSTANTS Handlers,     \* functions the application registers
          PeerStreams   \* streams the server opens

Modes == {"unary", "streaming", "duplex"}

VARIABLES claimed,   \* serveClaimed of the TypeScript client
          mode,      \* serveMode of the TypeScript client
          wasmMode,  \* serve_mode of MuxWsClient
          responder, \* the responder has not been consumed yet
          loops,     \* serve loops started, by mode
          slot,      \* the handler cell: a function and the mode it was given for
          latest,    \* the last handler a serve call accepted (history)
          stream,    \* each stream of the peer: its stage, handler and answer
          owner      \* the handler of the exclusive claim (history)

servevars == <<claimed, mode, wasmMode, responder, loops, slot, latest, stream, owner>>

Inert == [fn |-> "inert", for |-> "none"]
Idle == [stage |-> "none", handler |-> Inert, kind |-> "none", outcome |-> "none",
         status |-> "none"]

ServeInit ==
    /\ claimed = FALSE /\ mode = "none" /\ wasmMode = "none"
    /\ responder = TRUE /\ loops = [m \in Modes |-> 0]
    /\ slot = Inert /\ latest = Inert /\ owner = Inert
    /\ stream = [s \in PeerStreams |-> Idle]
-----------------------------------------------------------------------------
(* serve, serveStreaming and serveDuplex.                                   *)

\* claimServe: an exclusive claim and a different mode both refuse the call.
ClaimServe(m) == ~claimed /\ mode \in {"none", m}

\* claim_serve of MuxWsClient.
ClaimServeWasm(m) == wasmMode \in {"none", m}

\* Mutant: the handler is replaced before the claims are checked.
ServeReplacesFirst(m, h, exclusive) ==
    /\ IF ClaimServe(m) THEN mode' = m /\ claimed' = exclusive ELSE UNCHANGED <<mode, claimed>>
    /\ slot' = [fn |-> h, for |-> m]
    /\ IF ClaimServe(m) /\ ClaimServeWasm(m)
       THEN /\ wasmMode' = m /\ latest' = slot' /\ responder' = FALSE
            /\ owner' = IF exclusive /\ ~claimed THEN slot' ELSE owner
            /\ loops' = IF responder THEN [loops EXCEPT ![m] = @ + 1] ELSE loops
       ELSE UNCHANGED <<wasmMode, latest, responder, owner, loops>>
    /\ UNCHANGED stream

\* A serve call in mode m: claim in TypeScript, claim in wasm, replace the handler,
\* and start the loop when the responder is still there.  A refused call throws.
Serve(m, h, exclusive) ==
    /\ ClaimServe(m)
    /\ mode' = m
    /\ claimed' = (claimed \/ exclusive)
    /\ IF ClaimServeWasm(m)
       THEN /\ wasmMode' = m
            /\ slot' = [fn |-> h, for |-> m]
            /\ latest' = slot'
            /\ owner' = IF exclusive /\ ~claimed THEN slot' ELSE owner
            /\ responder' = FALSE
            /\ loops' = IF responder THEN [loops EXCEPT ![m] = @ + 1] ELSE loops
       ELSE UNCHANGED <<wasmMode, slot, latest, owner, responder, loops>>
    /\ UNCHANGED stream
-----------------------------------------------------------------------------
(* Dispatch and answer.                                                     *)

\* The loop serves the kind of its mode and refuses the others by default; a stream
\* keeps the handler it was dispatched with.
Dispatch(s, kind) ==
    /\ stream[s].stage = "none"
    /\ \E m \in Modes :
         /\ loops[m] > 0
         /\ stream' = [stream EXCEPT ![s] =
              IF m = kind
              THEN [Idle EXCEPT !.stage = "handling", !.handler = slot, !.kind = kind]
              ELSE [Idle EXCEPT !.stage = "answered", !.kind = kind,
                                !.outcome = "unserved", !.status = "Unimplemented"]]
    /\ UNCHANGED <<claimed, mode, wasmMode, responder, loops, slot, latest, owner>>

\* The statuses a code may name.  Ok is absent: a rejection cannot claim success.
Codes == {"Cancelled", "InvalidArgument", "DeadlineExceeded", "NotFound", "AlreadyExists",
          "PermissionDenied", "ResourceExhausted", "FailedPrecondition", "Aborted",
          "OutOfRange", "Unimplemented", "Internal", "Unavailable", "DataLoss",
          "Unauthenticated"}

StatusFromCode(name) == IF name \in Codes THEN name ELSE "Unknown"

\* refusal_for and refusal_status: the `code` of a rejection, when it has one.
RefusalFor(rejection) == IF rejection = "no code" THEN "Unknown" ELSE StatusFromCode(rejection)

\* What a handler may settle with: nothing, bytes that decode as a frame or do not, a
\* string, or a rejection that carries a code or none.
Names == {"Ok", "Unavailable", "Unheard"}
Outcomes == {<<"void", "">>, <<"frame", "">>, <<"junk", "">>, <<"throws", "no code">>}
              \cup ({"label", "throws"} \X Names)

\* call_handler with respond_via_js: bytes must decode as a frame.
UnaryAnswer(o) ==
    CASE o[1] \in {"void", "frame"} -> "Ok"
      [] o[1] \in {"junk", "label"} -> "Unknown"
      [] o[1] = "throws" -> RefusalFor(o[2])

\* call_streaming_handler with respond_streaming_via_js: a rejection answers Unknown
\* whatever code it carries.
StreamingAnswer(o) == IF o[1] \in {"void", "frame"} THEN "Ok" ELSE "Unknown"

\* call_duplex_handler with respond_duplex_via_js: a label names the status; anything
\* that is neither a string nor nullish fails with InvalidDuplexStatus, an unknown code.
DuplexAnswer(o) ==
    CASE o[1] = "void" -> "Ok"
      [] o[1] = "label" -> IF o[2] = "Ok" THEN "Ok" ELSE StatusFromCode(o[2])
      [] o[1] \in {"frame", "junk"} -> RefusalFor("InvalidDuplexStatus")
      [] o[1] = "throws" -> RefusalFor(o[2])

AnswerOf(kind, o) == CASE kind = "unary" -> UnaryAnswer(o)
                       [] kind = "streaming" -> StreamingAnswer(o)
                       [] kind = "duplex" -> DuplexAnswer(o)

\* Mutant: the handler is looked up when the answer is due.
AnswerLate(s, o) ==
    /\ stream[s].stage = "handling"
    /\ stream' = [stream EXCEPT ![s].stage = "answered", ![s].outcome = o[1],
                                ![s].handler = slot, ![s].status = AnswerOf(stream[s].kind, o)]
    /\ UNCHANGED <<claimed, mode, wasmMode, responder, loops, slot, latest, owner>>

\* The handler of stream s settles with o and the stream is answered.
Answer(s, o) ==
    /\ stream[s].stage = "handling"
    /\ stream' = [stream EXCEPT ![s].stage = "answered", ![s].outcome = o[1],
                                ![s].status = AnswerOf(stream[s].kind, o)]
    /\ UNCHANGED <<claimed, mode, wasmMode, responder, loops, slot, latest, owner>>

ServeNext ==
    \/ \E m \in Modes, h \in Handlers, x \in BOOLEAN : Serve(m, h, x)
    \/ \E s \in PeerStreams, k \in Modes : Dispatch(s, k)
    \/ \E s \in PeerStreams, o \in Outcomes : Answer(s, o)

ServeSpec == ServeInit /\ [][ServeNext]_servevars
-----------------------------------------------------------------------------
\* One loop serves the connection, in the mode both layers agree on, from a slot that
\* holds a handler given for that mode: a refused serve call leaves no trace in it.
LoopMatchesSlot ==
    /\ \A m \in Modes :
         loops[m] > 0 => loops[m] = 1 /\ mode = m /\ wasmMode = m /\ slot.for = m
    /\ slot = latest

\* Once a serve call claimed the dispatch exclusively (a SubscriptionManager), no later
\* call of any mode takes a stream away from its handler (claimServe).
ExclusiveKeepsDispatch == claimed => slot = owner

\* Streams in flight finish on the handler they started with, and no stream is ever
\* given the inert function (serve, JsStreamingDispatch, JsDuplexDispatch).
InFlightKeepsHandler ==
    [][\A s \in PeerStreams :
         /\ stream[s].stage = "none" /\ stream'[s].stage = "handling"
              => stream'[s].handler = latest /\ latest.for = stream'[s].kind
         /\ stream[s].stage = "handling" => stream'[s].handler = stream[s].handler]_servevars

\* A rejection cannot claim success, and a handler that accepted is never refused
\* (status_from_code, call_handler, call_duplex_handler).
NoFalseSuccess ==
    \A s \in PeerStreams :
      /\ stream[s].outcome \in {"throws", "junk", "unserved"} => stream[s].status # "Ok"
      /\ stream[s].outcome = "void" => stream[s].status = "Ok"

\* Two layers that each remember the mode, and a slot that may be replaced while the loop
\* runs, stay one dispatch (serve, claimServe, serveStreaming, serveDuplex).
DispatchIsSound == LoopMatchesSlot /\ ExclusiveKeepsDispatch /\ NoFalseSuccess
===============================================================================
