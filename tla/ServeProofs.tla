----------------------------- MODULE ServeProofs ------------------------------
(***************************************************************************)
(* Proofs about the peer-serve dispatch, for any handlers and streams.       *)
(*                                                                          *)
(* The two layers claim one after the other, so a call may pass the first    *)
(* and fail the second.  That does not happen: the wasm layer's mode is      *)
(* always the TypeScript client's (ModesAgree), and the responder is         *)
(* consumed by the first accepted call, which fixes the loop's mode.         *)
(***************************************************************************)
EXTENDS Serve, TLAPS

HandlerCells == [fn : Handlers \cup {"inert"}, for : Modes \cup {"none"}]
Settlements == {"void", "frame", "junk", "throws", "label"}
Statuses == Codes \cup {"Ok", "Unknown"}
StreamRecords ==
    [stage : {"none", "handling", "answered"}, handler : HandlerCells,
     kind : Modes \cup {"none"}, outcome : Settlements \cup {"none", "unserved"},
     status : Statuses \cup {"none"}]

ServeTypeOK ==
    /\ claimed \in BOOLEAN /\ responder \in BOOLEAN
    /\ mode \in Modes \cup {"none"} /\ wasmMode \in Modes \cup {"none"}
    /\ loops \in [Modes -> Nat]
    /\ slot \in HandlerCells /\ latest \in HandlerCells /\ owner \in HandlerCells
    /\ stream \in [PeerStreams -> StreamRecords]

\* Both layers remember the same mode, and the loop and the slot are of that mode.
ModesAgree ==
    /\ mode = wasmMode /\ slot.for = mode /\ slot = latest
    /\ responder <=> mode = "none"
    /\ \A m \in Modes : loops[m] = IF mode = m THEN 1 ELSE 0
    /\ claimed => slot = owner /\ mode # "none"

\* A stream in a handler's hands is of a kind the loop serves.
HandledKinds == \A s \in PeerStreams :
    /\ stream[s].stage = "handling" => stream[s].kind \in Modes /\ stream[s].outcome = "none"
    /\ stream[s].stage = "none" => stream[s].outcome = "none"

ServeInv == ServeTypeOK /\ ModesAgree /\ HandledKinds /\ NoFalseSuccess
-----------------------------------------------------------------------------
\* No rejection is answered Ok, and nothing but acceptance is, in any mode.
LEMMA AnswersAreTrue ==
    ASSUME NEW kind \in Modes, NEW o \in Outcomes
    PROVE  /\ AnswerOf(kind, o) \in Statuses /\ o[1] \in Settlements
           /\ o[1] \in {"throws", "junk", "unserved"} => AnswerOf(kind, o) # "Ok"
           /\ o[1] = "void" => AnswerOf(kind, o) = "Ok"
<1>0. \A name : StatusFromCode(name) \in Codes \cup {"Unknown"}
  BY DEF StatusFromCode
<1>1. \A r : RefusalFor(r) \in Codes \cup {"Unknown"}
  BY <1>0 DEF RefusalFor
<1>a. "Ok" \notin Codes \cup {"Unknown"}
  BY DEF Codes
<1>2. o[1] \in Settlements
  <2>1. CASE o \in {<<"void", "">>, <<"frame", "">>, <<"junk", "">>, <<"throws", "no code">>}
    <3>1. CASE o = <<"void", "">>
      BY <3>1 DEF Settlements
    <3>2. CASE o = <<"frame", "">>
      BY <3>2 DEF Settlements
    <3>3. CASE o = <<"junk", "">>
      BY <3>3 DEF Settlements
    <3>4. CASE o = <<"throws", "no code">>
      BY <3>4 DEF Settlements
    <3> QED BY <2>1, <3>1, <3>2, <3>3, <3>4
  <2>2. CASE o \in {"label", "throws"} \X Names
    BY <2>2 DEF Settlements
  <2> QED BY <2>1, <2>2 DEF Outcomes
<1>3. CASE kind = "unary"
  <2>1. AnswerOf(kind, o) = UnaryAnswer(o)
    BY <1>3 DEF AnswerOf
  <2> QED BY <1>1, <1>a, <1>2, <2>1 DEF UnaryAnswer, Settlements, Statuses
<1>4. CASE kind = "streaming"
  <2>1. AnswerOf(kind, o) = StreamingAnswer(o)
    BY <1>4 DEF AnswerOf
  <2> QED BY <1>2, <2>1 DEF StreamingAnswer, Settlements, Statuses
<1>5. CASE kind = "duplex"
  <2>1. AnswerOf(kind, o) = DuplexAnswer(o)
    BY <1>5 DEF AnswerOf
  <2> QED BY <1>0, <1>1, <1>a, <1>2, <2>1 DEF DuplexAnswer, Settlements, Statuses
<1> QED BY <1>3, <1>4, <1>5 DEF Modes

\* The inductive step.
LEMMA ServeInvStep == ServeInv /\ [ServeNext]_servevars => ServeInv'
<1> SUFFICES ASSUME ServeInv, [ServeNext]_servevars PROVE ServeInv'
  OBVIOUS
<1>0. ServeTypeOK /\ ModesAgree /\ HandledKinds /\ NoFalseSuccess
  BY DEF ServeInv
<1>1. ASSUME NEW m \in Modes, NEW h \in Handlers, NEW x \in BOOLEAN, Serve(m, h, x)
      PROVE  ServeInv'
  <2>1. mode \in {"none", m} /\ ClaimServeWasm(m) /\ ~claimed /\ m # "none"
    BY <1>0, <1>1 DEF Serve, ClaimServe, ClaimServeWasm, ModesAgree, Modes
  <2>2. /\ mode' = m /\ wasmMode' = m /\ slot' = [fn |-> h, for |-> m] /\ latest' = slot'
        /\ claimed' = x /\ owner' = (IF x THEN slot' ELSE owner) /\ responder' = FALSE
        /\ loops' = (IF responder THEN [loops EXCEPT ![m] = @ + 1] ELSE loops)
        /\ stream' = stream
    BY <1>0, <1>1, <2>1 DEF Serve, ServeTypeOK
  <2>3. slot' \in HandlerCells /\ slot'.for = m
    BY <2>2 DEF HandlerCells
  <2>4. loops' \in [Modes -> Nat] /\ \A n \in Modes : loops'[n] = IF m = n THEN 1 ELSE 0
    <3>1. CASE responder
      <4>1. loops' = [loops EXCEPT ![m] = @ + 1] /\ \A n \in Modes : loops[n] = 0
        BY <1>0, <2>2, <3>1 DEF ModesAgree, Modes
      <4> QED BY <1>0, <4>1 DEF ServeTypeOK
    <3>2. CASE ~responder
      BY <1>0, <2>1, <2>2, <3>2 DEF ServeTypeOK, ModesAgree
    <3> QED BY <3>1, <3>2
  <2>5. ServeTypeOK'
    BY <1>0, <2>2, <2>3, <2>4, Zenon DEF ServeTypeOK
  <2>6. ModesAgree'
    BY <2>1, <2>2, <2>3, <2>4 DEF ModesAgree
  <2>7. HandledKinds' /\ NoFalseSuccess'
    BY <1>0, <2>2 DEF HandledKinds, NoFalseSuccess
  <2> QED BY <2>5, <2>6, <2>7 DEF ServeInv
<1>2. ASSUME NEW s \in PeerStreams, NEW k \in Modes, Dispatch(s, k)
      PROVE  ServeInv'
  <2>1. UNCHANGED <<claimed, mode, wasmMode, responder, loops, slot, latest, owner>>
    BY <1>2 DEF Dispatch
  <2>2. PICK v \in {[Idle EXCEPT !.stage = "handling", !.handler = slot, !.kind = k],
                    [Idle EXCEPT !.stage = "answered", !.kind = k,
                                 !.outcome = "unserved", !.status = "Unimplemented"]} :
             stream' = [stream EXCEPT ![s] = v]
    BY <1>2, Zenon DEF Dispatch
  <2>3. /\ v \in StreamRecords
        /\ v.stage = "handling" => v.kind \in Modes /\ v.outcome = "none"
        /\ v.stage # "none"
        /\ v.outcome \in {"throws", "junk", "unserved"} => v.status # "Ok"
        /\ v.outcome # "void"
    <3>1. slot \in HandlerCells /\ Inert \in HandlerCells
      BY <1>0 DEF Inert, HandlerCells, ServeTypeOK
    <3>2. CASE v = [Idle EXCEPT !.stage = "handling", !.handler = slot, !.kind = k]
      BY <3>1, <3>2, Zenon DEF Idle, StreamRecords
    <3>3. CASE v = [Idle EXCEPT !.stage = "answered", !.kind = k,
                                !.outcome = "unserved", !.status = "Unimplemented"]
      BY <3>1, <3>3, Zenon DEF Idle, StreamRecords, Statuses, Codes
    <3> QED BY <3>2, <3>3
  <2>4. ServeTypeOK' /\ ModesAgree'
    BY <1>0, <2>1, <2>2, <2>3 DEF ServeTypeOK, ModesAgree
  <2>5. HandledKinds' /\ NoFalseSuccess'
    BY <1>0, <2>2, <2>3 DEF HandledKinds, NoFalseSuccess, ServeTypeOK
  <2> QED BY <2>4, <2>5 DEF ServeInv
<1>3. ASSUME NEW s \in PeerStreams, NEW o \in Outcomes, Answer(s, o)
      PROVE  ServeInv'
  <2>0. stream[s] \in StreamRecords /\ stream[s].kind \in Modes
    BY <1>0, <1>3 DEF Answer, ServeTypeOK, HandledKinds
  <2>1. UNCHANGED <<claimed, mode, wasmMode, responder, loops, slot, latest, owner>>
    BY <1>3 DEF Answer
  <2> DEFINE a == AnswerOf(stream[s].kind, o)
             v == [stream[s] EXCEPT !.stage = "answered", !.outcome = o[1], !.status = a]
  <2>2. stream' = [stream EXCEPT ![s] = v]
    BY <1>0, <1>3, <2>0, Zenon DEF Answer, ServeTypeOK
  <2>3. /\ a \in Statuses /\ o[1] \in Settlements
        /\ o[1] \in {"throws", "junk", "unserved"} => a # "Ok"
        /\ o[1] = "void" => a = "Ok"
    BY <2>0, AnswersAreTrue
  <2> HIDE DEF a
  <2>4. v \in StreamRecords /\ v.stage = "answered" /\ v.outcome = o[1] /\ v.status = a
    BY <2>0, <2>3, Zenon DEF StreamRecords
  <2> HIDE DEF v
  <2>5. ServeTypeOK' /\ ModesAgree'
    BY <1>0, <2>1, <2>2, <2>4 DEF ServeTypeOK, ModesAgree
  <2>6. HandledKinds' /\ NoFalseSuccess'
    BY <1>0, <2>2, <2>3, <2>4 DEF HandledKinds, NoFalseSuccess, ServeTypeOK
  <2> QED BY <2>5, <2>6 DEF ServeInv
<1>4. CASE UNCHANGED servevars
  BY <1>0, <1>4 DEF servevars, ServeInv, ServeTypeOK, ModesAgree, HandledKinds, NoFalseSuccess
<1> QED BY <1>1, <1>2, <1>3, <1>4 DEF ServeNext

\* The inductive invariant behind the serve loops' promises.
LEMMA ServeInvariant == ServeSpec => []ServeInv
<1>1. ServeInit => ServeInv
  <2> SUFFICES ASSUME ServeInit PROVE ServeInv
    OBVIOUS
  <2>0. Inert \in HandlerCells /\ Inert.for = "none"
    BY DEF Inert, HandlerCells
  <2>1. Idle \in StreamRecords
    BY <2>0 DEF Idle, StreamRecords
  <2>2. Idle.stage = "none" /\ Idle.outcome = "none"
    BY DEF Idle
  <2> QED BY <2>0, <2>1, <2>2, Zenon DEF ServeInit, ServeInv, ServeTypeOK, ModesAgree, HandledKinds,
                            NoFalseSuccess, Modes
<1> QED BY <1>1, ServeInvStep, PTL DEF ServeSpec
-----------------------------------------------------------------------------
\* Two layers, one dispatch: at most one loop runs, in the mode of both, from a slot whose
\* handler was given for it; an exclusive claim keeps it; no rejection reads as success.
THEOREM DispatchSound == ServeSpec => []DispatchIsSound
<1>1. ServeInv => DispatchIsSound
  BY DEF ServeInv, ModesAgree, DispatchIsSound, LoopMatchesSlot, ExclusiveKeepsDispatch
<1> QED BY <1>1, ServeInvariant, PTL

\* A stream is answered by the handler it was dispatched to, however often serve replaces
\* the slot meanwhile.
THEOREM HandlerKept == ServeSpec => InFlightKeepsHandler
<1> DEFINE Kept == \A s \in PeerStreams :
             /\ stream[s].stage = "none" /\ stream'[s].stage = "handling"
                  => stream'[s].handler = latest /\ latest.for = stream'[s].kind
             /\ stream[s].stage = "handling" => stream'[s].handler = stream[s].handler
<1>1. ASSUME ServeInv, [ServeNext]_servevars PROVE Kept \/ UNCHANGED servevars
  <2>0. ServeTypeOK /\ ModesAgree
    BY <1>1 DEF ServeInv
  <2>1. ASSUME NEW m \in Modes, NEW h \in Handlers, NEW x \in BOOLEAN, Serve(m, h, x) PROVE Kept
    BY <2>1 DEF Serve
  <2>2. ASSUME NEW s \in PeerStreams, NEW k \in Modes, Dispatch(s, k) PROVE Kept
    <3>1. PICK m \in Modes :
            /\ loops[m] > 0
            /\ stream' = [stream EXCEPT ![s] =
                 IF m = k
                 THEN [Idle EXCEPT !.stage = "handling", !.handler = slot, !.kind = k]
                 ELSE [Idle EXCEPT !.stage = "answered", !.kind = k,
                                   !.outcome = "unserved", !.status = "Unimplemented"]]
      BY <2>2, Zenon DEF Dispatch
    <3>2. m = mode /\ slot = latest /\ slot.for = mode
      BY <2>0, <3>1 DEF ModesAgree
    <3>3. \A r \in PeerStreams : r # s => stream'[r] = stream[r]
      BY <2>0, <3>1 DEF ServeTypeOK
    <3>4. CASE m = k
      <4>1. stream'[s].handler = slot /\ stream'[s].kind = k
        BY <2>0, <3>1, <3>4 DEF ServeTypeOK, Idle
      <4> QED BY <2>2, <3>2, <3>3, <3>4, <4>1 DEF Dispatch
    <3>5. CASE m # k
      <4>1. stream'[s].stage = "answered"
        BY <2>0, <3>1, <3>5 DEF ServeTypeOK, Idle
      <4> QED BY <2>2, <3>3, <4>1 DEF Dispatch
    <3> QED BY <3>4, <3>5
  <2>3. ASSUME NEW s \in PeerStreams, NEW o \in Outcomes, Answer(s, o) PROVE Kept
    <3>1. /\ \A r \in PeerStreams : r # s => stream'[r] = stream[r]
          /\ stream[s].stage = "handling" /\ stream'[s].handler = stream[s].handler
      BY <2>0, <2>3 DEF Answer, ServeTypeOK, StreamRecords
    <3> QED BY <3>1
  <2> QED BY <1>1, <2>1, <2>2, <2>3 DEF ServeNext
<1> QED BY <1>1, ServeInvariant, PTL DEF ServeSpec, InFlightKeepsHandler
===============================================================================
