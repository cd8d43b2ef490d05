-------------------------------- MODULE Frames --------------------------------
(***************************************************************************)
(* Frames as the browser builds and reads them.  The wasm engine holds a     *)
(* frame as the components of two SEQUENCEs and splices security fields into *)
(* them; the builder drives hashers, compressor, encryptor and signer, each  *)
(* of them awaited, through the engine; a caller may also use the engine's   *)
(* operations in any order.  A digest, a signature and a sealed body are     *)
(* modelled by what they cover.  Which versions a frame admits a field at    *)
(* is the tightbeam crate's rule, external, as the engine's comments give    *)
(* it; of the integrity fields they say V1 in one place and V2 in another,   *)
(* and both readings are tried.                                              *)
(***************************************************************************)
EXTENDS Naturals, Sequences, SequencesExt

CONSTANTS MaxOps   \* bound: operations a caller makes on one frame

\* Tags: context numbers, and the universal types of the other components.
Primitive == 20
Constructed == 21
Integrity == 0
Confidentiality == 1
Nonrepudiation == 1

\* Optional metadata and the context tags behind those the engine sets.
Structural == [priority |-> 2, lifetime |-> 3, previousHash |-> 4, matrix |-> 5]

VARIABLES integrity_floor, \* the version from which the crate admits integrity fields
          user,      \* "builder" or "caller"
          stage,     \* where the builder is, or "open", "refused", "rejected"
          declined,  \* a caller's last operation, when the engine refused it, or "none"
          spec,      \* the fields asked for, the version pinned and asserted
          der,       \* the frame: version, metadata, message, tail
          ops,       \* operations made by a caller
          installed, \* what each operation last installed (history)
          recovered  \* what a reader got out of the finished frame

framesvars == <<integrity_floor, user, stage, declined, spec, der, ops, installed, recovered>>

\* The version from which a field is admitted, in the metadata and in the frame's tail.
MetadataFloor(tag) ==
    CASE tag = Integrity -> integrity_floor [] tag = Confidentiality -> 1
      [] tag \in {2, 3, 4} -> 2 [] tag = 5 -> 3 [] OTHER -> 0
TailFloor(tag) == IF tag = Integrity THEN integrity_floor ELSE 1

Securities == {"messageIntegrity", "compressor", "encryptor", "frameIntegrity", "signer"}
AllFields == DOMAIN Structural \cup Securities
Unpinned == 9
NoSpec == [fields |-> {}, version |-> Unpinned, asserted |-> Unpinned]
NoDer == [version |-> 0, metadata |-> <<>>, message |-> <<>>, tail |-> <<>>]
Nothing == [f \in Securities |-> <<"none">>]

FramesInit == /\ integrity_floor \in {1, 2} /\ user \in {"builder", "caller"}
              /\ stage = "start" /\ declined = "none" /\ spec = NoSpec
              /\ der = NoDer /\ ops = 0 /\ installed = Nothing /\ recovered = <<"nothing">>
-----------------------------------------------------------------------------
(* The engine.                                                              *)

Component(tag, value) == [tag |-> tag, value |-> value]

Ascending(s) == \A i, j \in DOMAIN s : i < j => s[i].tag < s[j].tag

\* What Frame::from_der admits: id and order, at most one compactness, then context
\* fields in tag order, none below its version.
FrameAdmits(f) ==
    LET context == SelectSeq(f.metadata, LAMBDA c : c.tag < Primitive)
        leading == Len(f.metadata) - Len(context) IN
    /\ leading \in {2, 3} /\ \A i \in 1..2 : f.metadata[i].tag = Primitive
    /\ leading = 3 => f.metadata[3].tag = Constructed
    /\ SubSeq(f.metadata, leading + 1, Len(f.metadata)) = context
    /\ Ascending(context) /\ Ascending(f.tail)
    /\ \A i \in DOMAIN context : f.version >= MetadataFloor(context[i].tag)
    /\ \A i \in DOMAIN f.tail : f.version >= TailFloor(f.tail[i].tag)

PutAt(s, i, c, replaces) ==
    IF replaces THEN [s EXCEPT ![i] = c] ELSE InsertAt(s, i, c)

\* Mutant: a tagged field is appended, not put in its place.
SetTaggedAppends(s, number, value) == Append(s, Component(number, value))

\* RawSequence::set_tagged: before the first context field at or past the number, in
\* place of the one that has it.
SetTagged(s, number, value) ==
    LET Past == {i \in DOMAIN s : s[i].tag < Primitive /\ s[i].tag >= number}
        at == IF Past = {} THEN Len(s) + 1 ELSE CHOOSE i \in Past : \A j \in Past : i <= j IN
    PutAt(s, at, Component(number, value), at <= Len(s) /\ s[at].tag = number)

\* WireFrame::set_compactness: after id and order, in place of the one held there.
PutCompactness(s, value) ==
    PutAt(s, 3, Component(Constructed, value), Len(s) >= 3 /\ s[3].tag = Constructed)

WitnessInput(f) == <<f.version, f.metadata>>
TbsBytes(f) == <<f.version, f.metadata, f.message, SelectSeq(f.tail, LAMBDA c : c.tag # Nonrepudiation)>>

\* The operations.  value is a digest's preimage, an envelope or a signature; message is
\* the new body of the two operations that replace it.
Spliced(f, op, value, message) ==
    CASE op = "messageIntegrity" -> [f EXCEPT !.metadata = SetTagged(@, Integrity, value)]
      [] op = "compressor" -> [f EXCEPT !.metadata = PutCompactness(@, value), !.message = message]
      [] op = "encryptor" ->
           [f EXCEPT !.metadata = SetTagged(@, Confidentiality, value), !.message = message]
      [] op = "frameIntegrity" -> [f EXCEPT !.tail = SetTagged(@, Integrity, value)]
      [] op = "signer" -> [f EXCEPT !.tail = SetTagged(@, Nonrepudiation, value)]

\* Frame::attach_signer_info refuses a frame that is already signed.
AlreadySigned(f, op) == op = "signer" /\ \E i \in DOMAIN f.tail : f.tail[i].tag = Nonrepudiation

\* The value of a field, or none when the frame carries none.
Field(s, tag) ==
    IF \E i \in DOMAIN s : s[i].tag = tag
    THEN (CHOOSE c \in ToSet(s) : c.tag = tag).value ELSE <<"none">>

\* inspect_frame, and with it the getters of a FrameView and the fields they hand over.
InspectFrame(f) ==
    [messageIntegrity |-> Field(f.metadata, Integrity),
     compressor |-> Field(f.metadata, Constructed),
     encryptor |-> Field(f.metadata, Confidentiality),
     frameIntegrity |-> Field(f.tail, Integrity),
     signer |-> Field(f.tail, Nonrepudiation)]

\* verify_frame: the prehash is drawn from the frame as it is now.
Verifies(f) == Field(f.tail, Nonrepudiation) = TbsBytes(f)

\* FrameConfig::effective_version.
StructuralVersion(s) ==
    IF s.version # Unpinned THEN s.version
    ELSE IF "matrix" \in s.fields THEN 3
    ELSE IF s.fields \cap {"priority", "lifetime", "previousHash"} # {} THEN 2
    ELSE 0

\* FrameConfig::build of the structural fields, with the caller's body as it is.
BuildStructural(s, version) ==
    LET Asked(tag) == \E f \in s.fields \cap DOMAIN Structural : Structural[f] = tag
        tags == SelectSeq(<<2, 3, 4, 5>>, Asked) IN
    [version |-> version, message |-> <<"body">>, tail |-> <<>>,
     metadata |-> <<Component(Primitive, <<"id">>), Component(Primitive, <<"order">>)>>
                    \o [i \in DOMAIN tags |-> Component(tags[i], <<"set">>)]]
-----------------------------------------------------------------------------
(* The builder.                                                             *)

\* requiredVersion and effectiveVersion of builder.ts.
RequiredVersion(s) ==
    IF "matrix" \in s.fields THEN 3
    ELSE IF s.fields \cap {"messageIntegrity", "frameIntegrity", "priority", "lifetime", "previousHash"} # {} THEN 2
    ELSE IF s.fields \cap {"signer", "encryptor"} # {} THEN 1 ELSE 0

EffectiveVersion(s) == IF s.version = Unpinned THEN RequiredVersion(s) ELSE s.version

\* collectIssues: what is left once the fields themselves are well formed.
Valid(s) == /\ s.version # Unpinned => s.version >= RequiredVersion(s)
            /\ s.asserted # Unpinned => s.asserted = EffectiveVersion(s)

\* FrameBuilder::build up to its first await.
BuilderBuild(s) ==
    LET f == BuildStructural(s, EffectiveVersion(s)) IN
    /\ user = "builder" /\ stage = "start"
    /\ IF ~Valid(s) THEN stage' = "rejected" /\ UNCHANGED <<spec, der>>
       ELSE stage' = (IF FrameAdmits(f) THEN "messageIntegrity" ELSE "refused")
            /\ spec' = s /\ der' = f
    /\ UNCHANGED <<integrity_floor, user, declined, ops, installed, recovered>>

\* Mutant: the witness is taken before the body is sealed.
AfterWitnessEarly(step) ==
    CASE step = "messageIntegrity" -> "compressor" [] step = "compressor" -> "frameIntegrity"
      [] step = "frameIntegrity" -> "encryptor" [] step = "encryptor" -> "signer"
      [] step = "signer" -> "built"

\* The order of WasmFrameCodec.compose.
After(step) ==
    CASE step = "messageIntegrity" -> "compressor" [] step = "compressor" -> "encryptor"
      [] step = "encryptor" -> "frameIntegrity" [] step = "frameIntegrity" -> "signer"
      [] step = "signer" -> "built"

\* What the step installs: the commitment is over the body as given, the seal over the body
\* as it is by now, the witness over version and metadata, the signature over the rest too.
Covers(step, f) ==
    CASE step = "messageIntegrity" -> <<"body">>
      [] step = "compressor" -> <<"zstd">>
      [] step = "encryptor" -> f.message
      [] step = "frameIntegrity" -> WitnessInput(f)
      [] step = "signer" -> TbsBytes(f)

\* The body as the compressor or the encryptor hands it back.
NewMessage(step, f) == IF step = "compressor" THEN <<"zip">> \o f.message ELSE <<"seal">> \o f.message

\* One step of compose: skipped, rejected by the caller's own function, refused by the
\* engine, or done.
Compose ==
    LET f == Spliced(der, stage, Covers(stage, der), NewMessage(stage, der)) IN
    /\ user = "builder" /\ stage \in Securities
    /\ \/ /\ stage \notin spec.fields /\ stage' = After(stage) /\ UNCHANGED <<der, installed>>
       \/ /\ stage \in spec.fields /\ stage' = "rejected" /\ UNCHANGED <<der, installed>>
       \/ /\ stage \in spec.fields
          /\ IF FrameAdmits(f) /\ ~AlreadySigned(der, stage)
             THEN /\ der' = f /\ stage' = After(stage)
                  /\ installed' = [installed EXCEPT ![stage] = Covers(stage, der)]
             ELSE stage' = "refused" /\ UNCHANGED <<der, installed>>
    /\ UNCHANGED <<integrity_floor, user, declined, spec, ops, recovered>>

\* opened: the key must be the recipient's and the body the one the envelope seals.
Opened(key, f) ==
    IF key = "recipient" /\ Tail(f.message) = Field(f.metadata, Confidentiality)
    THEN Tail(f.message) ELSE <<"fault">>

\* A reader decrypts, then inflates, then decodes.
ReadsFrame(key) ==
    LET sealed == Field(der.metadata, Confidentiality) # <<"none">>
        plain == IF sealed THEN Opened(key, der) ELSE der.message
        packed == Field(der.metadata, Constructed) # <<"none">> IN
    /\ stage = "built" /\ recovered = <<"nothing">>
    /\ recovered' = <<key, IF plain = <<"fault">> \/ ~packed THEN plain
                            ELSE IF Head(plain) = "zip" THEN Tail(plain) ELSE <<"fault">>>>
    /\ UNCHANGED <<integrity_floor, user, stage, declined, spec, der, ops, installed>>
-----------------------------------------------------------------------------
(* A caller on the engine itself.                                           *)

CallerBuild(s) ==
    LET f == BuildStructural(s, StructuralVersion(s)) IN
    /\ user = "caller" /\ stage = "start"
    /\ IF FrameAdmits(f) THEN stage' = "open" /\ der' = f /\ spec' = s
       ELSE stage' = "refused" /\ UNCHANGED <<der, spec>>
    /\ UNCHANGED <<integrity_floor, user, declined, ops, installed, recovered>>

\* One operation; a refusal leaves the caller with the frame it had.
CallerSplices(op) ==
    LET f == Spliced(der, op, <<ToString(ops)>>, <<ToString(ops)>>) IN
    /\ user = "caller" /\ stage = "open" /\ ops < MaxOps
    /\ ops' = ops + 1
    /\ IF FrameAdmits(f) /\ ~AlreadySigned(der, op)
       THEN der' = f /\ installed' = [installed EXCEPT ![op] = <<ToString(ops)>>] /\ declined' = "none"
       ELSE declined' = op /\ UNCHANGED <<der, installed>>
    /\ UNCHANGED <<integrity_floor, user, stage, spec, recovered>>

Specs == [fields : SUBSET AllFields, version : 0..3 \cup {Unpinned}, asserted : 0..3 \cup {Unpinned}]
PlainSpecs == [fields : SUBSET {"priority", "matrix"}, version : 0..3 \cup {Unpinned}, asserted : {Unpinned}]

FramesNext ==
    \/ stage = "start" /\ \E s \in Specs : BuilderBuild(s)
    \/ Compose
    \/ \E key \in {"recipient", "other"} : ReadsFrame(key)
    \/ stage = "start" /\ \E s \in PlainSpecs : CallerBuild(s)
    \/ \E op \in Securities : CallerSplices(op)

FramesSpec == FramesInit /\ [][FramesNext]_framesvars
-----------------------------------------------------------------------------
\* The version from which an operation's own field is admitted.
OpFloor(op) == CASE op = "compressor" -> 0
                 [] op \in {"messageIntegrity", "frameIntegrity"} -> integrity_floor [] OTHER -> 1

\* A caller's operations splice in any order: one is declined only when the frame's version
\* is too low for the very field it sets, or when it is a second signature; the fields
\* stay in tag order, each of them once (set_tagged, set_compactness).
SplicesInAnyOrder ==
    declined # "none" => \/ der.version < OpFloor(declined)
                         \/ declined = "signer" /\ Field(der.tail, Nonrepudiation) # <<"none">>

\* An operation leaves every field it does not install byte for byte as it was, and what
\* inspectFrame reports is what was installed last ("a splice leaves every other field
\* byte-identical", RawSequence).
InspectReportsInstalled ==
    /\ InspectFrame(der) = installed
    /\ stage # "refused" => \A f \in DOMAIN Structural \cap spec.fields :
                              Field(der.metadata, Structural[f]) = <<"set">>

\* The version rules of the builder and of the engine agree: a spec the builder lets
\* through is never refused by the engine (effectiveVersion is authoritative).
BuilderNeverRefused == user = "builder" => stage # "refused"

\* A finished frame verifies: its commitment is over the body as given, its witness over
\* the metadata it ended up with, its signature over all of that, witness included.
BuiltVerifies ==
    stage = "built" =>
      LET seen == InspectFrame(der) IN
      /\ "messageIntegrity" \in spec.fields => seen.messageIntegrity = <<"body">>
      /\ "frameIntegrity" \in spec.fields => seen.frameIntegrity = WitnessInput(der)
      /\ "signer" \in spec.fields => Verifies(der)

\* A reader gets the very body back, whatever was applied to it, and of a sealed body
\* exactly with the recipient's key.
BodyComesBack ==
    recovered # <<"nothing">> =>
      recovered[2] = IF "encryptor" \in spec.fields /\ recovered[1] = "other"
                     THEN <<"fault">> ELSE <<"body">>

\* Splices compose: in any order, each leaving the others' fields alone.
SplicesCompose == SplicesInAnyOrder /\ InspectReportsInstalled

\* What the pipeline built is what was asked for: versioned right, verifiable, readable.
BuiltIsSound == BuilderNeverRefused /\ BuiltVerifies /\ BodyComesBack
===============================================================================
