---------------------------- MODULE CommandsProofs ----------------------------
(***************************************************************************)
(* Proofs about served pub/sub connections, for any number of connections   *)
(* and commands in progress, any policies and any quota.                     *)
(*                                                                          *)
(* A command keeps the identity it was authorized under across its awaits.   *)
(* What makes that safe is that a connection keeps its identity while it is  *)
(* served, and that a connection which is not served has no command.         *)
(***************************************************************************)
EXTENDS Commands, TLAPS

Names == Identities \cup {Anonymous}
CommandRecords ==
    [stage : {"none", "asked", "authorized", "answered"}, verb : Verbs, name : Segments,
     status : {"none", "Ok", "InvalidArgument", "PermissionDenied", "ResourceExhausted",
               "Unavailable", "Unimplemented", "Internal"},
     standing : Names \cup {"none"}]

CommandsTypeOK ==
    /\ served \in [Clients -> {"new", "serving", "ended"}] /\ who \in [Clients -> Names]
    /\ tasks \in [Clients -> BOOLEAN] /\ admitted \subseteq Clients
    /\ subs \subseteq Clients \X Segments /\ updates \subseteq Segments
    /\ cmd \in [Clients \X Slots -> CommandRecords]

\* A command of a connection in state sv whose peer is w.
CommandOK(r, sv, w) ==
    /\ sv # "serving" => r = NoCommand
    /\ r.standing # "none" => r.standing = w
    /\ r.stage = "authorized" => IsTopic(r.name) /\ <<w, r.name>> \notin Forbidden

CommandsInv ==
    /\ CommandsTypeOK
    /\ \A k \in Clients \X Slots : CommandOK(cmd[k], served[k[1]], who[k[1]])
    /\ \A c \in Clients : (c \in admitted \/ tasks[c]) => served[c] = "serving"
    /\ \A s \in subs : s[1] \in admitted /\ <<who[s[1]], s[2]>> \notin Forbidden
    /\ \A n \in updates : Head(n) # "end"
-----------------------------------------------------------------------------
\* A topic is not the id of a completion: the reserved prefixes shut it out.
LEMMA TopicsAreNotEnds ==
    ASSUME NEW n \in Segments, IsTopic(n)
    PROVE  Head(n) # "end"
<1>1. n = <<"a">> \/ n = <<"b">> \/ n = <<"end", "a">> \/ n = <<"sub", "a">>
  BY DEF Segments, IsTopic
<1>2. CASE n = <<"a">>
  BY <1>2
<1>3. CASE n = <<"b">>
  BY <1>3
<1>4. CASE n = <<"end", "a">>
  BY <1>4 DEF IsTopic, Reserved
<1>5. CASE n = <<"sub", "a">>
  BY <1>5
<1> QED BY <1>1, <1>2, <1>3, <1>4, <1>5

\* An idle slot says nothing, whatever the connection is and whoever its peer.
LEMMA NoCommandOK ==
    ASSUME NEW sv, NEW w
    PROVE  NoCommand \in CommandRecords /\ CommandOK(NoCommand, sv, w)
<1>1. <<>> \in Segments
  BY DEF Segments
<1>2. NoCommand \in CommandRecords
  BY <1>1 DEF NoCommand, CommandRecords, Verbs
<1>3. NoCommand.standing = "none" /\ NoCommand.stage = "none"
  BY DEF NoCommand
<1> QED BY <1>2, <1>3 DEF CommandOK

\* A step of one command k of a served connection: only its record matters, beside the
\* subscriptions and updates it may leave behind.
LEMMA OneCommand ==
    ASSUME CommandsInv, NEW k \in Clients \X Slots, NEW w \in CommandRecords,
           served[k[1]] = "serving", CommandOK(w, served[k[1]], who[k[1]]),
           cmd' = [cmd EXCEPT ![k] = w], UNCHANGED <<served, who, tasks, admitted>>,
           subs' \subseteq Clients \X Segments, updates' \subseteq Segments,
           \A s \in subs' : s[1] \in admitted /\ <<who[s[1]], s[2]>> \notin Forbidden,
           \A n \in updates' : Head(n) # "end"
    PROVE  CommandsInv'
<1>1. cmd' \in [Clients \X Slots -> CommandRecords]
      /\ \A j \in Clients \X Slots : cmd'[j] = IF j = k THEN w ELSE cmd[j]
  BY DEF CommandsInv, CommandsTypeOK
<1>2. ASSUME NEW j \in Clients \X Slots
      PROVE  CommandOK(cmd'[j], served'[j[1]], who'[j[1]])
  BY <1>1 DEF CommandsInv
<1> QED BY <1>1, <1>2 DEF CommandsInv, CommandsTypeOK

\* An answer ends a command.
LEMMA AnswerStep ==
    ASSUME CommandsInv, NEW k \in Clients \X Slots, served[k[1]] = "serving",
           NEW status \in {"Ok", "InvalidArgument", "PermissionDenied", "ResourceExhausted",
                           "Unavailable", "Unimplemented", "Internal"},
           cmd' = [cmd EXCEPT ![k] = [NoCommand EXCEPT !.stage = "answered", !.status = status]],
           UNCHANGED <<served, who, tasks, admitted>>,
           subs' \subseteq Clients \X Segments, updates' \subseteq Segments,
           \A s \in subs' : s[1] \in admitted /\ <<who[s[1]], s[2]>> \notin Forbidden,
           \A n \in updates' : Head(n) # "end"
    PROVE  CommandsInv'
<1> DEFINE w == [NoCommand EXCEPT !.stage = "answered", !.status = status]
<1>1. w \in CommandRecords
  BY NoCommandOK, Zenon DEF CommandRecords
<1>2. w.standing = "none" /\ w.stage = "answered"
  BY DEF NoCommand
<1> HIDE DEF w
<1>3. CommandOK(w, "serving", who[k[1]])
  BY <1>2 DEF CommandOK
<1>4. cmd' = [cmd EXCEPT ![k] = w]
  BY DEF w
<1> QED BY <1>1, <1>3, <1>4, OneCommand, Zenon

\* A command that is not idle is on a served connection.
LEMMA BusyIsServed ==
    ASSUME CommandsInv, NEW k \in Clients \X Slots, cmd[k].stage # "none"
    PROVE  served[k[1]] = "serving" /\ cmd[k] \in CommandRecords
           /\ CommandOK(cmd[k], served[k[1]], who[k[1]])
<1>1. CommandOK(cmd[k], served[k[1]], who[k[1]]) /\ cmd[k] \in CommandRecords
  BY DEF CommandsInv, CommandsTypeOK
<1>2. NoCommand.stage = "none"
  BY DEF NoCommand
<1> QED BY <1>1, <1>2 DEF CommandOK

\* What a step that touches neither leaves of subscriptions and updates.
LEMMA KeptSubs ==
    ASSUME CommandsInv
    PROVE  /\ subs \subseteq Clients \X Segments /\ updates \subseteq Segments
           /\ \A s \in subs : s[1] \in admitted /\ <<who[s[1]], s[2]>> \notin Forbidden
           /\ \A n \in updates : Head(n) # "end"
BY DEF CommandsInv, CommandsTypeOK
-----------------------------------------------------------------------------
\* A stream that arrives is refused at once, or waits for its authorization.
LEMMA AnswerCommandStep ==
    ASSUME CommandsInv, NEW k \in Clients \X Slots, NEW v \in Verbs, NEW n \in Segments,
           AnswerCommand(k, v, n)
    PROVE  CommandsInv'
<1> DEFINE w == [NoCommand EXCEPT !.stage = "asked", !.verb = v, !.name = n]
<1>1. served[k[1]] = "serving" /\ UNCHANGED <<served, who, tasks, admitted, subs, updates>>
  BY DEF AnswerCommand
<1>2. CASE v = "app" \/ (v = "pub" /\ ~publishing)
  <2>1. cmd' = [cmd EXCEPT ![k] = [NoCommand EXCEPT !.stage = "answered", !.status = "Unimplemented"]]
    BY <1>2, Zenon DEF AnswerCommand
  <2> QED BY <1>1, <2>1, KeptSubs, AnswerStep
<1>3. CASE ~(v = "app" \/ (v = "pub" /\ ~publishing))
  <2>1. w \in CommandRecords
    BY NoCommandOK, Zenon DEF CommandRecords
  <2>2. w.standing = "none" /\ w.stage = "asked"
    BY DEF NoCommand
  <2>3. cmd' = [cmd EXCEPT ![k] = w]
    BY <1>3 DEF AnswerCommand
  <2> HIDE DEF w
  <2>4. CommandOK(w, served[k[1]], who[k[1]])
    BY <1>1, <2>2 DEF CommandOK
  <2> QED BY <1>1, <2>1, <2>3, <2>4, KeptSubs, OneCommand, Zenon
<1> QED BY <1>2, <1>3

\* authorized_topic: the standing recorded is the identity of an admitted connection.
LEMMA AuthorizedTopicStep ==
    ASSUME CommandsInv, NEW k \in Clients \X Slots, AuthorizedTopic(k)
    PROVE  CommandsInv'
<1> DEFINE id == MemberIdentity(k[1])
           w == [cmd[k] EXCEPT !.stage = "authorized", !.standing = id]
<1>1. /\ cmd[k].stage = "asked" /\ UNCHANGED <<served, who, tasks, admitted, subs, updates>>
      /\ k[1] \in Clients
  BY DEF AuthorizedTopic
<1>2. served[k[1]] = "serving" /\ cmd[k] \in CommandRecords
  BY <1>1, BusyIsServed
<1>3. CASE ~IsTopic(cmd[k].name)
  <2>1. cmd' = [cmd EXCEPT ![k] = [NoCommand EXCEPT !.stage = "answered", !.status = "InvalidArgument"]]
    BY <1>3 DEF AuthorizedTopic, Replies
  <2> QED BY <1>1, <1>2, <2>1, KeptSubs, AnswerStep
<1>4. CASE IsTopic(cmd[k].name) /\ (id = "revoked" \/ <<id, cmd[k].name>> \in Forbidden)
  <2>1. cmd' = [cmd EXCEPT ![k] = [NoCommand EXCEPT !.stage = "answered", !.status = "PermissionDenied"]]
    BY <1>4 DEF AuthorizedTopic, Replies
  <2> QED BY <1>1, <1>2, <2>1, KeptSubs, AnswerStep
<1>5. CASE IsTopic(cmd[k].name) /\ id # "revoked" /\ <<id, cmd[k].name>> \notin Forbidden
  <2>1. id = who[k[1]] /\ id \in Names
    BY <1>1, <1>5 DEF MemberIdentity, CommandsInv, CommandsTypeOK
  <2>2. w \in CommandRecords
    BY <1>2, <2>1, Zenon DEF CommandRecords
  <2>3. w.standing = id /\ w.stage = "authorized" /\ w.name = cmd[k].name
    BY <1>2 DEF CommandRecords
  <2>4. cmd' = [cmd EXCEPT ![k] = w]
    BY <1>2, <1>5, Zenon DEF AuthorizedTopic, CommandsInv, CommandsTypeOK
  <2> HIDE DEF w, id
  <2>5. CommandOK(w, served[k[1]], who[k[1]])
    BY <1>2, <1>5, <2>1, <2>3 DEF CommandOK
  <2> QED BY <1>1, <1>2, <2>2, <2>4, <2>5, KeptSubs, OneCommand, Zenon
<1> QED BY <1>3, <1>4, <1>5

\* register, after the await: what it adds is admitted now and was allowed then.
LEMMA SubscribeStep ==
    ASSUME CommandsInv, NEW k \in Clients \X Slots, SubscribeRegisters(k)
    PROVE  CommandsInv'
<1> DEFINE sub == <<k[1], cmd[k].name>>
<1>1. /\ cmd[k].stage = "authorized" /\ UNCHANGED <<served, who, tasks, admitted, updates>>
      /\ k[1] \in Clients
  BY DEF SubscribeRegisters
<1>2. served[k[1]] = "serving" /\ cmd[k] \in CommandRecords
      /\ CommandOK(cmd[k], served[k[1]], who[k[1]])
  BY <1>1, BusyIsServed
<1>3. <<who[k[1]], cmd[k].name>> \notin Forbidden /\ cmd[k].name \in Segments
  BY <1>1, <1>2 DEF CommandOK, CommandRecords
<1>4. PICK st \in {"Ok", "PermissionDenied", "ResourceExhausted", "Unavailable"} :
        /\ cmd' = [cmd EXCEPT ![k] = [NoCommand EXCEPT !.stage = "answered", !.status = st]]
        /\ subs' = subs \/ (k[1] \in admitted /\ subs' = subs \cup {sub})
  BY DEF SubscribeRegisters, Replies
<1>5. /\ subs' \subseteq Clients \X Segments
      /\ \A s \in subs' : s[1] \in admitted /\ <<who[s[1]], s[2]>> \notin Forbidden
  BY <1>1, <1>3, <1>4, KeptSubs
<1> QED BY <1>1, <1>2, <1>4, <1>5, KeptSubs, AnswerStep

\* unsubscribe only takes away.
LEMMA UnsubscribeStep ==
    ASSUME CommandsInv, NEW k \in Clients \X Slots, UnsubscribeTopic(k)
    PROVE  CommandsInv'
<1>1. cmd[k].stage = "asked" /\ UNCHANGED <<served, who, tasks, admitted, updates>>
  BY DEF UnsubscribeTopic
<1>2. served[k[1]] = "serving"
  BY <1>1, BusyIsServed
<1>3. PICK st \in {"Ok", "InvalidArgument"} :
        /\ cmd' = [cmd EXCEPT ![k] = [NoCommand EXCEPT !.stage = "answered", !.status = st]]
        /\ subs' \subseteq subs
  BY DEF UnsubscribeTopic, Replies
<1>4. /\ subs' \subseteq Clients \X Segments
      /\ \A s \in subs' : s[1] \in admitted /\ <<who[s[1]], s[2]>> \notin Forbidden
  BY <1>3, KeptSubs
<1> QED BY <1>1, <1>2, <1>3, <1>4, KeptSubs, AnswerStep

\* publish after its await: the name was checked to be a topic before it.
LEMMA PublishStep ==
    ASSUME CommandsInv, NEW k \in Clients \X Slots, NEW o \in BOOLEAN,
           NEW f \in {"none", "build", "backplane"}, PublishUpdate(k, o, f)
    PROVE  CommandsInv'
<1>1. cmd[k].stage = "authorized" /\ UNCHANGED <<served, who, tasks, admitted, subs>>
  BY DEF PublishUpdate
<1>2. served[k[1]] = "serving" /\ cmd[k] \in CommandRecords
      /\ CommandOK(cmd[k], served[k[1]], who[k[1]])
  BY <1>1, BusyIsServed
<1>3. cmd[k].name \in Segments /\ IsTopic(cmd[k].name)
  BY <1>1, <1>2 DEF CommandOK, CommandRecords
<1>4. Head(cmd[k].name) # "end"
  BY <1>3, TopicsAreNotEnds
<1>5. PICK st \in {"Ok", "InvalidArgument", "Unavailable", "Internal"} :
        /\ cmd' = [cmd EXCEPT ![k] = [NoCommand EXCEPT !.stage = "answered", !.status = st]]
        /\ updates' = updates \/ updates' = updates \cup {cmd[k].name}
  BY Zenon DEF PublishUpdate, Replies
<1>6. updates' \subseteq Segments /\ \A n \in updates' : Head(n) # "end"
  BY <1>3, <1>4, <1>5, KeptSubs
<1> QED BY <1>1, <1>2, <1>5, <1>6, KeptSubs, AnswerStep
-----------------------------------------------------------------------------
\* serve starts a connection that has no command yet, so its identity may still be set.
LEMMA ServeLinkStep ==
    ASSUME CommandsInv, NEW c \in Clients, NEW i \in Names, ServeLink(c, i)
    PROVE  CommandsInv'
<1>1. /\ served[c] = "new" /\ served' = [served EXCEPT ![c] = "serving"]
      /\ who' = [who EXCEPT ![c] = i] /\ tasks' = [tasks EXCEPT ![c] = TRUE]
      /\ admitted' = admitted \cup {c} /\ UNCHANGED <<subs, cmd, updates>>
  BY DEF ServeLink
<1>2. c \notin admitted /\ CommandsTypeOK
  BY <1>1 DEF CommandsInv
<1>3. CommandsTypeOK'
  BY <1>1, <1>2 DEF CommandsTypeOK
<1>4. ASSUME NEW k \in Clients \X Slots PROVE CommandOK(cmd'[k], served'[k[1]], who'[k[1]])
  <2>1. CommandOK(cmd[k], served[k[1]], who[k[1]]) /\ k[1] \in Clients
    BY DEF CommandsInv
  <2>2. CASE k[1] = c
    <3>1. cmd[k] = NoCommand
      BY <1>1, <2>1, <2>2 DEF CommandOK
    <3> QED BY <1>1, <3>1, NoCommandOK
  <2>3. CASE k[1] # c
    BY <1>1, <1>2, <2>1, <2>3 DEF CommandsTypeOK
  <2> QED BY <2>2, <2>3
<1>5. \A d \in Clients : (d \in admitted' \/ tasks'[d]) => served'[d] = "serving"
  BY <1>1, <1>2 DEF CommandsInv, CommandsTypeOK
<1>6. \A s \in subs' : s[1] \in admitted' /\ <<who'[s[1]], s[2]>> \notin Forbidden
  <2> SUFFICES ASSUME NEW s \in subs
               PROVE  s[1] \in admitted' /\ <<who'[s[1]], s[2]>> \notin Forbidden
    BY <1>1
  <2>1. s[1] \in admitted /\ <<who[s[1]], s[2]>> \notin Forbidden
    BY KeptSubs
  <2>2. s[1] # c /\ s[1] \in Clients
    BY <1>2, <2>1 DEF CommandsTypeOK
  <2> QED BY <1>1, <1>2, <2>1, <2>2 DEF CommandsTypeOK
<1> QED BY <1>1, <1>3, <1>4, <1>5, <1>6 DEF CommandsInv

\* drop_connection takes the subscriptions of a connection with it.
LEMMA DropLinkStep ==
    ASSUME CommandsInv, NEW c \in Clients, DropLink(c)
    PROVE  CommandsInv'
<1>1. /\ admitted' = admitted \ {c} /\ subs' = subs \ SubsOf(c)
      /\ UNCHANGED <<served, who, tasks, cmd, updates>>
  BY DEF DropLink
<1>2. \A s \in subs' : s[1] \in admitted' /\ <<who'[s[1]], s[2]>> \notin Forbidden
  BY <1>1, KeptSubs DEF SubsOf
<1>3. CommandsTypeOK'
  BY <1>1 DEF CommandsInv, CommandsTypeOK
<1> QED BY <1>1, <1>2, <1>3 DEF CommandsInv

\* The end of serve leaves nothing of the connection.
LEMMA ServeEndsStep ==
    ASSUME CommandsInv, NEW c \in Clients, ServeEnds(c)
    PROVE  CommandsInv'
<1>1. /\ served' = [served EXCEPT ![c] = "ended"] /\ admitted' = admitted \ {c}
      /\ subs' = subs \ SubsOf(c) /\ tasks' = [tasks EXCEPT ![c] = FALSE]
      /\ cmd' = [k \in DOMAIN cmd |-> IF k[1] = c THEN NoCommand ELSE cmd[k]]
      /\ UNCHANGED <<who, updates>> /\ CommandsTypeOK
  BY DEF ServeEnds, CommandsInv
<1>2. \A s \in subs' : s[1] \in admitted' /\ <<who'[s[1]], s[2]>> \notin Forbidden
  BY <1>1, KeptSubs DEF SubsOf
<1>3. NoCommand \in CommandRecords
  BY NoCommandOK
<1>4. CommandsTypeOK'
  BY <1>1, <1>3 DEF CommandsTypeOK
<1>5. ASSUME NEW k \in Clients \X Slots PROVE CommandOK(cmd'[k], served'[k[1]], who'[k[1]])
  <2>1. CommandOK(cmd[k], served[k[1]], who[k[1]]) /\ k[1] \in Clients
    BY DEF CommandsInv
  <2>2. cmd'[k] = IF k[1] = c THEN NoCommand ELSE cmd[k]
    BY <1>1 DEF CommandsTypeOK
  <2>3. CASE k[1] = c
    BY <2>2, <2>3, NoCommandOK
  <2>4. CASE k[1] # c
    BY <1>1, <2>1, <2>2, <2>4 DEF CommandsTypeOK
  <2> QED BY <2>3, <2>4
<1>6. \A d \in Clients : (d \in admitted' \/ tasks'[d]) => served'[d] = "serving"
  BY <1>1 DEF CommandsInv, CommandsTypeOK
<1> QED BY <1>1, <1>2, <1>4, <1>5, <1>6 DEF CommandsInv
-----------------------------------------------------------------------------
\* Every step of a connection, a command or the registry keeps the invariant.
LEMMA CommandsInvStep == CommandsInv /\ [CommandsNext]_commandvars => CommandsInv'
<1> SUFFICES ASSUME CommandsInv, [CommandsNext]_commandvars PROVE CommandsInv'
  OBVIOUS
<1>1. CASE Quiesces
  BY <1>1 DEF Quiesces, CommandsInv, CommandsTypeOK
<1>2. ASSUME NEW c \in Clients,
             (\E i \in Names : ServeLink(c, i)) \/ DropLink(c) \/ ServeEnds(c)
      PROVE  CommandsInv'
  BY <1>2, ServeLinkStep, DropLinkStep, ServeEndsStep
<1>3. ASSUME NEW k \in Clients \X Slots,
             \/ \E v \in Verbs, n \in Segments : AnswerCommand(k, v, n)
             \/ AuthorizedTopic(k) \/ SubscribeRegisters(k) \/ UnsubscribeTopic(k)
             \/ \E o \in BOOLEAN, f \in {"none", "build", "backplane"} : PublishUpdate(k, o, f)
      PROVE  CommandsInv'
  BY <1>3, AnswerCommandStep, AuthorizedTopicStep, SubscribeStep, UnsubscribeStep, PublishStep
<1>4. CASE UNCHANGED commandvars
  BY <1>4 DEF commandvars, CommandsInv, CommandsTypeOK
<1>5. DOMAIN cmd = Clients \X Slots
  BY DEF CommandsInv, CommandsTypeOK
<1> QED BY <1>1, <1>2, <1>3, <1>4, <1>5 DEF CommandsNext, Names

\* Standing holds across the awaits of a command and the end of its connection, for any
\* number of connections and commands in progress and any policies (PubsubCommands, serve).
THEOREM StandingKept == CommandsSpec => []StandingIsKept
<1>1. CommandsInit => CommandsInv
  <2> SUFFICES ASSUME CommandsInit PROVE CommandsInv
    OBVIOUS
  <2>1. CommandsTypeOK
    BY NoCommandOK DEF CommandsInit, CommandsTypeOK, Names
  <2>2. ASSUME NEW k \in Clients \X Slots PROVE CommandOK(cmd[k], served[k[1]], who[k[1]])
    BY NoCommandOK DEF CommandsInit
  <2> QED BY <2>1, <2>2 DEF CommandsInit, CommandsInv
<1>2. CommandsInv => StandingIsKept
  <2> SUFFICES ASSUME CommandsInv PROVE StandingIsKept
    OBVIOUS
  <2>1. SubscriptionsHaveStanding
    BY KeptSubs DEF SubscriptionsHaveStanding
  <2>2. RevokedNeverAnonymous
    BY Zenon DEF RevokedNeverAnonymous, CommandsInv, CommandsTypeOK, CommandOK
  <2>3. NoForgedEnd
    BY KeptSubs DEF NoForgedEnd
  <2>4. EndedLeavesNothing
    BY Zenon DEF EndedLeavesNothing, CommandsInv, CommandsTypeOK, SubsOf
  <2> QED BY <2>1, <2>2, <2>3, <2>4 DEF StandingIsKept
<1> QED BY <1>1, <1>2, CommandsInvStep, PTL DEF CommandsSpec
===============================================================================
