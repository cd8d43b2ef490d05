------------------------------- MODULE Commands -------------------------------
(***************************************************************************)
(* A served pub/sub connection: serve's tasks and registration, and the      *)
(* sub/, unsub/ and pub/ commands PubsubCommands answers on its streams.     *)
(* Each lock the commands take is a step of its own, so a connection may be  *)
(* dropped, or the registry quiesce, between two of them.  The registry is   *)
(* kept to its members and subscriptions; Registry models it in full.        *)
(***************************************************************************)
EXTENDS Naturals, Sequences, FiniteSets

CONSTANTS Clients,          \* connections
          Slots,            \* bound: commands a connection has in progress
          Identities,       \* peer identities; Anonymous for none
          Forbidden,        \* <<identity, topic>> pairs the policies forbid
          Quota             \* max_subscriptions_per_connection

Anonymous == "anonymous"

\* Topics as their segments: what follows the prefix of a command.  "?" is not UTF-8.
Segments == {<<>>, <<"?">>, <<"a">>, <<"b">>, <<"end", "a">>, <<"sub", "a">>}
Verbs == {"sub", "unsub", "pub", "app"}

VARIABLES publishing, \* with_publish was called
          served,     \* each connection: "new", "serving", "ended"
          who,        \* its identity
          tasks,      \* its reader, writer and keep-alive tasks run
          admitted,   \* connections the registry knows
          subs,       \* subscriptions: <<connection, topic>>
          quiescing,  \* the registry drains
          cmd,        \* each command in progress: see NoCommand
          updates     \* ids of the frames published (history)

commandvars == <<publishing, served, who, tasks, admitted, subs, quiescing, cmd, updates>>

NoCommand == [stage |-> "none", verb |-> "app", name |-> <<>>, status |-> "none",
              standing |-> "none"]

CommandsInit ==
    /\ publishing \in BOOLEAN
    /\ served = [c \in Clients |-> "new"] /\ who = [c \in Clients |-> Anonymous]
    /\ tasks = [c \in Clients |-> FALSE] /\ admitted = {} /\ subs = {}
    /\ quiescing = FALSE /\ cmd = [k \in Clients \X Slots |-> NoCommand] /\ updates = {}
-----------------------------------------------------------------------------
(* The connection.                                                          *)

\* serve up to the responder: tasks are spawned, the connection is admitted.
ServeLink(c, identity) ==
    /\ served[c] = "new"
    /\ served' = [served EXCEPT ![c] = "serving"] /\ who' = [who EXCEPT ![c] = identity]
    /\ tasks' = [tasks EXCEPT ![c] = TRUE] /\ admitted' = admitted \cup {c}
    /\ UNCHANGED <<publishing, subs, quiescing, cmd, updates>>

SubsOf(c) == {s \in subs : s[1] = c}

\* The registry drops a connection: a Disconnect verdict of the delivery policy.
DropLink(c) ==
    /\ c \in admitted /\ served[c] = "serving"
    /\ admitted' = admitted \ {c} /\ subs' = subs \ SubsOf(c)
    /\ UNCHANGED <<publishing, served, who, tasks, quiescing, cmd, updates>>

\* The responder ends, well or not: the connection is dropped and its tasks aborted
\* before the outcome is returned.  Its handlers end with it.
ServeEnds(c) ==
    /\ served[c] = "serving" /\ served' = [served EXCEPT ![c] = "ended"]
    /\ admitted' = admitted \ {c} /\ subs' = subs \ SubsOf(c)
    /\ tasks' = [tasks EXCEPT ![c] = FALSE]
    /\ cmd' = [k \in DOMAIN cmd |-> IF k[1] = c THEN NoCommand ELSE cmd[k]]
    /\ UNCHANGED <<publishing, who, quiescing, updates>>

Quiesces ==
    /\ ~quiescing /\ quiescing' = TRUE
    /\ UNCHANGED <<publishing, served, who, tasks, admitted, subs, cmd, updates>>
-----------------------------------------------------------------------------
(* The commands.                                                            *)

\* A name that starts with one of RESERVED_PREFIXES.
Reserved(name) == name # <<>> /\ Len(name) > 1 /\ Head(name) \in {"sub", "unsub", "pub", "end"}

\* Topic::try_from: UTF-8, not empty, not reserved.
IsTopic(name) == /\ name # <<>> /\ name # <<"?">> /\ ~Reserved(name)

Replies(k, status) ==
    cmd' = [cmd EXCEPT ![k] = [NoCommand EXCEPT !.stage = "answered", !.status = status]]

\* A stream arrives.  The dispatcher takes the first prefix; a pub/ frame without a publish
\* policy and every other frame go to the application, which serves none (unrouted).
AnswerCommand(k, verb, name) ==
    /\ served[k[1]] = "serving" /\ cmd[k].stage \in {"none", "answered"}
    /\ cmd' = [cmd EXCEPT ![k] =
                 IF verb = "app" \/ (verb = "pub" /\ ~publishing)
                 THEN [NoCommand EXCEPT !.stage = "answered", !.status = "Unimplemented"]
                 ELSE [NoCommand EXCEPT !.stage = "asked", !.verb = verb, !.name = name]]
    /\ UNCHANGED <<publishing, served, who, tasks, admitted, subs, quiescing, updates>>

\* member_identity: "revoked" for a connection the registry does not know.
MemberIdentity(c) == IF c \in admitted THEN who[c] ELSE "revoked"

\* authorized_topic.
AuthorizedTopic(k) ==
    LET identity == MemberIdentity(k[1]) IN
    /\ cmd[k].stage = "asked" /\ cmd[k].verb \in {"sub", "pub"}
    /\ IF ~IsTopic(cmd[k].name) THEN Replies(k, "InvalidArgument")
       ELSE IF identity = "revoked" \/ <<identity, cmd[k].name>> \in Forbidden
       THEN Replies(k, "PermissionDenied")
       ELSE cmd' = [cmd EXCEPT ![k].stage = "authorized", ![k].standing = identity]
    /\ UNCHANGED <<publishing, served, who, tasks, admitted, subs, quiescing, updates>>

\* Mutant: the registration trusts the standing the preamble found.
RegisterUnchecked(k) ==
    LET s == <<k[1], cmd[k].name>> IN
    /\ cmd[k].stage = "authorized" /\ cmd[k].verb = "sub"
    /\ IF quiescing THEN Replies(k, "Unavailable") /\ UNCHANGED subs
       ELSE Replies(k, "Ok") /\ subs' = subs \cup {s}
    /\ UNCHANGED <<publishing, served, who, tasks, admitted, quiescing, updates>>

\* subscribe after its preamble: register, under the state lock.
SubscribeRegisters(k) ==
    LET s == <<k[1], cmd[k].name>> IN
    /\ cmd[k].stage = "authorized" /\ cmd[k].verb = "sub"
    /\ IF quiescing THEN Replies(k, "Unavailable") /\ UNCHANGED subs
       ELSE IF k[1] \notin admitted THEN Replies(k, "PermissionDenied") /\ UNCHANGED subs
       ELSE IF s \notin subs /\ Cardinality(SubsOf(k[1])) >= Quota
       THEN Replies(k, "ResourceExhausted") /\ UNCHANGED subs
       ELSE Replies(k, "Ok") /\ subs' = subs \cup {s}
    /\ UNCHANGED <<publishing, served, who, tasks, admitted, quiescing, updates>>

\* unsubscribe succeeds whether or not there was a subscription.
UnsubscribeTopic(k) ==
    /\ cmd[k].stage = "asked" /\ cmd[k].verb = "unsub"
    /\ IF ~IsTopic(cmd[k].name) THEN Replies(k, "InvalidArgument") /\ UNCHANGED subs
       ELSE Replies(k, "Ok") /\ subs' = subs \ {<<k[1], cmd[k].name>>}
    /\ UNCHANGED <<publishing, served, who, tasks, admitted, quiescing, updates>>

\* publish after its preamble: the payload is lifted from an opaque body, then the
\* registry publishes; failed is the node's or the backplane's fault.
PublishUpdate(k, opaque, failed) ==
    /\ cmd[k].stage = "authorized" /\ cmd[k].verb = "pub"
    /\ IF ~opaque THEN Replies(k, "InvalidArgument") /\ UNCHANGED updates
       ELSE IF quiescing THEN Replies(k, "Unavailable") /\ UNCHANGED updates
       ELSE IF failed # "none"
       THEN Replies(k, IF failed = "build" THEN "Internal" ELSE "Unavailable") /\ UNCHANGED updates
       ELSE Replies(k, "Ok") /\ updates' = updates \cup {cmd[k].name}
    /\ UNCHANGED <<publishing, served, who, tasks, admitted, subs, quiescing>>

CommandsNext ==
    \/ Quiesces
    \/ \E c \in Clients :
         \/ \E i \in Identities \cup {Anonymous} : ServeLink(c, i)
         \/ DropLink(c) \/ ServeEnds(c)
    \/ \E k \in DOMAIN cmd :
         \/ \E v \in Verbs, n \in Segments : AnswerCommand(k, v, n)
         \/ AuthorizedTopic(k) \/ SubscribeRegisters(k) \/ UnsubscribeTopic(k)
         \/ \E o \in BOOLEAN, f \in {"none", "build", "backplane"} : PublishUpdate(k, o, f)

CommandsSpec == CommandsInit /\ [][CommandsNext]_commandvars
-----------------------------------------------------------------------------
\* A subscription belongs to a connection the registry knows and whose peer may have it:
\* a command that was authorized before its connection was dropped registers nothing
\* (subscribe's UnknownConnection arm, the shared preamble).
SubscriptionsHaveStanding ==
    \A s \in subs : s[1] \in admitted /\ <<who[s[1]], s[2]>> \notin Forbidden

\* A revoked connection is not served as an anonymous one: a command is let through only
\* under the identity the connection was admitted with ("revocation authoritative").
RevokedNeverAnonymous ==
    \A k \in DOMAIN cmd : cmd[k].standing # "none" => cmd[k].standing = who[k[1]]

\* An update never has the id of a completion: no publish, from any connection, makes
\* subscribers think that a topic ended (RESERVED_PREFIXES).
NoForgedEnd == \A n \in updates : Head(n) # "end"

\* A connection that ended holds no registration, no subscription and no task, whatever
\* ended it (serve).
EndedLeavesNothing ==
    \A c \in Clients : served[c] = "ended" =>
      c \notin admitted /\ SubsOf(c) = {} /\ ~tasks[c]

\* Standing holds across the awaits of a command and the end of its connection: what is
\* registered is admitted and allowed, and an ended connection has nothing left
\* (PubsubCommands, serve).
StandingIsKept ==
    /\ SubscriptionsHaveStanding /\ RevokedNeverAnonymous
    /\ NoForgedEnd /\ EndedLeavesNothing
===============================================================================
