------------------------------- MODULE Manager --------------------------------
(***************************************************************************)
(* SubscriptionManager: the client's map of topics to entries, its commands *)
(* and its delivery path, against a server that keeps subscriptions per     *)
(* link and delivers one frame at a time per topic.                         *)
(*                                                                         *)
(* JavaScript runs a handler without interruption up to its next await, so  *)
(* one step of the model is the code between two awaits.  The server and    *)
(* the links are external: the steps here are what the client can observe.  *)
(***************************************************************************)
EXTENDS Gate, Channel, SequencesExt

CONSTANTS Topics,
          Entries,      \* one per call of subscribe
          NoEntry,
          TopicOf,      \* the topic each entry is for
          Iterating,    \* entries without onUpdate, read through a channel
          Observing,    \* entries with onGap; the others resync
          Leaving,      \* entries the application may unsubscribe
          Refusable,    \* entries whose sub/ commands the server may refuse
          Fallible,     \* entries whose decode or onUpdate may fail
          MaxLinks,     \* bound: connections, the first included
          MaxOrder,     \* bound: stamps of one topic
          MaxDeliveries \* bound: frames the server sends

VARIABLES entries,  \* entries: the entry of each topic, or NoEntry
          state,    \* Entry.state, or "new" before subscribe
          gate,     \* Entry.gate
          client,   \* client: the link commands leave on
          replays,  \* each reattach: its unsettled and its refused replays
          building, \* commands between the call and the emit, per topic
          call,     \* the emit of each command: its link and its fate
          dlv,      \* each server frame and where the client is with it
          link,     \* external: each connection
          out,      \* external: commands the server has not read
          subbed,   \* external: topics the server has a lane for
          ended,    \* external: topics the server sent end/ for
          busy,     \* external: the frame each lane waits on, 0 for none
          stamp,    \* external: the last stamp of each topic
          lost,     \* history: stamps that failed and no gap has revealed
          committed,\* history: stamps committed since the last reset
          overlapped,\* history: entries that had two deliveries at the gate at once
          reason    \* history: why an entry left the map

Links == 1..MaxLinks
Deliveries == 1..MaxDeliveries

ASSUME ManagerAssumption ==
    /\ NoEntry \notin Entries
    /\ TopicOf \in [Entries -> Topics]
    /\ Iterating \subseteq Entries /\ Observing \subseteq Entries
    /\ Leaving \subseteq Entries /\ Refusable \subseteq Entries /\ Fallible \subseteq Entries
    /\ MaxLinks \in Nat \ {0} /\ MaxOrder \in Nat /\ MaxDeliveries \in Nat
    /\ Chans = Entries /\ Puts = Deliveries

chanvars == chvars
servervars == <<link, out, subbed, ended, busy, stamp>>
history == <<lost, committed, overlapped, reason>>
mvars == <<entries, state, gate, client, replays, building, call, dlv,
           servervars, history, chanvars>>

\* Who waits for a command: subscribe, unsubscribe, one replay, one resync.
Subs == {<<"sub", 0, e>> : e \in Entries}
Unsubs == {<<"unsub", 0, e>> : e \in Entries}
Replays == {<<"replay", l, e>> : l \in Links, e \in Entries}
Resyncs == {<<"resync", d, e>> : d \in Deliveries, e \in Entries}
Callers == Subs \cup Unsubs \cup Replays \cup Resyncs

Idle == [at |-> 0, st |-> "idle"]
Unsent == [pc |-> "new", kind |-> "update", at |-> 0, topic |-> CHOOSE t \in Topics : TRUE,
           order |-> 0, entry |-> NoEntry]

ManInit ==
    /\ ChInit
    /\ entries = [t \in Topics |-> NoEntry]
    /\ state = [e \in Entries |-> "new"]
    /\ gate = [e \in Entries |-> NewGate]
    /\ client = 1
    /\ replays = [l \in Links |-> [open |-> FALSE, left |-> {}, refused |-> {}]]
    /\ building = [t \in Topics |-> <<>>]
    /\ call = [w \in Callers |-> Idle]
    /\ dlv = [d \in Deliveries |-> Unsent]
    /\ link = [l \in Links |-> IF l = 1 THEN "up" ELSE "none"]
    /\ out = [l \in Links |-> [t \in Topics |-> <<>>]]
    /\ subbed = [l \in Links |-> {}] /\ ended = [l \in Links |-> {}]
    /\ busy = [l \in Links |-> [t \in Topics |-> 0]]
    /\ stamp = [t \in Topics |-> 0]
    /\ lost = [e \in Entries |-> {}] /\ committed = [e \in Entries |-> {}]
    /\ overlapped = {}
    /\ reason = [e \in Entries |-> "none"]
-----------------------------------------------------------------------------
(* Commands.                                                               *)

Mapped(e) == entries[TopicOf[e]] = e

\* command, up to the await of build: callers W, at most one per topic.
Command(W) ==
    /\ building' = [t \in Topics |-> building[t] \o SetToSeq({w \in W : TopicOf[w[3]] = t})]
    /\ call' = [w \in Callers |-> IF w \in W THEN [at |-> 0, st |-> "building"] ELSE call[w]]

\* A caller sees how its command ended.
Settled(w) == call[w].st \in {"ok", "refused", "lost"}
Consume(w) == call' = [call EXCEPT ![w].st = "done"]

\* Mutant: a topic's commands overtake each other.
EmitNewestCommand(t) ==
    /\ building[t] # <<>>
    /\ LET w == Last(building[t]) IN
       /\ building' = [building EXCEPT ![t] = Front(@)]
       /\ call' = [call EXCEPT ![w] = [at |-> client,
                                       st |-> IF link[client] = "up" THEN "sent" ELSE "lost"]]
       /\ out' = IF link[client] = "up"
                 THEN [out EXCEPT ![client][t] = Append(@, w)] ELSE out
    /\ UNCHANGED <<entries, state, gate, client, replays, dlv, link, subbed, ended, busy,
                   stamp, history, chanvars>>

\* command, after build: client is read now, not when the command was made.
\* Builds take equally many turns, so commands of a topic leave in order.
EmitCommand(t) ==
    /\ building[t] # <<>>
    /\ LET w == Head(building[t]) IN
       /\ building' = [building EXCEPT ![t] = Tail(@)]
       /\ call' = [call EXCEPT ![w] = [at |-> client,
                                       st |-> IF link[client] = "up" THEN "sent" ELSE "lost"]]
       /\ out' = IF link[client] = "up"
                 THEN [out EXCEPT ![client][t] = Append(@, w)] ELSE out
    /\ UNCHANGED <<entries, state, gate, client, replays, dlv, link, subbed, ended, busy,
                   stamp, history, chanvars>>

\* Take the entries E out of the map and end their iterations.
RemoveEntries(E, why) ==
    /\ entries' = [t \in Topics |-> IF entries[t] \in E THEN NoEntry ELSE entries[t]]
    /\ reason' = [e \in Entries |-> IF e \in E THEN why ELSE reason[e]]
    /\ FinishChannels(E \cap Iterating)

\* subscribe, up to the await of command.
Subscribe(e) ==
    /\ state[e] = "new"
    /\ entries[TopicOf[e]] = NoEntry
    /\ entries' = [entries EXCEPT ![TopicOf[e]] = e]
    /\ state' = [state EXCEPT ![e] = "pending"]
    /\ Command({<<"sub", 0, e>>})
    /\ UNCHANGED <<gate, client, replays, dlv, servervars, history, chanvars>>

\* subscribe, after command: acknowledged, refused (the topic leaves the map
\* whatever entry it now has), or the connection was lost.
SubscribeSettles(e) ==
    LET w == <<"sub", 0, e>> IN
    /\ Settled(w)
    /\ Consume(w)
    /\ state' = IF call[w].st = "ok" THEN [state EXCEPT ![e] = "live"] ELSE state
    /\ IF call[w].st = "refused"
       THEN /\ entries' = [entries EXCEPT ![TopicOf[e]] = NoEntry]
            /\ reason' = [reason EXCEPT ![e] = "refused"]
            /\ FinishChannels({e} \cap Iterating)
       ELSE UNCHANGED <<entries, reason, chanvars>>
    /\ UNCHANGED <<gate, client, replays, building, dlv, servervars, lost, committed, overlapped>>

\* unsubscribe, up to the await of command: the local removal is the fence.
Unsubscribe(e) ==
    /\ e \in Leaving /\ Mapped(e)
    /\ RemoveEntries({e}, "unsubscribed")
    /\ Command({<<"unsub", 0, e>>})
    /\ UNCHANGED <<state, gate, client, replays, dlv, servervars, lost, committed, overlapped>>

\* unsubscribe, after command.
UnsubscribeSettles(e) ==
    /\ Settled(<<"unsub", 0, e>>)
    /\ Consume(<<"unsub", 0, e>>)
    /\ UNCHANGED <<entries, state, gate, client, replays, building, dlv, servervars,
                   history, chanvars>>
-----------------------------------------------------------------------------
(* Reattach.                                                               *)

Desired == {e \in Entries : Mapped(e)}

\* reattach, up to the await of the replays; its caller has a new connection
\* because the previous one closed.
Reattach ==
    /\ link[client] = "down" /\ client < MaxLinks
    /\ client' = client + 1
    /\ link' = [link EXCEPT ![client + 1] = "up"]
    /\ gate' = [e \in Entries |-> IF e \in Desired THEN NewGate ELSE gate[e]]
    /\ state' = [e \in Entries |-> IF e \in Desired THEN "pending" ELSE state[e]]
    /\ lost' = [e \in Entries |-> IF e \in Desired THEN {} ELSE lost[e]]
    /\ committed' = [e \in Entries |-> IF e \in Desired THEN {} ELSE committed[e]]
    /\ replays' = [replays EXCEPT ![client + 1] =
                     [open |-> TRUE, left |-> Desired, refused |-> {}]]
    /\ Command({<<"replay", client + 1, e>> : e \in Desired})
    /\ UNCHANGED <<entries, dlv, out, subbed, ended, busy, stamp, overlapped, reason,
                   chanvars>>

\* Mutant: a replay's acknowledgment leaves the entry pending.
ReplayKeepsPending(l, e) ==
    LET w == <<"replay", l, e>> IN
    /\ Settled(w)
    /\ Consume(w)
    /\ replays' = [replays EXCEPT ![l].left = @ \ {e},
                     ![l].refused = IF call[w].st = "refused" THEN @ \cup {e} ELSE @]
    /\ UNCHANGED <<entries, state, gate, client, building, dlv, servervars, history, chanvars>>

\* replayed and resubscribe, after command.
ReplaySettles(l, e) ==
    LET w == <<"replay", l, e>> IN
    /\ Settled(w)
    /\ Consume(w)
    /\ state' = IF call[w].st = "ok" THEN [state EXCEPT ![e] = "live"] ELSE state
    /\ replays' = [replays EXCEPT ![l].left = @ \ {e},
                     ![l].refused = IF call[w].st = "refused" THEN @ \cup {e} ELSE @]
    /\ UNCHANGED <<entries, gate, client, building, dlv, servervars, history, chanvars>>

\* reattach, once every replay has settled, with endRefused.
ReattachReturns(l) ==
    /\ replays[l].open /\ replays[l].left = {}
    /\ replays' = [replays EXCEPT ![l].open = FALSE]
    /\ RemoveEntries({e \in replays[l].refused : Mapped(e)}, "refused")
    /\ UNCHANGED <<state, gate, client, building, call, dlv, servervars, lost, committed, overlapped>>
-----------------------------------------------------------------------------
(* Deliveries.                                                             *)

\* The fence: the entry the update was routed to is still the topic's.
Live(d) == entries[dlv[d].topic] = dlv[d].entry

\* The client's answer frees the lane that waits for it.
Answered(d) ==
    busy' = [busy EXCEPT ![dlv[d].at][dlv[d].topic] = IF @ = d THEN 0 ELSE @]

To(d, pc) == dlv' = [dlv EXCEPT ![d].pc = pc]
Finish(d) == To(d, "settled") /\ Answered(d)

\* dispatch of an end/ frame: complete, or unmatched.
ReceiveEnd(d) ==
    /\ dlv[d].pc = "wire" /\ dlv[d].kind = "end"
    /\ RemoveEntries({entries[dlv[d].topic]} \ {NoEntry}, "completed")
    /\ Finish(d)
    /\ UNCHANGED <<state, gate, client, replays, building, call, link, out, subbed, ended,
                   stamp, lost, committed, overlapped>>

\* dispatch of an update nobody subscribes to, or a stale one.
ReceiveIgnored(d) ==
    /\ dlv[d].pc = "wire" /\ dlv[d].kind = "update"
    /\ LET e == entries[dlv[d].topic] IN
       e = NoEntry \/ (e # NoEntry /\ Classify(gate[e], dlv[d].order) = "stale")
    /\ Finish(d)
    /\ UNCHANGED <<entries, state, gate, client, replays, building, call, link, out, subbed,
                   ended, stamp, history, chanvars>>

\* The stamps a gap report for update d of entry e covers.
Revealed(e, d) == Expected(gate[e])..(dlv[d].order - 1)

\* The updates deliverUpdate has taken for entry e and not settled.
InDelivery(e) == {d \in Deliveries : dlv[d].entry = e /\ dlv[d].pc \in {"report", "decode", "handler", "put"}}

\* dispatch and deliverUpdate, up to the first await: decode, or a gap report
\* that calls onGap or sends a resync.
ReceiveUpdate(d) ==
    /\ dlv[d].pc = "wire" /\ dlv[d].kind = "update"
    /\ LET e == entries[dlv[d].topic]
           w == <<"resync", d, e>>
       IN /\ e # NoEntry
          /\ overlapped' = IF InDelivery(e) = {} THEN overlapped ELSE overlapped \cup {e}
          /\ \/ /\ Classify(gate[e], dlv[d].order) = "fresh"
                /\ dlv' = [dlv EXCEPT ![d].pc = "decode", ![d].entry = e]
                /\ UNCHANGED <<building, call, lost>>
             \/ /\ Classify(gate[e], dlv[d].order) = "gap"
                /\ dlv' = [dlv EXCEPT ![d].pc = "report", ![d].entry = e]
                /\ lost' = [lost EXCEPT ![e] = @ \ Revealed(e, d)]
                /\ IF e \in Observing THEN UNCHANGED <<building, call>> ELSE Command({w})
    /\ UNCHANGED <<entries, state, gate, client, replays, servervars, committed, reason, chanvars>>

\* deliverUpdate, after reportGap returned or threw: deliver unless fenced.
Reported(d) ==
    LET e == dlv[d].entry
        w == <<"resync", d, e>>
    IN /\ dlv[d].pc = "report"
       /\ IF e \in Observing THEN UNCHANGED call ELSE Settled(w) /\ Consume(w)
       /\ \/ Live(d) /\ To(d, "decode") /\ UNCHANGED busy
          \/ ~Live(d) /\ Finish(d)
       /\ UNCHANGED <<entries, state, gate, client, replays, building, link, out, subbed,
                      ended, stamp, history, chanvars>>

\* Mutant: the decoded update is handed over without a second look at the map.
DecodedUnfenced(d) ==
    LET e == dlv[d].entry IN
    /\ dlv[d].pc = "decode"
    /\ IF e \in Iterating THEN To(d, "put") /\ Put(e, d)
                          ELSE To(d, "handler") /\ UNCHANGED chanvars
    /\ UNCHANGED <<entries, state, gate, client, replays, building, call, servervars, history>>

\* deliver, after decode: hand the update to onUpdate or the channel, unless fenced.
Decoded(d) ==
    LET e == dlv[d].entry IN
    /\ dlv[d].pc = "decode"
    /\ \/ /\ ~Live(d)
          /\ Finish(d)
          /\ UNCHANGED chanvars
       \/ /\ Live(d) /\ e \in Iterating
          /\ To(d, "put") /\ Put(e, d)
          /\ UNCHANGED busy
       \/ /\ Live(d) /\ e \notin Iterating
          /\ To(d, "handler")
          /\ UNCHANGED <<busy, chanvars>>
    /\ UNCHANGED <<entries, state, gate, client, replays, building, call, link, out, subbed,
                   ended, stamp, history>>

\* Mutant: a failed delivery leaves no trace in the gate.
DeliverFailsQuietly(d) ==
    LET e == dlv[d].entry IN
    /\ dlv[d].pc \in {"decode", "handler"} /\ e \in Fallible
    /\ lost' = [lost EXCEPT ![e] = @ \cup {dlv[d].order}]
    /\ Finish(d)
    /\ UNCHANGED <<entries, state, gate, client, replays, building, call, link, out, subbed,
                   ended, stamp, committed, overlapped, reason, chanvars>>

\* deliverUpdate, when deliver throws: decode or onUpdate failed.
DeliverFails(d) ==
    LET e == dlv[d].entry IN
    /\ dlv[d].pc \in {"decode", "handler"} /\ e \in Fallible
    /\ gate' = [gate EXCEPT ![e] = Witness(@, dlv[d].order)]
    /\ lost' = [lost EXCEPT ![e] = @ \cup {dlv[d].order}]
    /\ Finish(d)
    /\ UNCHANGED <<entries, state, client, replays, building, call, link, out, subbed, ended,
                   stamp, committed, overlapped, reason, chanvars>>

\* deliverUpdate, when deliver returns: commit the stamp unless fenced.
Delivered(d) ==
    LET e == dlv[d].entry IN
    /\ \/ dlv[d].pc = "handler"
       \/ dlv[d].pc = "put" /\ put[d] = "returned"
    /\ \/ /\ Live(d)
          /\ gate' = [gate EXCEPT ![e] = Advance(@, dlv[d].order)]
          /\ committed' = [committed EXCEPT ![e] = @ \cup {dlv[d].order}]
       \/ ~Live(d) /\ UNCHANGED <<gate, committed>>
    /\ Finish(d)
    /\ UNCHANGED <<entries, state, client, replays, building, call, link, out, subbed, ended,
                   stamp, lost, overlapped, reason, chanvars>>

\* The consumer of an iterating subscription asks for the next update.
Pull(e) ==
    /\ e \in Iterating /\ state[e] # "new"
    /\ NextItem(e)
    /\ UNCHANGED <<entries, state, gate, client, replays, building, call, dlv, servervars, history>>
-----------------------------------------------------------------------------
(* The server and the links.                                               *)

\* The server answers the oldest command of topic t.  A second sub/ keeps the
\* lane.  Policy and the limit of a connection may refuse one sub/ and accept the
\* next; a draining server refuses every sub/.
ServerAnswers(l, t) ==
    /\ out[l][t] # <<>>
    /\ LET w == Head(out[l][t]) IN
       /\ out' = [out EXCEPT ![l][t] = Tail(@)]
       /\ \/ /\ w \in Unsubs
             /\ call' = [call EXCEPT ![w].st = "ok"]
             /\ subbed' = [subbed EXCEPT ![l] = @ \ {t}]
             /\ busy' = [busy EXCEPT ![l][t] = 0]
          \/ /\ w \notin Unsubs /\ ended[l] = {}
             /\ call' = [call EXCEPT ![w].st = "ok"]
             /\ subbed' = [subbed EXCEPT ![l] = @ \cup {t}]
             /\ UNCHANGED busy
          \/ /\ w \notin Unsubs /\ (w[3] \in Refusable \/ ended[l] # {})
             /\ call' = [call EXCEPT ![w].st = "refused"]
             /\ UNCHANGED <<subbed, busy>>
    /\ UNCHANGED <<entries, state, gate, client, replays, building, dlv, link, ended, stamp,
                   history, chanvars>>

\* An idle lane sends a frame of kind k; a stamp may have been skipped by a drop.
ServerSends(l, t, k, d) ==
    /\ link[l] = "up" /\ t \in subbed[l] \ ended[l] /\ busy[l][t] = 0
    /\ dlv[d].pc = "new" /\ \A c \in 1..(d - 1) : dlv[c].pc # "new"
    /\ \E o \in IF k = "end" THEN {0} ELSE {stamp[t] + 1, stamp[t] + 2} \cap (1..MaxOrder) :
         /\ dlv' = [dlv EXCEPT ![d] = [pc |-> "wire", kind |-> k, at |-> l, topic |-> t,
                                       order |-> o, entry |-> NoEntry]]
         /\ stamp' = IF k = "end" THEN stamp ELSE [stamp EXCEPT ![t] = o]
    /\ busy' = [busy EXCEPT ![l][t] = d]
    /\ ended' = IF k = "end" THEN [ended EXCEPT ![l] = @ \cup {t}] ELSE ended
    /\ UNCHANGED <<entries, state, gate, client, replays, building, call, link, out, subbed,
                   history, chanvars>>

\* A connection closes: its unanswered commands fail as connection losses and
\* what was on the wire is gone; the client's handlers go on.
LinkCloses(l) ==
    /\ link[l] = "up"
    /\ link' = [link EXCEPT ![l] = "down"]
    /\ call' = [w \in Callers |->
                  IF call[w].at = l /\ call[w].st \in {"sent", "ok", "refused"}
                  THEN [call[w] EXCEPT !.st = "lost"] ELSE call[w]]
    /\ dlv' = [d \in Deliveries |-> IF dlv[d].at = l /\ dlv[d].pc = "wire"
                                    THEN [dlv[d] EXCEPT !.pc = "settled"] ELSE dlv[d]]
    /\ out' = [out EXCEPT ![l] = [t \in Topics |-> <<>>]]
    /\ subbed' = [subbed EXCEPT ![l] = {}] /\ ended' = [ended EXCEPT ![l] = {}]
    /\ busy' = [busy EXCEPT ![l] = [t \in Topics |-> 0]]
    /\ UNCHANGED <<entries, state, gate, client, replays, building, stamp, history, chanvars>>
-----------------------------------------------------------------------------
ClientSteps ==
    \/ \E t \in Topics : EmitCommand(t)
    \/ \E e \in Entries : SubscribeSettles(e) \/ UnsubscribeSettles(e)
    \/ \E l \in Links : ReattachReturns(l) \/ \E e \in Entries : ReplaySettles(l, e)
    \/ \E d \in Deliveries : ReceiveEnd(d) \/ ReceiveIgnored(d) \/ ReceiveUpdate(d)
                             \/ Reported(d) \/ Decoded(d) \/ DeliverFails(d) \/ Delivered(d)

ServerReplies == \E l \in Links, t \in Topics : ServerAnswers(l, t)

ManNext ==
    \/ ClientSteps
    \/ ServerReplies
    \/ \E e \in Entries : Subscribe(e) \/ Unsubscribe(e) \/ Pull(e)
    \/ Reattach
    \/ \E l \in Links : LinkCloses(l)
    \/ \E l \in Links, t \in Topics, k \in {"update", "end"}, d \in Deliveries :
         ServerSends(l, t, k, d)

ManSpec == ManInit /\ [][ManNext]_mvars

\* Every queued continuation runs, an open link's server answers, and onUpdate and
\* onGap return.  Nothing makes a consumer pull, a link close or a caller reattach.
ManFairSpec == ManSpec /\ WF_mvars(ClientSteps) /\ WF_mvars(ServerReplies)
-----------------------------------------------------------------------------
(* Properties.                                                             *)

\* No update reaches onUpdate or the channel once its entry has left the map, a
\* successor subscribed to the same topic included (the fence of unsubscribe).
NothingAfterRemoval ==
    [][\A d \in Deliveries :
         dlv[d].pc \notin {"handler", "put"} /\ dlv'[d].pc \in {"handler", "put"}
           => Live(d) /\ reason[dlv[d].entry] = "none"]_mvars

\* A stamp the gate saw and did not commit is revealed by whatever stamp comes
\* next: the invariant TopicGate documents for classify, advance and witness.  It holds
\* of an entry as long as deliverUpdate handles its updates one at a time.
LossStaysVisible ==
    \A e \in Entries \ overlapped : Mapped(e) =>
      \A o \in lost[e] : \A n \in (o + 1)..(MaxOrder + 1) : Classify(gate[e], n) = "gap"

\* A gap report never covers a stamp that was committed since the gate was reset,
\* even when deliveries of two lanes overlap (deliverUpdate, reportGap).
GapsAreReal ==
    [][\A d \in Deliveries : dlv[d].pc = "wire" /\ dlv'[d].pc = "report" =>
         committed[dlv'[d].entry] \cap Revealed(dlv'[d].entry, d) = {}]_mvars

\* No command is under way, the current connection is open and not being drained.
AtRest == /\ link[client] = "up" /\ ended[client] = {}
          /\ \A t \in Topics : building[t] = <<>>
          /\ \A w \in Callers : call[w].st \in {"idle", "done"}
          /\ \A l \in Links : ~replays[l].open

\* Once commands have settled, every entry left in the map is live and the server has
\* a lane for it, whatever losses, reattaches, unsubscribes and refusals came before
\* ("the surviving topics are already consistent", reattach).
SurvivorsAreServed ==
    AtRest => \A t \in Topics : entries[t] # NoEntry =>
                t \in subbed[client] /\ state[entries[t]] = "live"

\* The server has refused no command and completed no subscription.
NothingWithdrawn == /\ \A e \in Entries : reason[e] \notin {"refused", "completed"}
                    /\ \A l \in Links : replays[l].refused = {}

\* Once commands have settled and as long as the server has withdrawn nothing, it has
\* no lane for a topic the client has left (subscribe, unsubscribe, reattach).  An End
\* that completes a pending entry does leave one: its sub/ may land after a reattach.
NoOrphanLane ==
    AtRest /\ NothingWithdrawn => \A t \in subbed[client] : entries[t] # NoEntry

\* A subscription the server acknowledged on the open connection ends only because it
\* was unsubscribed or completed (the documentation of SubscriptionState).
EndedMeansEnded ==
    \A e \in Entries : state[e] = "live" /\ link[client] = "up" /\ ~Mapped(e)
                         => reason[e] \in {"unsubscribed", "completed"}

\* A reattach has replays that are neither answered nor lost.
Reattaching == \E l \in Links : replays[l].open

\* A delivery holds its stream although its entry has left the map.
HoldsUnwanted == \E d \in Deliveries : dlv[d].pc \in {"report", "decode", "handler", "put"} /\ ~Live(d)

\* The client owes progress to a reconnect and to the server's lanes: reattach returns, and
\* a delivery nobody wants any more settles although nobody may ever take the update from
\* the channel (finishIteration releases the parked producer).  A link is attached and a
\* stream delivered once, so each debt is paid when again and again there is none.
ClientSettles == []<>(~Reattaching /\ ~HoldsUnwanted)
===============================================================================
