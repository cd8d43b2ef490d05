# tightbeam-ext in TLA+

Models of the pub/sub server, its clients, the WebSocket transport and the ASN.1 tooling of
this repository, the TLC runs that check them on small instances, and TLAPS proofs for
instances of any size. Paths below are relative to `src/`; definitions keep the names of the
code where TLA+ allows it. `PROJECT.json` lists every definition with the lines it stands
for, the hazards the properties are aimed at, and for every checked property a mutant of the
model (a plausible bug) that breaks it.

## The system

A server holds one *topic registry* per process (or several: "nodes"). Clients open
multiplexed WebSocket connections, subscribe to topics and receive updates as
server-initiated streams. A browser reaches the server through a TypeScript client over a
wasm core, may pay for its session, submit work to a cluster, and builds and reads frames
whose payloads have derived ASN.1 codecs.

| part | source | module |
| --- | --- | --- |
| Local backplane: order counters, weak sinks, one mutex | `pubsub/tightbeam-pubsub/src/backplane.rs` | `Backplane` |
| Relay of the demo server: queue, worker, processor | `.../examples/pubsub_demo_server.rs` | `Relay`, `AtMostOnce` |
| Topic registry and delivery policy | `.../registry.rs`, `policy.rs` | `Registry` |
| Delivery lanes: queue, drain task, `flushed` | `.../registry.rs` | `Lane` |
| Command dispatch, serving, topic names | `.../dispatch.rs`, `serve.rs`, `topic.rs` | `Commands` |
| Subscription manager, gate, channel | `pubsub/client/src/manager.ts`, `gate.ts`, `channel.ts` | `Manager`, `Gate`, `Channel` |
| Stream handles of the wasm client | `ws/tightbeam-ws-wasm/src/streaming.rs` | `Streams` |
| Serving streams from JavaScript | `.../mux.rs`, `ws/client/src/index.ts` | `Serve` |
| Dial, calls, abort, keepalive, close | `.../mux.rs`, `socket.rs`, `promise.rs` | `Session` |
| One envelope per message, both sides | `ws/tightbeam-ws/src/io.rs`, wasm `stream.rs` | `Framing` |
| Echo servers, accept loop | `ws/tightbeam-ws/examples/echo_server_mux*.rs`, `src/testing/mux.rs`, `src/protocol.rs` | `Server` |
| Paid sessions, signer, approver, wallet | `ws/tightbeam-ws/src/testing/paywall.rs`, wasm `signer.rs`, `approver.rs` | `Paywall` |
| Work plane | wasm `work.rs`, `ws/tightbeam-ws/examples/work_gateway_server.rs` | `Work` |
| Frame engine, builder, reader | wasm `build.rs`, `bindings.rs`, `ws/client/src/builder`, `codec.ts` | `Frames` |
| ASN.1 derive and JavaScript conversions | `asn/tightbeam-asn-derive`, `asn/tightbeam-asn/src/js.rs` | `AsnCodec` |

How they interact. `Registry` extends `Backplane` and `Lane`: a sink of the backplane is a
node. `Relay` extends `Backplane`: its worker is one more caller of `Local::publish`.
`Manager` uses `Gate` and `Channel`, and has the server as its environment. `Commands` keeps
the registry to its members and subscriptions, so that each lock a command takes is a step.
The other modules share no state; what one assumes of the next is said below.

What makes it hard. A publish holds the backplane mutex while it takes the state mutex of
every node; quiesce takes the same two one after the other, with publishes and unsubscribes
in between. Drain tasks run beside both and sleep on a Notify that stores one permit. Stamps
are dense per topic and shared by all nodes, and a client reads a hole as loss. In the
browser everything is single-threaded but every await is a point at which a signal aborts,
the socket closes, or a second call finds the state half taken.

## How the models correspond to the code

* `Backplane`. `held` is the publish that owns the mutex, with the locals of
  `Local::publish`; each sink's answer is one step, so sinks may vanish and callers may queue
  up in between. On its own (`BPSpec`) a sink may answer anything.
* `Relay`. The registry publishes through `Local`, or through a bounded queue, one worker and
  the processor servlet. A note is named by the position of its acknowledgment. The abstract
  module `AtMostOnce` states what the comment on `RelayBackplane` promises; `Relay` is shown to
  implement it (`closed <- (worker = "done")`).
* `Lane`. A step is what a task does under one lock or in one await: `task` says where the
  drain task is. Actions for the whole registry pass the sets of subscribers they touch.
* `Registry`. A critical section is one step, but for quiesce's copy of the members: it takes the
  state mutex in one step and lets go of it in the next, and while `StateHeld` everyone else who
  needs that mutex waits, a publish with the backplane mutex in its hands among them. The mutants
  of `StateHeld` keep the guard while an order is reserved, or while a voted-off connection is
  disconnected; both are deadlocks that `fair` finds. Lane mutexes are taken inside the state mutex or
  by the drain task alone, so a fan-out over several lanes is atomic for everyone but the drain
  tasks, whose own steps commute with the pushes to other lanes. `draining` is flipped without
  a lock; the flip commutes with a section that has already read the flag. `Preemptive` says
  whether another thread may run between two accesses of a drain task (a multi-threaded tokio
  runtime, as the example servers use) or only at its awaits.
* `Commands`. Each lock a command takes is a step, so a drop or a quiesce may come between its
  authorization and its registration. A topic is its segments.
* `Manager`. A step is the code between two awaits. `call` is the fate of each command, `dlv`
  where each server frame is in `dispatch` and `deliverUpdate`. `Gate` and `Channel` are
  operators and actions on its records.
* `Streams`. A method takes a half of the stream out of the shared cell, awaits it and puts it
  back; a second call finds the cell empty.
* `Serve`. The claim is made twice, in TypeScript and in wasm; the loop reads the handler slot
  at each dispatch.
* `Session`. An event marks a future ready, a later microtask polls it; the signal, the future
  and the socket's events come in any order in between.
* `Framing`. The socket yields messages in order, then errors; which ones differs by side.
* `Server`. One accept loop, one request per connection, call-backs on the same connection.
* `Paywall`. The wallet's load and compare-exchange are two steps. Numbers from JavaScript keep
  the shapes the checks look at.
* `Work`. A frame is whose it is, what it holds and whether the signature covers it. The
  probe's handler finds no identity, answers, or fails while it composes and signs (one step for
  the ways to fail: the framework, which is external, answers each with a status and no frame).
* `Frames`. DER is the sequence of tagged components; a digest, a seal and a signature are what
  they cover. A behaviour has the builder or a caller of the engine's operations in any order,
  and one of the two readings of the versions that admit integrity fields (`integrity_floor`).
* `AsnCodec`. From a declared type to a field kind, and from the kind to the reader, the
  projection and the TypeScript type, over the types of the fixtures crate and structs and enums
  made of them with up to two fields. Integer widths are scaled down together (`Bits`), so
  that both ends of every range, and what lies just beyond, are among the inputs.
* `MC*` modules instantiate these for TLC. `MCParts` and `MCWire` put components side by side
  that share no state: `part` says which of them a behaviour exercises.

External, modelled from how the code here uses them: the tightbeam mux (an emit is accepted,
refused or held back for a slot; on a dead link it fails) and handshake, tokio's `Notify` (one
permit, oldest waiter first), tungstenite and the browser's WebSocket, the processor servlet's
transport, the cluster gateway and hive, the `der` crate, which versions of a frame admit a
field. Variables marked "history" in a module are read by no guard.

What `Manager` assumes of its environment. Commands of one topic leave in the order they were
made (every `build` takes the same turns) and the server handles them in that order. Answers on
different streams may be seen in any order. The server may refuse one `sub/` and accept the
next. A lane waits for the acknowledgment of a frame before it sends the next, and an `unsub/`
does not wait for a frame in flight. A closed connection loses unanswered commands and frames on
the wire; handlers that run go on. `reattach` is called only after the connection closed.

## Runs

| run | question | instance |
| --- | --- | --- |
| `backplane` | Are stamps used exactly once, in order, and is publish's answer true, whatever sinks answer? Does the relay keep its at-most-once promise, account for every note and keep none for ever? | 1 topic, 2 sinks, 2 callers and the worker, queue of 2, 3 acknowledged notes, orders up to 4 |
| `lane` | One lane under all verdicts, emit outcomes and link failure, with threads preempting: does the end stay last, is every drop counted, does a returned `flushed` mean that the ends left? | 1 connection, 1 subscriber, 3 publishes, capacity 1, 1 `flushed` |
| `maps` | Do the three maps agree and does quiesce reach everyone or no one? | 1 connection, 2 topics, 3 subscriber ids (so that a re-subscription happens), limit 2, 1 publish per topic, capacity 0 (so that each push asks the policy), `end_frame` failing for one topic |
| `nodes` | Do lanes stay in stamp order when a sibling node quiesces, and is every hole an end stamp? | 2 nodes, a subscriber each, orders up to 3, a peer that stops answering |
| `fair` | Do quiesce and publish return although each takes both mutexes, do ends leave, do closed tasks end? | 1 subscriber, 2 topics, 2 publishes per topic, single-threaded |
| `sessions` | Is every entry left in the map live and served, whatever is refused? Until something is, does no lane outlive its entry? Does reattach return, and do deliveries of removed entries settle? | 2 links, 2 entries of one topic whose deliveries may fail, the first one refusable, iterated and with an `onGap`; 2 frames |
| `parts` | The wasm client: stream handles under overlapping calls, competing serve calls, dials and calls racing aborts, close and drain | 4 calls and 2 chunks on a handle; 2 handlers, 2 peer streams; 2 calls, 1 stream |
| `wire` | What a frame goes through: delivery of two lanes of a topic, envelopes, echo server, paid sessions, work, commands, frame building, codecs | below |
| `drain_finish_race`, `flushed_stranded`, `sibling_hole`, `late_refusal` | findings, below | small |

The parts of `wire`: 1 link, 2 entries of one topic, 3 frames, orders up to 4; 3 socket events
with ceilings 1 and 2; 2 peers, all request kinds and ids, all three body modes; 2 dials over a
wallet of 2 payments, 1 renewal; 2 submissions; 1 connection with 2 commands in progress, every
verb, six topic shapes, one forbidden pair, quota 1; every set of builder fields with every pinned
and asserted version, or 4 operations of a caller; every field kind with boundary values, alone,
nested and beside another field.

What each property says stands above its definition. Those with several conjuncts
(`LaneOrders`, `TasksSettle`, `ClientSettles`, `HandoffIsExact`, `HandleKeepsOrder`,
`DispatchIsSound`, `RaceLeavesNothing`, `SessionSettles`, `EchoIsFaithful`, `PaywallIsExact`,
`WorkIsFaithful`, `StandingIsKept`, `SplicesCompose`, `BuiltIsSound`, `CodecIsExact`) name one
contract of a component; the conjuncts are definitions of their own with their own comments.

Bounds. `MaxOrder` stops publishes, never reserves. Capacity 1 with three publishes is the least
in which an update is in flight, another queued and a third meets a full queue. In `maps`, where
the queue plays no part but to vote a connection off, capacity 0 has one publish do so. A relay queue of
2 with 3 notes has one in the worker's hands, a full queue and a refused publish. Two nodes and
three orders are the least in which a lane sees an update, a sibling's end stamp and a later
update. Two dials over two payments, with a renewal, exhaust the wallet while both race for it.
Four calls on a handle are a pending one, one that overlaps it, and a call after each has settled.
Ids are used once, as in the code, so most runs end when they are used up and do not report their
final states as deadlocks; `backplane`, which has no such end, checks for deadlock.

Fairness.

* `FairSpec` (`Registry`): weak fairness of every spawned task and of every call that has been
  made (tokio polls woken tasks; a mutex is released after a bounded section); nothing obliges a
  call to be made. Strong fairness of an emit being answered: a slot may be refused again and
  again, but a peer that is alive answers some time. That is an assumption about the peer and the
  mux, and only `TasksSettle` needs it.
* `RelayFairSpec`: the worker task is scheduled, its timeout fires, and sinks answer. The
  processor need not.
* `ManFairSpec`: a settled promise's continuation runs, `onUpdate` and `onGap` return, and the
  server answers on an open link. Nothing obliges a consumer to pull, a link to close or an
  application to reattach.
* `StreamsFair`, `SessionFair`: a ready future is polled, timers fire, a dial and a closing
  socket come to an end. Nothing makes a peer answer or an application abort.
* `ServerFair`: the accept loop's task runs. `AcceptGoesOn` has as a premise that upgrades come
  to an end: `accept` runs the upgrade inline and has no deadline.

A few defensive branches are never taken, because the code before them excludes the case: the
wasm claim refused after the TypeScript one was granted, a second close of a handle whose reader
is gone, a builder that the engine refuses, a put on a finished channel.

### Limits of what the runs show

Each of these was met as a TLC counterexample on a small instance, or read in the code:

* `LossStaysVisible` leaves out entries in `overlapped`. `gate.ts:23` states it of every stamp,
  but `deliverUpdate` classifies before its awaits and commits after them. With two lanes (a
  re-subscription, or a reattach) two updates can both classify as fresh; the older one fails
  and is witnessed, the newer one commits and erases the witness. (Without the exclusion:
  1 link, 2 entries, 2 frames, the second entry fallible.)
* `ClientSettles` is checked with the first entry iterated. With a refusable predecessor the
  settling of a removed entry fails for the reason of `late_refusal`: the catch of `subscribe`
  finishes the channel of the refused entry, not of the one it deleted, and a delivery parked
  there stays parked, against `channel.ts:44`.
* `NoOrphanLane` excludes executions in which the server withdrew something. A subscribe made
  while the connection is down is emitted on the next one beside its replay; when the first is
  refused and the second accepted, the entry is gone while the server has a lane. An end that
  completes a pending entry leaves a lane too, when its `sub/` lands after a reattach.
* `DropAccounting` is checked with capacity 1. With `queue_capacity` 0, `DropOldest` pops
  nothing, enqueues the update and still counts a drop (`registry.rs:624`).
* The relay acknowledges a note when it is queued. What is queued when the processor fails is
  lost with the relay (`NothingUnaccounted` counts it as dropped), and one note that the
  processor cannot read is such a failure: the worker returns as it does for a broken link.
* A dial whose signal aborts in the tick in which the connection is ready resolves with a client
  over a closing socket. `AbortClosesDial` says that the socket goes, not that the promise
  rejects.
* A `pub/` that was authorized before its connection was dropped still publishes. `StandingIsKept`
  speaks of registrations. A serve future that its caller drops skips the clean-up; the callers
  here await it.
* `AsnCodec`: `Some(Null)` of an `Option<Null>` comes back as `None`; `CodecIsExact` states it as
  the one exception. The rendered TypeScript type of a `Vec<Option<T>>` is `T | null[]`, which
  reads as something else, so that type is not among the inputs. A nested type is rendered by its
  Rust name while its interface is exported under `js_name`; the two are equal for every type of
  this repository, and the model has one name for both. Extra properties of an object
  are ignored, so a sequence whose fields are all optional reads any object as empty.
* `Frames`: the comments disagree on the versions that admit integrity fields: V1 and up at
  `build.rs:313` and `386`, V2 and up at `bindings.rs:232` and `276`. The rule itself is in the
  tightbeam crate, and the tests here use V2 only, so neither comment can be refuted from this
  repository. Both readings are checked (`integrity_floor`); the builder asks for V2 and meets no
  refusal under either.
  An omitted order is built as `FrameConfig`'s default 0, where its documentation
  (`build.rs:52`) says the current Unix time; the value of an order is not modelled.

### Findings

* `drain_finish_race`: between an empty pop and the read of `finished` (`registry.rs:711-722`)
  quiesce can push the end; the task then returns without emitting it. It needs two threads.
* `flushed_stranded`: a subscriber that leaves with frames queued never signals `flush`
  (`registry.rs:735`), so a `flushed` that waits for it sleeps for ever.
* `sibling_hole`: the end stamp that one node reserves is a hole for the other nodes'
  subscribers, whose client reports a gap. `LaneOrders` shows it is the only kind of hole.
* `late_refusal`: the catch of `subscribe` deletes the topic's entry even when a later subscribe
  put it there (`manager.ts:278`). It, and the first three limits above, also happen when
  everything the server sends arrives in order.

## Proofs

Eight modules, each extending the component it is about. The assumptions on constants are those
the components declare; every run that uses a component evaluates them.

`BackplaneProofs`, for any topics, sinks, callers and bound: `BPTypeOK`, `EveryStampUsedOnce`,
`AcceptedIsCommitted`, `ArrivesInStampOrder`, `AnswerIsReliable`. None is inductive:
`EveryStampUsedOnce` says nothing about the order in progress. `BPInv` adds that the order in
progress is the one after the counter (`HeldIsNext`), that everything else in the history is at
or below the counter and the order in progress was taken only if `delivered_any` says so
(`HistoryBounded`), and that `delivered_any` has a witness (`DeliveredSomewhere`). The two
action properties follow from `BPInv` and one step.

`RelayProofs`, for any queue depth on top of that: `RelayImplements` (the refinement of
`AtMostOnce`), `RelayAccounts`, `RelayStampsUsedOnce`. `RelayInv` says that what is queued and
held is the last stretch of what was acknowledged (`QueueIsSuffix`), that what came before is
stamped or dropped, never both (`SettledIsPrefix`), and that the worker is at the backplane only
while it publishes, and once (`WorkerAtLocal`). Order and at-most-once of the abstract module
follow: the note being stamped is above everything settled. `RelayBackplaneStep` carries `BPInv` over.

`RegistryProofs`, for any nodes, connections, subscribers, topics, capacity and policy:

* `TypeCorrect`: `TypeOK`, action by action.
* `RegistryStampsUsedOnce`: each registry step is a backplane step or leaves the backplane alone
  (the backplane may also reserve without the bound), so `BPInv` carries over.
* `QuiesceReachesEveryone`, `QuiesceIsAllOrNothing`: what a returned quiesce signaled is its
  snapshot. `CompletionInv` adds that `draining` is set from quiesce's first step on, that a
  subscriber is a member on its own node, and that from the snapshot on nobody is registered who
  is not in it.
* `EndIsLast`: `EndInv` says per lane that an unsignaled lane holds no end, an end is the last
  frame of the queue or of what was emitted, and is emitted only from a queue that is then empty.
  Its step uses `CompletionInv`: a node that accepts an update is not draining, so none of its
  members is `finished`.

`MapsProofs`: `RegistryMapsAgree`. `MapsInv` states that the topic lists of the connections
determine the subscriber maps, and these the members: each map is related to the one before it,
so that a removal is followed map by map.

`CommandsProofs`: `StandingKept`, for any connections, command slots, identities, forbidden pairs
and quota (the six topic shapes are fixed). `CommandsInv` says that a connection keeps its identity while it is
served, that a command's standing is that identity, and that what is not served has no command
in progress; so an authorization is still true when the registration comes.

`ServeProofs`: `DispatchSound`, `HandlerKept`. `ServeInv` says that both layers hold the same mode,
the slot is the latest accepted handler and is for that mode, and exactly that mode has a loop.

`SessionProofs`: `RacesLeaveNothing`, `AbortCloses`. `SessionInv` adds to the property that a call
that was not made has no result.

`PaywallProofs`: `PaidExactly`, for any dials, payments, ceilings and credits. `PayInv` adds what a
dial that has loaded the wallet's balance knows: the payments made before the load bound what it
lost and paid, and a balance that changed since was changed by a payment. That makes
`LosesOnlyToPayments` inductive across the load and the exchange.

Only model-checked: all liveness (the prover has no rule for fairness); `AsnCodec`, whose
definitions recurse over types; the subscription manager with its gate and channel; `LaneOrders`,
`DropAccounting` and `FlushedMeansEndsLeft`; `Streams`, `Framing`, `Server`, `Work` and
`Frames`.

## Not modelled

* Cryptography (`crypto.ts`, key material, certificates) calls platform libraries and has no state
  of its own; `Frames` and `Work` have what a digest, a seal and a signature cover.
* `release.sh`, `stack.sh` and `verify-release-tag.sh` drive cargo, npm, git and docker. What a step
  does to those services is not in this repository, and a model would be one of guesses.
* The codec emitter (`emit.rs` and its command): it filters the lines of one declaration file and
  writes one file, with no state between runs.
* Parsers and shape checks of single fields (`frame.ts`, `envelope.ts`, `errors.ts`), getters, the
  profile wrappers (`profile.rs`) and the handing over of a `FrameView`'s fields: one value in, one
  value out.
* Parsing of the paywall's authorization token; configuration of the listener; environment
  variables and identities of the demo servers.
* `topic.ts` repeats the rules of `topic.rs` and is not modelled separately. `publish` of the
  manager sends one command and changes no state. The methods of the TypeScript client other
  than the serve claim forward to the wasm client.
* The cluster gateway, the hive, the mux and the transport handshake are libraries.
* Server and client are checked against each other's contract, not as one state space: `Manager`
  has the answers and the lanes of a server that may do anything `Commands` and `Registry` allow.
