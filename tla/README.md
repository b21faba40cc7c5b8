# A verification model of the ContextVM SDK (Rust)

The crate carries MCP (JSON-RPC 2.0) over Nostr: a server transport turns events
addressed to its key into requests and publishes the answers, a client transport
publishes requests and correlates what comes back, and servers announce themselves in
public events that clients discover. The modules here model all of that, TLC checks
them on small instances, and TLAPS proves their safety properties for all instances.

Paths below are relative to `src/src/`; line numbers are those of the modelled commit.

## 1. Inventory

| Component | State | Operations | What is hard | What makes it correct |
|---|---|---|---|---|
| Server transport `transport/server.rs` | `sessions` (client -> form, activity, pending ids, progress tokens), `event_to_client`, the unbounded channel to the consumer, `base.is_connected`; tasks spawned by `start` | `start`, `close`, `send_response`, `event_loop`, `cleanup_sessions` | three kinds of task on two `RwLock`s, one guard held across an await, everything else re-read after awaits; expiry and cancellation between steps; a bounded receiver | requests stay answerable; answers keep client, id and form; the maps agree; nobody waits for ever |
| Server notifications `server.rs` 225-277 | none (reads `sessions`) | `send_notification`, `broadcast_notification` | a snapshot of clients, then one send after the other while sessions come and go | whom a broadcast reaches, in which form; a failed send does not end it |
| Server announcements `server.rs` 286-392 | none | `announce`, four `publish_*` lists, `delete_announcements` | five publishes in a row that can stop in the middle | success means that all were accepted |
| Discovery `discovery/mod.rs` | none | `discover_servers`, four lists | relays that are behind, or got versions in another order; seconds as timestamps | nothing older than what its relays hold |
| Client transport `transport/client.rs` | `pending_requests`, channel to the application | `start`, `close`, `send`, `event_loop` | the id is registered after the publish; check and removal are separate; two event ids per encrypted message | only solicited answers come through, one per request, and none is lost |
| Gateway `gateway/mod.rs`, proxy `proxy/mod.rs` | `is_running`, a receiver that can be taken once | `start`, `stop`, `is_active`, pass-through calls | `start` can fail before and after it has set `is_running`; loops outlive `stop` | inactive means closed; one loop until it is stopped; a started gateway has a reader |
| Base transport `transport/base.rs` | `is_connected` | `connect`, `disconnect`, `subscribe_for_pubkey`, `send_mcp_message`, `should_encrypt` | publish outcome is uncertain; start can fail half-way | policy table; the id it returns |
| Relay pool `relay/mod.rs` | nostr-sdk client | connect, disconnect, publish, subscribe | broadcast receiver of bounded capacity, `Lagged` | - (outside) |
| Authorization, encryption gate `server.rs` 396-416, 432-516 | none | one predicate each | wildcard exclusions, always-allowed methods | part of the transport's properties |
| Encryption `encryption/mod.rs` | none | gift wrap, unwrap | - | a wrap has an id of its own and yields the event inside |
| JSON-RPC types, serializers, validation `core/` | none | untagged (de)serialization | order of variants | classification |
| Constants, errors, signer, examples | none | - | - | - |

**Interaction.** `NostrMCPGateway` owns a server transport, `NostrMCPProxy` a client
transport. Each transport owns a `BaseTransport`, and through it the relay pool.
`start` subscribes and spawns tasks that hold clones of the `Arc`s; the tasks get events from
nostr-sdk's broadcast channel and hand messages on through an unbounded mpsc channel.
The application answers with `send_response`, which takes `&self`: several calls can be
in progress. `start` and `close` take `&mut self`, so no call overlaps them - but the
spawned tasks do, and nothing ever stops these.

## 2. Modules

| Module | Models | Builds on |
|---|---|---|
| `TransportPolicy` | pure decisions: authorization, encryption gate, `should_encrypt` | |
| `RelayFeed` | the broadcast receiver: a bounded queue that drops its oldest element | |
| `ServerTransport` | event loops, cleanups, `send_response` calls, `start`, `close` | both above |
| `RequestService` | *abstract*: a service that opens requests, replies, forgets what is done | |
| `ServerNotifications` | single notifications and broadcasts over the server's sessions | `ServerTransport` |
| `Lifecycle` | the flag and the receiver that gateway and proxy add | |
| `Gateway` | a server transport started and stopped through a `Lifecycle` | `ServerTransport` |
| `ClientTransport` | `send` calls, event loops, `start`, `close` | `TransportPolicy`, `RelayFeed` |
| `Proxy` | a client transport started and stopped through a `Lifecycle` | `ClientTransport` |
| `RpcExchange` | *abstract*: executed at most once, at most one answer, from who executed it | |
| `Exchange` | one client and one server transport over the relays | `ServerTransport`, `INSTANCE ClientTransport` |
| `Announcements` | publishing, deleting and discovering, over relays that keep replaceable events | |
| `MC*` | traffic for model checking | |
| `*_proofs`, `ServerTransport_traffic` | theorems | |

### ServerTransport

A step is the code between two awaits at which another task can run. `tokio::sync::RwLock`
guards that live across an await are the variable `lock`; others live inside one step and only
need the lock to be `Free`.

| Code | Actions |
|---|---|
| `event_loop` | `LoopSubscribe` (427), `LoopRecv` (429-516: gate, unwrap, parse, authorize), `LoopTrack` (519-531, takes the sessions guard), `LoopMap` (532-535, second lock inside the first), `LoopFinish` (537-561, drops it), `LoopForward` (564), `LoopLag` (the `while let` ends) |
| `cleanup_sessions` | `CleanAcquire` (579), `CleanExpire` (580-600) |
| `send_response` | `CallLookup` (167-172), `CallSession` (174-189), `CallPublish` (199-207), `CallForget` (210-218), `CallUnmap` (220), `Cancel` (future dropped) |
| `start`, `close` | `Start`, `StartFails`, `Close`, `CloseSessions`, `CloseMap` |
| outside | `Deliver` (relay pool emits a wire), `Tick` (time passes) |

A *wire* is the outer Nostr event; `Inner`, `Author` and `Message` say which event id, public key and content
the loop reads from it. For a plain message these are those of the outer event, which nostr-sdk has verified. For a gift wrap
they come from the JSON inside (`server.rs:450-456`), and the code compares none of them with another or with a
signature. So nothing in the model ties an event id to one author or one content: several wires can carry one event, and
a request of another client can bear an id that is already mapped, whose entry in `event_to_client` it then takes over
(`server.rs:532-535`). What the server promises is stated about the client an event *names*; a property about who
signed it would be about a check the code does not make (the client likewise, `client.rs:195-198` and 217).

`last_activity` is an age in ticks, capped one above the timeout, which is as far as
the code can tell. In `pending_requests` a key is an event id or a progress token, as in the code, and
the two are assumed to be different strings. `send_response` is modelled with responses; the code also
lets a caller pass a notification, whose id it leaves alone. Decryption that fails and events that do
not parse are the same `continue`: a message of kind `"invalid"`.

`forwarded` counts what entered the channel, `outbox` collects what reached a relay. `owed`, `acked`
and `lapsed` are history variables that no guard reads: requests accepted and not yet answered,
expired or closed; events some call published with `Ok`; events swept with their session.

### ServerNotifications, Gateway, Proxy

| Code | Actions |
|---|---|
| `send_notification` (226-259) | `Notify` (the call), `NoteSession` (the read of `sessions`), `NotePublish` |
| `broadcast_notification` (262-277) | `Broadcast` (the snapshot), then `NoteSession` and `NotePublish` once per client: `Turn` picks the next in any order (a `HashMap` has none), `Rest` goes on whether the send succeeded or not |
| gateway and proxy `start` | `GatewayStart`/`ProxyStart` (transport started, `Activate`), `...StartFails` (the transport connected and then failed), `...StartRefused` (running already, or nothing opened) |
| gateway and proxy `stop` | `GatewayStop`, whose steps are those of `close`; the flag is reset with the last one. `ProxyStop` in one step |

These modules let every step of the transport they extend happen as it is, and only add calls or
restrict when `start` and `close` may be called. That is why what is proved of a transport is true of
them (section 5).

### ClientTransport

`send` is `SendLocal` (stateless emulation, 115-128), `SendPublish` (130-134) and `SendRegister`
(136-139); the loop is `LoopRecv` (180-220), `LoopCheck` (223-234) and `LoopDeliver` (236-239). A
message that is encrypted has two ids, `SignedId` and `WrapId`; an answer refers to the signed one.
The public key that `FromServer` looks at is the one the message names.
The loop reads gift wraps and plain events alike in every mode (its `_encryption_mode` parameter, 176,
is unused), so a wire does not say which it is.

### Exchange

The two transports keep their own actions. What couples them are the relays: a wire can arrive at the server only
if the client's `send` got it out (`Carried`), an answer at the client only if it is in the server's
`outbox` (`CarriedBack`). The server's constants `Wires`, `Inner`, `Author`, `Message` are made of
what the client publishes, so the two sides agree on what an id is, and there is no third party: who else may name one of the
two keys is left to the modules of each side. A response that is sent again after a failed publish is
another Nostr event with the same content: `Copies` bounds how many.

### Announcements

| Code | Actions |
|---|---|
| `announce`, `publish_tools`, ... (287-375) | `Publish`: the event is signed with the time of the call and handed to the pool |
| `delete_announcements` (378-392) | `DeleteStart`, one `DeleteStep` per kind; the first failure returns (`?`) |
| `discover_servers`, `discover_tools`, ... and `fetch_list` (`discovery/mod.rs`) | `Ask` (the filter), `Answer` (one relay), `ReturnServers` (65-79) and `ReturnList` (140-154), `FetchFails` (`fetch_events` returns an error) |
| outside | `Reach` (an event reaches a relay, which keeps the latest of author and kind), `Second` |

The content of an announcement is a version number together with the JSON key it is stored under and looked for;
`PublishedKey` and `DiscoveredKey` are read off the two files separately.

## 3. What the runs check

| Run | Instance | Distinct states, about | Shows |
|---|---|---|---|
| `Requests` | 2 clients; requests `w1`,`w2` of one (wrapped, same token), `w3` of the other (plain, same event id as `w1`, same JSON-RPC id as `w2`); 1 caller, receiver of 2, timeout 0, calls can be dropped | 1 030 000 | `Answerable`, `ResponseRouting`, `TokensFollowRequest`, `MirrorsUniformClient`; `ImplementsService`: the whole is a `RequestService` |
| `Notifications` | 2 clients that initialize (one wrapped), a further request of the first, 1 caller of notifications, timeout 0 | 328 000 | `BroadcastOnlyInitialized`, `NoticesMirrorUniformClient`, `BroadcastGoesOn` |
| `Restarts` | a gateway, 2 loops, 2 callers (symmetric), one request in two gift wraps | 1 310 000 | `Answerable`, `MappedIsTracked`, `PublishesRestoredId`, `ForgetsOnlyAnswered` across restarts; `InactiveIsClosed`, `OnceUntilStopped`; `HoldersProceed`: the tasks of both starts never wait for each other |
| `Tasks` | `Required`, allow list and exclusion, receiver of 1, fairness | 14 000 | `EveryAdmittedForwarded`, `CallsReturn`, `ExpiredSessionsGo`; `NothingVanishes`: no step drops a message that may be served |
| `Client` | a stateless proxy, 3 sends, 2 loops (a stop and a second start), 2 answers, one broken message and one that names another key, receiver of 1, fairness | 128 000 | `OnlySolicited`, `AnsweredOnceUntilStopped`, `OncePerLoop`, `PendingUntilAnswered`, `PendingAnswered` |
| `Exchange` | 1 request, 2 callers (symmetric), 2 copies of the answer, expiry and close on either side | 195 000 | `AnswerHasCause`: an answer that is handed on goes back to a request that was sent and executed; `ImplementsRpc`: the composition is an `RpcExchange` |
| `Announcements` | 2 servers, of which one deletes, 2 relays (symmetric), 2 versions, 2 seconds; the lists of both are discovered | 1 190 000 | `DiscoveryFresh`, `DeletedCoversAllKinds` |

**What they say.** `Answerable`: for every event id that was accepted and is owed an answer, `send_response`
finds the client that is mapped, that client has a session, and in it stands an id under which that client asked. When two
clients bear the same id the later one has it, and the promise is about that one. `ResponseRouting`: what is published goes
to a client that asked under the event id, with a JSON-RPC id of that client's request or the application's own; a call that
read one client and was overtaken by another may not mix the two. `TokensFollowRequest` is about events that name one token
(`OneToken`): if a client sends one event id with two tokens, the session remembers the second and the entry of
the first stays until the session ends. `OnlySolicited`: whatever is handed to the client's application as an answer has a
`send` that has returned `Ok` and registered the id. `OncePerLoop`: an id is used up at most once per loop that was
ever spawned; with one loop that is `AnsweredOnceUntilStopped`, with the loop of an earlier start it is the most that check
and removal in two sections give.

**Bounds.** Two clients are needed for misrouting, two requests of one client for token reuse and for
"answering one forgets the other", two wires of one event for replays, two callers for the race between
the clean-up sections, two loops for a restart; nothing in the code compares three of anything. A broadcast needs
two clients that initialize, so that somebody is left after the first; the third wire creates a session
anew, not initialized, when the first one expired under a broadcast or before it. A timeout of 0 ticks
makes a session expire after one tick, so expiry falls between any two steps. A
receiver of one or two is overrun in every instance where its capacity is smaller than the number of
wires. `Loops` bounds the number of `start()` calls that succeed. `Client` has two, so that `AnsweredOnceUntilStopped` is
checked where it matters: without `~stopped` TLC finds two loops that pass the check of one id. The `forwarded` and `delivered`
counters are bounded by the number of wires and loops, and sets only grow up to the traffic. The client's passing runs use
`Disabled`, the only mode in which an id it registers is one an answer can refer to (`ClientWraps` below); in
the others every correlated message is dropped and the properties would hold vacuously. In
`Announcements` two versions, two relays and two different seconds are what it takes for one relay to be behind
the other and for two versions to be told apart, or not, by their timestamps.

`CHECK_DEADLOCK FALSE` everywhere: a system that has used up its traffic, whose receivers lagged and
that nobody calls has stopped legitimately; waiting for locks is the subject of the liveness
properties instead. Symmetry is used only in runs without liveness.

**Where the text and the code disagree.** Five runs end in a counterexample:

- `MirrorMode`: `types.rs:16` promises that a response is encrypted when its request was. The form is kept per
  session and overwritten by every message (`server.rs:524`). What does hold is
  `MirrorsUniformClient`: a client that never changes form gets its own form.
- `GatewayRestart`: `start` after `stop` opens the transport, sets `is_running` and then returns an error,
  because the receiver was taken by the first `start`; the gateway is active and nobody reads its requests. The
  loop of the first `start` still runs, so each message then enters the channel twice: that is why `OnceUntilStopped`
  ends with the first stop. `Restarts` shows that no request gets lost by it.
- `ClientWraps`: the comment at `server.rs:448` says the client registers the inner event id; it
  registers the id `send_mcp_message` returns, which for a gift wrap is the outer one.
- `ClientEarly`: `send` registers the id after the publish; a response that is processed before is dropped.
- `ClientProgress`: a notification correlated to a request uses its pending id up, and the response that
  follows is dropped.

**Observed in `Announcements`, not a run of its own.** `DESIGN.md:292` says of `delete_announcements` "After deletion,
discovery returns empty". The requests it publishes carry one `k` tag each and no `e` or `a` tag (`server.rs:383-389`), so they name no
event a relay could delete: in the model, which discovers the lists of the server that deletes, a discovery after an `Ok` still
finds what was published. What `Ok` does mean is `DeletedCoversAllKinds`.

**Refinements.** `RequestService` is what the application of a server relies on: a request is known by its client and its event id, it
is open or done, a reply goes to a client that asked under that event, and has an id of such a request unless the event is done. The mapping
takes `open` from the pending ids of the sessions, as pairs of client and event, `done` from the history and `replies` from `outbox`; loops, locks and calls
disappear. `RpcExchange` is what two applications rely on: `executed` counts forwarded wires of a
request, `received` counts the answers delivered for it; an answer needs an execution and at most one of each takes place.

## 4. Fairness

Weak fairness for every step of a spawned task and of a call in progress: the runtime polls them, the
cleanup's interval fires again and again, and a publish ends (nostr-sdk gives up waiting for relays).
Strong fairness for steps that take a lock: tokio's `RwLock` queues waiters first-in first-out, so one
that waits gets it although others take it in between. Nothing obliges the application to answer, start,
close or cancel, the relays to deliver, or time to pass. On the client no guard lives
across an await, so weak fairness suffices. `EveryAdmittedForwarded` and `PendingAnswered` exempt a
receiver that was overrun: its loop ends (`LoopLag`), which is what the code does. Discovery ends by a timeout
the model does not need: `ReturnServers` and `ReturnList` are enabled with whatever has answered.

## 5. Proofs

All theorems are for arbitrary sets of clients, events, tokens, wires, loops, calls, relays and versions, and
for all capacities, timeouts and modes. Every invariant and action property of a passing run is
proved. They rest on the named assumptions of the modules: tokens and event ids differ, an absent value is
none of the values, every wire names an event and an author, a request has an id, capacity is positive,
publishers are servers.

**`ServerTransport_proofs`** (`TypeCorrect`, `AnswerableTheorem`, `RoutingTheorem`, `MappedTheorem`,
`TokensTheorem`, `RestoredTheorem`, `ForgetsTheorem`). No invariant is inductive alone. The inductive one, `IInv`, adds

- `Base`: the types of what the rest quotes; the wire a loop works on has arrived and was admitted (`Received`).
- `Locks`: between `LoopTrack` and `LoopFinish` the loop holds the sessions lock, and a cleanup that has
  acquired holds it too; nobody holds `event_to_client` across a step. `Exclusion` follows: no two tasks are
  in such a section.
- `Work`: a loop in such a section has a session for the client its wire names, and the request is tracked in it.
- `Mapping` and `Calls`: an event is mapped to a client that asked under it, or to nobody; a call in progress carries such
  a client, and excludes `close`. Which client that is may change between two sections of a call.
- `Contents`: what the entries of a session may be, by `Sound` over the wires that have arrived - an event's entry is an id
  under which this client asked, a token's entry points to an event this client sent with it, and the event back to it.
- `CallHistory`: a call that has read "no pending id" is about an event that was answered or lapsed, and one
  that has published has its event in `acked`.
- `Owed`: for an owed event the client that is mapped has a session that tracks it.

Each part has a lemma that every step preserves it, by cases on the actions; operators on sessions
(`Touched`, `Finished`, `Forgotten`) have lemmas of their own that say which fields they change.

**`ServerTransport_traffic`**, in five parts:

- *Flow* (`FlowInductive`, `ForwardedOnceTheorem`): in a behaviour with `[]Single` - at most one `start()` ever
  succeeds, however many loops the constants allow - a message is in one place at a time - not arrived,
  queued once, in the loop's hands, or forwarded - which needs that pushing and popping a bounded queue never duplicates an
  element (`RelayFeed_proofs`).
- *Provenance* (`MirrorsTheorem`): a session's form and its `is_initialized` come from a message of that client that
  arrived and was admitted, and a call's form comes from a session; so a client that never changes form is
  answered in it.
- `ServiceRefinement`: the initial state maps to an initial state, and under `IInv` every action maps to a step of
  `RequestService` or none: `LoopTrack` to `Accept`, `CallPublish` to `Answer`, `CallForget` to `Forget`, `CleanExpire`
  to `Expire`, `CloseSessions` to `Close`. `GainStep` says that nothing but `LoopTrack` opens a pair of client and event, `OpenPairs` and
  `SamePairs` what each operator on sessions does to the pairs.
- *Caused* (`CausedInductive`): a call is about a request the application was handed, which arrived; and what is in
  `outbox` carries an id its client asked under unless the event was settled.
- *What liveness rests on*: `ProceedTheorem` - whoever holds a guard across an await can take its next step, because
  the only guard kept while waiting is `sessions` (`Locks`) and its holder is where it holds it (`GuardsHeld`); and
  `VanishTheorem` - a message that may be served leaves the receiver and the loop only to be forwarded (`Resting`,
  and `TailKeeps`, `PushKeeps` of `RelayFeed_proofs`). They are the parts of `CallsReturn` and
  `EveryAdmittedForwarded` that need no fairness, proved for any number of loops.

**`Gateway_proofs`**: `GSpec => Spec`, since every gateway step is a transport step or leaves the transport alone, so
the safety of requests (`GatewaySafe`) and the refinement (`GatewayService`) carry over; `InactiveTheorem`, by `Flag`: a close in progress has disconnected; and
`OnceTheorem`, by `Guarded`: until the first stop there is *Flow* and at most one loop, because while the flag is
not set no loop was spawned.

**`ServerNotifications_proofs`**: `NSpec => Spec`; the snapshot holds only clients that were
initialized by an admitted message (*Provenance*), and what a broadcast still has to do shrinks only by a turn.

**`ClientTransport_proofs`** (`SolicitedTheorem`, `PendingTheorem`, `PerLoopTheorem`, `AnsweredOnceTheorem`, and through `PSpec => Spec` the
proxy). `Correlated`: a loop that is about to deliver holds a message whose tag was registered by a send that has returned, and an id leaves
`pending` only with a delivery; for any number of loops. Exactly one delivery per id needs `Single`, at most one loop
that was ever spawned: then `Linear` says a wire is queued, current or delivered, once, and `Exact` that an id is used
up by one delivery, since nobody removes it between check and delivery, and a `send` registers an id once.
`PerLoopTheorem` counts: `Bounded` says that the uses of an id and the loops that are about to make one are together no
more than the loops ever spawned, since a loop passes the check only while there was no use. `AnsweredOnceTheorem` has `[]Single` as its hypothesis; `ProxyAnsweredOnce` derives `Single` from the flag: until the first
stop no loop exists while `is_running` is not set (`Guarded`). With two loops it is false: both can pass the check.

**`Exchange_proofs`**. `ExchangeIsServer` and `ExchangeIsClient` make every invariant above one of the composition;
the client's side through `CP`, an instance of `ClientTransport_proofs` whose assumptions `ClientAssumption` discharges.
`Linked` says that the relays invent nothing. `CauseTheorem` follows the chain backwards, for any number of
loops on either side: delivered at the client, arrived there, in the server's `outbox`, hence known to its application
(`Caused`), hence arrived at the server, hence published by the client. `RpcRefinement` has `Single` on either side as its hypothesis:
`LoopForward` maps to `Execute`, which needs that a request travels under one of its two ids and each is forwarded once
(`ExecutedOnce`, from `Flow`); `CallPublish` to `Answer`, `CleanExpire` to `Lapse`, the client's `SendPublish` to `Ask`
and `LoopDeliver` to `Receive`, which needs `Exact`: an earlier answer would have used the id up. `RpcOnceEach` is what
that gives the two applications.

**`Announcements_proofs`**: `Deleting` - at position *i* the requests of all kinds before *i* were accepted;
`Versioned` - versions of one list are signed in order of time, so the latest `created_at` has the highest
version but for ties; `Seeing` - a query sees only signed events that match its filter.

**Only model-checked**: the liveness properties (`EveryAdmittedForwarded`, `CallsReturn`, `ExpiredSessionsGo`,
`PendingAnswered`), which are outside the prover's reach. Every other property of a passing run is proved. The hypothesis
`[]Single` of `ForwardedOnceTheorem`, `AnsweredOnceTheorem` and `RpcRefinement` is what gateway and proxy guarantee until
their first stop (`OnceTheorem`, `ProxyAnsweredOnce`); for a transport used directly it is what its user has to keep.

## 6. Not modelled

- **Cryptography, relays, nostr-sdk, tokio** are external: their effect is `Deliver`, `Reach`, the outcome of a
  publish, `RelayFeed`, and `lock`. Of encryption the models use what it does to identities. Reconnecting to
  relays is nostr-sdk's.
- **JSON-RPC classification and serde** (`core/types.rs`, `core/serializers.rs`): a message is a record whose
  kind is the variant the parse chose, or that it failed. The choice is serde's, by the order of the variants and
  the fields present; there is no state. `core/validation.rs` is not called by the loops, and `convert_event_to_mcp` by nobody.
- **Futures that are dropped**, apart from `send_response` (`Cancel`) and a `start` that stops after it has
  connected (`StartFails`): a notification that is dropped is one that takes no further step.
- **What a relay does with a deletion request**: the requests of `delete_announcements` carry only `k` tags, so
  they name no event; what is checked is what the call reports.
- **Signatures of inner events**: the code does not check them, so the models do not assume them (section 2).
- **Relays that replay gift wraps to a fresh process**: each wire comes once, because nostr-sdk drops an
  event id it has seen; a repetition is a second wire of the same event.
- Declarations without behaviour (errors, constants other than the announcement kinds, signer utilities) and the examples.

Observed while reading and not turned into runs: the client accepts plaintext in `Required` mode (`client.rs:176`
ignores the mode); the `timeout` of its configuration is read by nothing; notifications sent by the client stay in
`pending_requests`; `Lagged` ends either event loop silently (`server.rs:429`, `client.rs:180`).

## 7. Plan

Done: the server with its proofs and refinement, notifications, gateway and proxy, the client with its proofs, the
composition with its proofs, announcements and discovery with their proofs. Left:

1. `RpcExchange` for a gateway and a proxy until the first stop of either, from `OnceTheorem` and
   `ProxyAnsweredOnce` in place of the hypothesis `[]Single`.
2. Classification of JSON-RPC values as an operator over the fields that are present, against a reference.

Running: `tlc -config Requests.cfg MCServerTransport.tla`, `tlapm ServerTransport_proofs.tla`. The configurations
are named after the runs in `PROJECT.json`, which gives the module of each.
