# Formal model of meshcore-mqtt-broker

TLA+ modules, TLC configurations and TLAPS proofs for the Rust MQTT broker in
`src/`.  Line numbers refer to files under `src/src/` unless a path is given.

## 1. The system

The broker embeds the RMQTT library and adds its own rules through hooks.
Observers (devices, authenticated by a signed token naming their public key)
publish; subscriber accounts (roles *limited*, *full*, *admin*) listen.  An
accepted publish is routed to subscribers and offered to two integrations.

| Part | State | Operations |
|---|---|---|
| Status guard (`mqtt/broker/status_guard.rs`) | newest accepted device timestamp per key, insertion order, last sweep | `accept_status`: sweep, refuse if older, record, evict |
| Authentication (`mqtt/auth/`) | key -> owning connection; account -> connections | authenticate, `is_owner`, release |
| Session hooks (`mqtt/broker/hooks.rs`, `notifications.rs`) | key -> session to kick; delayed closes | ClientAuthenticate, ClientDisconnected, SessionTerminated, delayed close |
| Policy (`mqtt/policy/`) | none | publish, subscribe and delivery decisions, payload projection |
| Router and notices (`mqtt/broker/router.rs`, `notifications.rs`, `heartbeat.rs`) | RMQTT's subscription table | match, deny with a notice, heartbeat |
| Publish hooks (`mqtt/broker/hooks.rs`) | none of their own | MessagePublishCheckAcl, then MessagePublish (or the will) |
| Retained store (`mqtt/broker/retained.rs`) | topic -> value, expiry index | set, clear, get, count |
| Target bridge (`target_mqtt/`) | bounded queue, `pending`, counters, write tracker, connection flag | offer, worker, event loop, stop |
| MeshCore.io ingress (`meshcore_io/runtime.rs`) | ingress rows, dedup table, radio table | offer, claim, process, retry, sweep, stop |
| MeshCore.io uploads (`meshcore_io/runtime.rs`, `queue.rs`) | jobs, node table, counters | admit, claim, post, retry, finish, sweep, stop |
| MeshCore.io poster (`meshcore_io/poster.rs`, `signing.rs`) | none | check, send, read at most 64 KiB, classify |
| Configuration (`config/`) | none; its result is immutable | `discover`, `load` from YAML and environment |
| JWT (`mqtt/auth/jwt.rs`) | none | `verify_token` |
| Frontend (`frontend/`) | per connection: what the frame copier has open | dispatch, source address, upgrade, copy, `/status`, healthcheck |
| Process (`main.rs`) | tasks, permits, sessions, hooks, delayed closes | start, accept loop, shutdown |
| Codecs (`meshcore_io/advert.rs`, `radio.rs`), error texts | none | see section 7 |

How they meet: RMQTT calls the hooks of different connections on different
tokio workers; each table has its own mutex, so a hook is several critical
sections and other hooks run in between.  MessagePublish offers the message to
the bridge and to the ingress without waiting for either.  The bridge's worker
and rumqttc's event loop share the write tracker.  The ingress loop, the upload
workers and the cleanup share one state mutex but release it between a claim
and its result.  A client reaches RMQTT through a frontend task, one per
connection, that holds a permit, speaks HTTP and then copies frames.  `main`
starts everything, serves, and stops the parts one after the other while hooks,
sessions and tasks may still run.

What is hard here: state read under one lock and used under another; two
connections of one key; hooks that run twice; clocks read before a lock;
timeouts whose request is still under way; connection loss between a request
and its event; shutdown notifications that wake only those already waiting;
shutdown steps that are given up after a timeout; settings from several sources;
and tables that must be changed in pairs.  `PROJECT.json` lists each of them at its
line under `hazards`.

## 2. Modules

| Module | Models | Notes |
|---|---|---|
| `StatusGuard` | the status guard | one action per call; the caller's clock reading is a parameter that may lag |
| `ObserverSessions` | authentication, ownership, sessions, places, delayed close | one action per critical section; `pc` is the point a connection's hook has reached |
| `Policy` | the decision functions | operators only |
| `Tokens` | `authenticate` for an observer, `verify_token` | operators only, on `Policy`'s chain of checks: the first that fails decides |
| `Routing` | logins, subscription table, matching, notices, heartbeat, replay of retained messages | uses `Policy` and `Tokens`; `delivered` and `answered` are what the last operation sent, `replayed` tells a replay from live traffic |
| `PublishPipeline` | the two publish hooks and the will | composes `ObserverSessions` (EXTENDS) and `StatusGuard` (INSTANCE) |
| `RetainedStore` | the retained store | a reader's clock reading and its lock are two steps |
| `TargetBridge` | bridge, worker, event loop, stop | refines `AtMostOnceFifo` |
| `AtMostOnceFifo` | abstract promise | accepted messages are written at most once, in order, and may be lost |
| `Ingress` | ingress half of the MeshCore.io runtime | the answer of `admit_job` is a choice; queue, dedup table and radio table are sets, ordered by row ids and by the places at which entries were inserted |
| `Poster` | one post: radio check, exchange, classification | operators only |
| `UploadQueue` | upload half of it | an HTTP exchange is a choice; `Poster` says what it means |
| `Config` | `Config::discover` and `load` | operators only; a document and an environment to a configuration or `Refused` |
| `Frontend` | the frontend's decisions on a request, a forwarded chain, a frame | operators only |
| `Process` | `main.rs` | composes `Config` and `Frontend`: one action per step of `main`, of a connection task, of a session, of a hook |
| `StatusGuard_proofs`, `Sessions_proofs`, `Routing_proofs`, `RetainedStore_proofs`, `TargetBridge_proofs`, `Ingress_proofs`, `UploadQueue_proofs`, `Process_proofs` | theorems | each extends the module it is named after, `Sessions_proofs` the module `PublishPipeline` and with it `ObserverSessions`; section 6 |
| `MC*` | model-checking instances | constants only |

Variables carry the names of the fields they stand for (`owner` for
`ObserverOwnership.owners`, `pending`, `node_state`, ...); `map` in
`PROJECT.json` gives the lines of every definition.  Variables marked *history*
in their declaration record the past for a property and guard no action.
Operators named for a defect and standing directly before a definition
(`NeverStale` before `IsStale`) are its mutants: replacing the definition by the
mutant must make TLC report the property it is listed with.

How `Process` corresponds to the code: `pc` is where `run_broker` stands, one
value per await or per group of steps without one.  `config` holds the loaded
configuration while it is used for starting, then only what a frontend task needs
is kept (`frontend`).  `conn[c].at` is the await a connection task is in: reading
the header, writing an answer, waiting for RMQTT's answer, copying.  `free` is the
semaphore.  `closes[c]` is a delayed close task: `listed` in the notifier's list,
`aborted` by `stop`, or `stray` when a hook spawned it after `stop` had taken the
list.  Sessions and hooks start and end as RMQTT decides.

### Abstractions

* **Connections.** An id names one network connection.  In `ObserverSessions`
  token and password checks are a choice between refusal and acceptance.  RMQTT's `kick` closes a
  session it has registered and does nothing for one still in CONNECT.
* **Messages.** Topics are sequences of levels with case variants kept apart;
  payloads are a size, a form, an origin, their keys, whether `neighbors` is an
  array, and the keys of its entries.  In `PublishPipeline` a message is the policy's
  verdict for an owner and for a non-owner and its device timestamp.
* **Replay.** A SUBSCRIBE that is allowed hands over every retained message its
  filter matches.  `Routing` keeps who retained a message; it may expire at any
  moment (`RetainedStore` has the clock).  A client that asks for no replay (MQTT 5
  retain handling, RMQTT's own) receives less than the model's.
* **Time.** A clock that a `Tick` moves; an operation that reads the clock before
  its lock takes its reading as a parameter from the past.  `Ingress` uses one
  clock for wall time and monotonic time (`retry_at`).  `PublishPipeline`
  freezes time, since `StatusGuard` covers ageing.
* **rumqttc.** Its request channel never blocks (it has as many places as the
  bridge has pending messages); an error of an established connection discards
  what the channel holds, one while connecting does not.
* **tokio `Notify`.** `notify_waiters` wakes the tasks waiting at that moment and
  leaves no permit.
* **Texts.** A setting is its value, or `Empty`, `Blank` or `Junk` (does not parse);
  trimming and case folding are functions on the texts of an instance.  A URL, a
  key or a network is the record of the parts the checks look at.  `Unset` is a
  missing key or variable.
* **Tokens.** Whether header, claims and signature decode, their claims, and the
  key the signature verifies under.  Times are integers in a scaled i64 range.
* **HTTP and frames.** A request is its method, path and the two kinds of header
  lines that are looked at; a frame is its kind, fin bit and length.  Addresses
  have two bits in the instance, so that prefixes, both families and the empty prefix
  occur; a mask is the quotient by the weight of the bits it drops.  The
  receiver behind the copier is RFC 6455's (external).
* **Numbers.** `advert_timestamp` saturates at `MaxTimestamp` (u32); other
  integers are far from their limits and are naturals.

## 3. Properties by component

* **Status guard**: types, two indexes that agree, and the capacity, which hold only
  together (`GuardInv`); a key is forgotten only by age or capacity
  (`ForgottenOnlyByAgeOrCapacity`), an accepted timestamp never goes back
  (`AcceptedNeverRegresses`).
* **Sessions**: the newest connection owns its key until it leaves
  (`NewestOwnsUntilItLeaves`); nothing is held for a connection that left
  (`NoOrphans`, and in the end nothing at all: `ClosedIsForgotten`); owner and
  session table agree unless two CONNECTs raced (`OwnerAndSessionAgree`); places
  are the live connections and within the limit (`PlacesAreConnections`).
* **Routing**: an observer hears the broker and admins only, and a replaced one the
  broker only (`ObserverHearsOnlyBrokerAndAdmin`); full and limited subscribers never
  see internal or error traffic and see serial traffic only as a replay of a retained
  message, which section 4 discusses (`PrivateTrafficOnlyByReplay`); limited ones see no
  radio or device field where the code projects (`LimitedSeesNoRestrictedFields`);
  `SenderSpeaksForItself`, live and in a replay; a login is accepted exactly when its token is current in exact arithmetic (`LoginIsCurrent`).
* **Publish hooks**: a replaced connection gets at most one more message out
  (`TakenOverSpeaksAtMostOnce`); a connection's forwarded statuses never go back
  in device time (`ForwardedInOrder`).
* **Retained store**: `IndexMatchesEntries`, `RemainsUntilExpired`,
  `ReadsSeeTheLiveValues`.
* **Target bridge**: places are messages and each offer is counted once
  (`PlacesAndOffersAddUp`), the wire refines the abstract FIFO
  (`DeliversAtMostOnceInOrder`), places always come back (`PlacesComeBack`).
* **Uploads**: a job in processing has one holder (`ProcessingIsHeldByOne`), limits
  hold (`TablesAreBounded`), every job ends once, counted; a
  settled answer is final and a network failure, 408, 429 or 5xx never costs an attempt
  that is left (`JobsEndAsAnswered`, which leaves open what a 3xx or an oversized 2xx
  or 4xx does, see section 4); cooldown ends with the job (`CooldownEndsWithTheJob`), an accepted advert is not uploaded again
  (`NoReuploadOfAccepted`), stop returns (`StopReturns`).
* **Ingress**: the claimed row is not swept (`TablesKeepTheHeldRow`), one acceptance
  per dedup window (`TakenOncePerWindow`), the latest status wins
  (`RadioIsTheNewest`), no row stays for good (`QueueDrainsOrStops`).
* **Process**: a permit is held by exactly one live task (`SlotsAreHeldByTasks`); an
  ordinary exit leaves no task but what a timeout gave up and closes of hooks that
  were running (`ExitLeavesNoTask`); shutdown ends (`ShutdownEnds`) and so does every
  handshake (`HandshakesEnd`).
* **Frontend**: what is copied is a well-formed stream within the limit
  (`WireIsWellFormed`); the source address is vouched for by a chain of trusted hops
  (`SourceIsVouchedFor`).
* **Configuration**: what `load` accepts satisfies the assumptions of the other models
  and is not refused again by the part it configures (`AcceptedConfigIsUsable`).

## 4. Runs

| Run | Instance and why it is enough | Distinct states |
|---|---|---|
| `status_guard` | 3 interchangeable keys for 2 places, 2 timestamps, TTL 3 and sweep 2 within 5 ticks: sweep, eviction and re-insertion all interleave | 66,106 |
| `observer_sessions` | 2 connections of one key, 2 viewers for one place: takeover, double release, delayed close and a full account | 30,564 |
| `routing` | 6 clients of every role, two sharing a key; each topic class in canonical and mixed case; payload sizes on both sides of each limit; payloads with `neighbors` as an array and not, keys in two spellings; one subscription and one retained message at a time, since each property is about one delivery and one relation or one retained message decides it; tokens with every defect, times at both ends of a 5-bit i64 and on both sides of every limit, a key that is no curve point | 192,918 |
| `publish_pipeline` | 2 connections of one key, 2 publishes and a will each, an older and a newer status, both kinds of denial | 508,873 |
| `retained_store` | 2 topics, 2 payloads, periods 0 and 2 and none, one delayed reader, 3 ticks | 107,476 |
| `target_bridge` | 2 offering hooks, 3 offers for 2 places, with and without reconnect | 154,385 |
| `upload_queue` | 3 nodes for 2 queue places and one remembered node, 2 workers, 2 attempts, a node's adverts older than, equal to, inside, at the end of and beyond the re-upload window, with and without saturation, radio parameters valid only after rounding, an exchange for every branch of the poster | 488,466 |
| `ingress` | statuses of two observers for one radio place, an advert, a garbled and an irrelevant message, 3 offers, a clock reading up to one tick old | 832,541 |
| `process` | 3 connections for 2 permits: one with every request, forwarded chain and frame (limit 3, usize 7), one that publishes and is denied, one that stays silent; 2,663 pairs of files and environment, of which 547 are accepted, one group of settings varied at a time | 175,170 |

`process` varies the configuration one group of settings at a time around a plain
document: the groups share no check except through the values of `BaseDoc` (the
listener's port, which the healthcheck URL defaults to, is varied with both).

Deadlock is not checked: clients are free to stay away, `stop` ends the tasks,
the process may exit, and each model's bounds (`MaxTime`, `MaxOffers`, `MaxPublishes`, `MaxJobs`,
`MaxTickets`, `MaxRelations`, `MaxRetained`) end its behaviours.

Three further runs show where the code and its own comments disagree.

* `takeover_race` (`NewestIsNotReplaced`): A and B authenticate for one key, in
  this order; B inserts its session first and registers; A then inserts its own,
  finds B as `previous` and kicks it, although B is the owner.  `RUST.md` 87 says
  the newest connection replaces the older.
* `refused_publish_routed` (`RefusedIsNeverRouted`): a publish passes the ACL hook,
  then the key is taken over (or a newer status is accepted), the second hook
  refuses it and returns no replacement, and RMQTT routes the original
  (`hooks.rs` 347-351, against the comment at 274).
* `callback_mixup` (`OkMeansWritten`): on a connection error the event loop drains
  every registered callback (`connection.rs` 86-89), those of requests still in
  rumqttc's channel included; the requests are written after the reconnect and their
  Outgoing events pop callbacks of later messages, which then report Ok unwritten
  (against the comment at 140).

Observations made while modelling that have no run of their own:

* A replay asks `authorize_subscribe` for the filter and nothing else: `get` selects by
  topic (`retained.rs` 120-131) and the delivery hook only projects (`hooks.rs` 353-369),
  while live traffic also passes `RoleRouter`.  So a full or limited subscriber to
  `meshcore/#` receives a `serial/responses` or `serial/commands` message that its
  sender had retained.  `mqtt/policy/README.md` 28-30 says that the separate visibility
  decision "protects private routes", and `RUST.md` 70-72 that these roles stay
  protected.  Only that exception is in `PrivateTrafficOnlyByReplay`, and
  `PrivateTrafficNeedsReplay` proves that there is no other.
* `RUST.md` 272-273 says that MeshCore.io "retries only transient network, 408/429
  and 5xx failures" (also the repository's `README.md` 111-113 and `meshcore_io/README.md` under
  "Retry model").  The poster also retries a 3xx and any answer longer than 64 KiB, a
  200 or 404 included (`poster.rs` 58-73 and 90-92).
* Two connections of one key may forward their statuses in the other order than the
  guard accepted them: a hook holds no lock between `accept_status` and the offer, and
  the other connection's hook may run in between on another worker (`hooks.rs` 103-127).  `ForwardedInOrder` speaks of one connection.
* `stop` of the bridge sets `stopping` before it closes the queue, so the worker
  answers NotReady for all that is still queued (`forwarding.rs` 174); the comment at
  198 says it "processes every offered message in order before exiting".
* `frontend/README.md` says an upgrade on `/` or `/mqtt` is proxied and other requests
  get 404; `server.rs` 50 proxies an upgrade on any path but `/status`.
* `RUST.md` 233 says of delayed closes "handles are awaited during broker shutdown".
  A hook that is running when the hooks are unregistered may push one after `stop`
  took the list; it is never awaited (`stray` in `Process`).
* `RUST.md` 232 says every task of MeshCore.io is joined by `stop()`; `main` drops that
  future after `SHUTDOWN_STEP_TIMEOUT`.
* When the internal listener does not bind (`main.rs` 94), `main` returns with the
  target, MeshCore.io, the hooks and the heartbeat still running, unlike the failure
  at 66.  The process ends right after, so nothing but an orderly stop is lost.
* The projection for limited subscribers applies to the topics `packets`,
  `neighbors` and `status` themselves; a deeper topic (`packets/x`) passes through
  unprojected.  So do a `neighbors` payload whose field is missing or no array, radio
  fields beside that array, and a status field in other letter case (`delivery.rs`
  56-90).
* A document without a `broker:` section has the empty broker name, one with an empty
  section the name `Broker` (`document.rs` 7 and 144).

## 5. Fairness

Weak fairness is assumed of what tokio schedules: started hooks and delayed
closes (`SessionFairness`), the bridge's offers, worker, event-loop reaction and
stop (`FairBridgeSpec`), the upload workers, including the end of an HTTP request
by its timeout (`FairUploadSpec`), and the ingress loop, cleanup interval and
clock (`FairIngressSpec`).  In `Process` (`FairProcessSpec`) it is assumed of `main`'s
own steps, of the timers (`timed_shutdown`, the header timeouts of both sides), of
aborted tasks, of writing a small HTTP answer, and of the bridge's stop, whose
drain has a deadline (`forwarding.rs` 200-210).  Not of sessions, hooks or MeshCore.io's stop:
`ShutdownEnds` holds although none of them ever finishes.  Nothing is assumed of clients, of the network of the
target (it may never connect, write or fail), or of anyone calling `stop`.

## 6. Proofs

Every theorem holds for every value of the constants that satisfies the named
assumptions of its module; TLC evaluates those on each run.  The runs' bounds
(`MaxTime`, `MaxTickets`, `MaxPublishes`, ...) are arbitrary naturals in the proofs.

| Module | Theorems (property) | Assumptions |
|---|---|---|
| `Sessions_proofs` | `SessionTypeCorrect` (`SessionTypeOK`), `NewestOwns` (`NewestOwnsUntilItLeaves`), `NothingOrphaned` (`NoOrphans`), `MapsAgree` (`OwnerAndSessionAgree`), `PlacesBounded` (`PlacesAreConnections`); `TakenOverIsCutOff` (`TakenOverSpeaksAtMostOnce`), `PipelineImplementsSessions` (`PipelineSpec => SessionSpec`), `TakeoverHoldsInThePipeline` (the three takeover properties, of the pipeline), `ForwardsKeepOrder` (`ForwardedInOrder`) | `SessionAssumption`; for the last four also `MessageAssumption`, `PipelineAssumption`, and for the last that the guard has room for every key |
| `StatusGuard_proofs` | `GuardIsConsistent` (`GuardInv`), `GuardForgetsOnlyByAgeOrCapacity`, `GuardNeverRegresses` (`AcceptedNeverRegresses`) | `GuardAssumption`, `NoRecordAssumption` |
| `Routing_proofs` | `ObserversAreIsolated`, `PrivateTrafficNeedsReplay` (`PrivateTrafficOnlyByReplay`), `LimitedIsProjected`, `SendersSpeakForThemselves`, `LoginsAreCurrent` | `PolicyAssumption`, `TokenAssumption`, `RoutingAssumption` |
| `RetainedStore_proofs` | `StoreTypeCorrect`, `IndexInStep`, `NothingLostEarly`, `ReadsAreLive` | `StoreAssumption`, `AbsentAssumption` |
| `TargetBridge_proofs` | `BridgeAddsUp` (`PlacesAndOffersAddUp`), `BridgeIsAtMostOnceFifo` (the refinement `DeliversAtMostOnceInOrder`) | `BridgeAssumption` |
| `Ingress_proofs` | `IngressIsSound` (`IngressInv`), `HeldRowStaysQueued` (`TablesKeepTheHeldRow`), `AdvertsUseTheNewestRadio` (`RadioIsTheNewest`), `OfferedTwiceTakenOnce` (`TakenOncePerWindow`) | `IngressAssumption` |
| `UploadQueue_proofs` | `UploadTablesAreBounded`, `UploadJobHasOneHolder`, `UploadJobsEndAsAnswered`, `UploadCooldownEnds`, `UploadNeverRepeats` | `UploadAssumption`, `RowAssumption`, `PosterAssumption` |
| `Process_proofs` | `SlotsAreHeld`, `ExitIsClean`, `WireStaysWellFormed`, `SourcesAreVouchedFor`, `LoadedConfigIsUsable` | `SlotAssumption`, `FrameAssumption`, `SizeAssumption`, `ConfigAssumption` (limits and address widths are naturals), `ClientAssumption` (a peer is an address, a forwarded entry an address or `Junk`) |

The arguments, and what each invariant needs to be inductive:

* **Sessions.** `OwnershipInv` adds to the two ownership properties
  `NewestIsOfItsKey`: an unclaimed key has no owner; the newest connection of a key
  carries that key and has left stage "new".  Without it a claim or a release of
  another key could not be told from one of this key.  A step either moves a
  connection and leaves the maps alone (`QuietMoves`) or writes one map for one
  connection (`MapStep`), and there is a lemma for each of the four such writes.
  `MapsAgree` adds `SessionFollowsNewest`: on a key that never raced, the session map
  names the newest connection from its insert to its removal, and whoever is between
  the two inserts is the newest.  `PlacesBounded` is inductive with the types; its
  steps count finite sets.
* **Status guard.** `GuardInv` is inductive as it stands, but none of its parts is:
  the eviction pops a known key only while deque and map agree, and capacity holds
  only because it does.  The history properties follow from it by way of
  `SweptIsOld`: what a sweep drops was TTL old at the time the sweep records.
* **Publish hooks.** `LateInv` says what a connection still has coming: `WillForward`
  and `WillRoute` are the points of the hooks that no later ownership check guards.
  A connection that lost its key never owns it again (`SessionMoves`), commits to a
  forward or a routing only on a check that finds it the owner, and a late one ends
  such a commitment (`HookMove`); so the count of late ones and an open commitment
  exclude each other.  The pipeline implements `SessionSpec` on the session variables:
  its denial is the `Deny` of `ObserverSessions` because of `BusyIsPresent`, that a
  connection which handles a publish has not released anything (a kick may come in
  the middle of a hook, the close is handled after it).  The takeover theorems thus
  carry over to the composed system.  `OrderInv` says that the guard has seen everything a
  connection forwarded and the status it is about to forward.  That needs the record
  to stay: time is frozen in this module and the guard is assumed to have room for
  every key, since an eviction forgets the order (`StatusGuard` says when).
* **Routing.** Decisions are lists of checks of which the first to fail decides;
  `AllowedIffAllPass` turns them into conjunctions, and lemmas per list give what an
  allowed publish, an allowed subscription and a current token satisfy.  The invariant
  `RoutingInv` holds a sender's half (`Speaks`) and a receiver's half (`Heard`), since
  a message is on its way only between the handler and the hand-over.  It also holds
  `RetainedSpeaks`: a retained message has passed its sender's checks, which is all a
  later replay can rely on.  The receiver's half of a replay rests on what
  `authorize_subscribe` says of the filter alone: an observer's matches
  nothing that anyone but an admin can have retained (`ObserverFetchesCommands`).
  `LoginsAreCurrent` rests on `StaleIsExact`: saturating i64 arithmetic agrees with
  exact arithmetic on all pairs of times, for an age limit below `I64Max`.  At
  `I64Max` it does not: the saturated age never exceeds the limit.
* **Retained store.** `StoreInv` adds to the three invariants only that a reader's
  instant is not in the future (`AskedInThePast`).  The centre is
  `PurgeDropsTheExpired`: when the index matches the entries, purging through the
  index removes exactly the expired entries, which makes both the writers and a late
  reader correct.
* **Target bridge.** `BridgeInv` ties the counts to where the worker is: it holds a
  message exactly between receive and release, and nothing has been abandoned before
  the abort that ends `stop`.  The refinement maps the queue, the worker's hand and
  the request channel to the set of waiting messages; it needs `FlightOrder`, that they are in
  order of acceptance in this sequence, and shows every step to be an abstract
  acceptance, delivery or loss, or a stutter (`NextRefines`).
* **Uploads.** `UploadInv` joins `QueueInv` (unique ids and nodes, an order that
  enumerates the node table, known nodes plus queued jobs within the sum of the limits) and `WorkerInv`
  (a claimed row is in one hand and unchanged).  A worker finds its row again only
  because ids are unique and nobody else holds the row; the node table stays bounded
  only because each completion that puts a node back has freed its place.
* **Process.** Permits are counted by `TasksInv`: each step starts, moves, ends or
  joins one task (`TasksMoveOneByOne`).  `ShutdownInv` says at each stage of the
  shutdown which closes and parts may still exist (`ClosesInv`, `PartsInv`).
  `WireStaysWellFormed` follows the copier: its count and fragmentation flag equal the
  open message of RFC 6455's receiver (`InStep`), and the limit it compares with is
  the natural number that `load` accepted (`LoadedLimitIsNatural`).

* **The forwarded chain.** `SourcesAreVouchedFor` joins three results.  `QuotientIsPrefix`:
  two addresses have the same quotient by the weight of the host part exactly when
  they agree on every bit of the prefix, so the mask of `IpNetwork::contains` means
  what it should for every width.  `WalkIsVouchedFor`: after `n` entries the walk is at
  a hop that all later ones vouch for, and it is the `n`-th from the end or not trusted.
  `ToldInv`: a task's networks do not change under it (`LimitInvStep`), so what held
  when the PROXY line was made still holds while it is used.  The first two are inductions over
  data.  The library's induction theorems take an operator, which the provers cannot
  instantiate; `SetInduction` is stated of a set of numbers instead, and follows from
  `NatLessThanWellFounded`.  `RecursionExists` does the same for recursive functions
  (`Weight`, `Walk` and the library's `FlattenSeq`), whose step is passed as a function.
* **Configuration.** `LoadedConfigIsUsable` takes the parts of a configuration one by
  one (`AcceptedAllowlist`, `AcceptedUsers`, `AcceptedTarget`, `AcceptedMeshcore`,
  `AcceptedHealthcheck`).  Each number is traced to the environment, the document or
  the defaults (`NumberSources`), since each source is checked on a path of its own.
  Ranges are written `Bounds(min, max)` and kept folded: the prover would otherwise list
  every number of a literal range.
* **Ingress.** `IngressInv` adds to the types and limits that ids order the queue
  (`IdsOrderTheQueue`: a new row's id is above all others, which is what makes the
  claimed row identifiable), that a dedup entry expires one window after its message
  was last taken and is missing only once expired or squeezed out (`DedupInv`), and
  that a radio entry is of the newest status processed or no longer valid (`RadioInv`).
  `Front` and `First` return the least element of a set by place or id, which exists by
  well-foundedness (`LeastNatural`).

Only model-checked: all liveness (`ClosedIsForgotten`, `PlacesComeBack`, `StopReturns`,
`QueueDrainsOrStops`, `ShutdownEnds`, `HandshakesEnd`), which needs fairness and
ENABLED, beyond the prover.  Every safety property of the passing runs, invariant, action
property or refinement, is stated by a theorem.

## 7. Not modelled

* Packet, advert and radio codecs (`meshcore_io/advert.rs`, `radio.rs`): byte and text
  decoding without state, taken as message kinds.
* Base64, JSON, SHA-256 and Ed25519; the bytes of HTTP headers and WebSocket frames;
  TLS; the wire format of MQTT.
* Error texts (`mqtt/errors.rs`) and log lines; the counters in the status body.
* The target's user name and password and the quotes stripped from them: no check
  looks at them.  serde's refusal of unknown fields of an IATA entry.
* Shared subscriptions, QoS handshakes and retain handling options, which are RMQTT's own.
* In `Process` the integrations are a state each; their own concurrency is in
  `TargetBridge`, `UploadQueue` and `Ingress`, which start where `Process` says
  `running` and whose stops end where it says `stopped`.

## 8. Plan

Built so far, in order: sessions and status guard, policy and routing, the
publish hooks that compose them, the retained store, the bridge, uploads and
ingress, the first proofs, then tokens, the poster, configuration, frontend and
process, then the proofs of section 6, for which `Ingress` was rewritten with its
tables as sets, and prefixes and the forwarded chain as recursive functions.  Next:
`Ingress` composed with `UploadQueue`, replacing the choice of `admit_job`'s answer by
the real one.
