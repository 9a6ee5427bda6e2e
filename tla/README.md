# A TLA+ model of dendri-server

dendri-server is a WebRTC signalling server: one multi-threaded tokio process
that keeps its sessions and rooms in concurrent maps (DashMap), with Redis as
the store that outlives it. Paths below are those of the repository.

## 1. The system

| Part | State | Operations |
|---|---|---|
| WebSocket sessions (`src/handlers/ws.rs`, `src/state.rs`) | `clients`, `ws_senders`, `active_connections` | handshake, reconnection, read loop, close |
| Eviction and reconciliation (`src/services/check_broken.rs`) | the same, tick | scan, evict, count and store the counter, expire sessions |
| Client registry (`src/redis_realm.rs`, `src/services/sync_redis.rs`) | `peer:client:<id>` hash with a TTL | register, look up, remove, refresh |
| Rooms (`src/handlers/message.rs`) | `rooms`, `client_rooms`, `pending_removals`, `presence` | join, leave, deferred removal, restoration |
| Transmission and offline queue (`message.rs`, `redis_realm.rs`, `src/services/messages_expire.rs`) | `peer:queue:<id>`, `peer:queue_meta:<id>`, `peer:queues` | route, queue, deliver, expire, clear |
| Tenants (`src/tenant.rs`, `src/handlers/admin.rs`, `src/handlers/customer.rs`) | `tenant:key:*`, `tenant:id:*`, `tenant:email:*`, `TenantCache` | create, delete, rotate key, rotate JWT secret, resolve |
| Data relay and replay (`message.rs`, `src/replay_buffer.rs`, `src/services/replay_evict.rs`) | `seq_counter`, per-key ring buffers | push, replay, evict |
| Rate limiter (`src/rate_limiter.rs`) | token buckets | check, remove |
| HTTP transports (`src/handlers/http.rs`) | the session maps, `polling_receivers` | SSE, poll, send |
| Webhook (`src/webhook.rs`) | bounded queue | emit, deliver with retries |
| Customer login (`src/handlers/customer.rs`, `src/email.rs`) | signed tokens, `auth:no-account:*` | log in, request a link, exchange it, rotate the key |
| JWT, discovery, TURN, start-up, config | none | stateless or I/O |

How the parts interact. A connect resolves its API key (Tenants), is admitted
(Sessions), restores its rooms (Rooms), stores its channel and drains its
offline queue (MessageQueue). A read loop feeds messages into `message.rs`,
which changes timers (Sessions), rooms (Rooms) or queues (MessageQueue). Four
paths remove a session: the end of its socket, LEAVE, a send to a dead channel,
and `check_broken`; only the first cleans up rooms. SSE streams, long polls and
send requests use the same maps and the same counter as sockets. A relay sends
to the channels that are there and stores for the peers that come back; the
connection handlers report to the webhook.

What is hard. No lock is held across two map accesses or an await: every
handler is a chain of atomic accesses that all other handlers interleave with.
Checks are made on one map and acted on in another. Redis calls fail, mostly
silently. State in Redis survives a restart, state in memory does not. The
correctness of each part:

* sessions: the limit holds, slots are neither leaked nor released twice, a
  dead session goes, a live one is not removed by another's end;
* rooms: membership and reverse index agree, empty rooms and absent members go;
* queue: a message is delivered or expired, and none is left waiting unseen;
* tenants: a key grants its own tenant only, a revoked key stops, a valid one works;
* HTTP: the three transports together keep the limit, a client that went is
  noticed, the two ends of a polling channel belong together;
* relay: what a client missed is replayed or announced as a gap;
* webhook: events come in order, a dead endpoint stops nothing, the last event is true;
* login: a customer is found by its address, and nobody is mailed twice.

## 2. Modules

| Module | Models | Variables and the code's state |
|---|---|---|
| `Sessions` | `ws.rs`, `check_broken.rs`, slot counter, registry | `clients`, `wsSenders`, `active`, `registry`: the maps, the atomic (modulo `Width`), the Redis hash; `pc`, `sess`, `victim`, `scan`: the local variables of the tasks; `paired`: history |
| `Rooms` | room handlers, deferred removal, restoration | `rooms`, `clientRooms`, `pending`: the maps; `wsSenders`, `registry`: the session as far as rooms depend on it; `task`: locals; `shared`: history |
| `Tenants` | `tenant.rs` and the requests that change tenants | `byKey`, `byId`, `byEmail`: Redis; `cache`; `handler`, `resolver`: locals; `owner`, `issued`, `known`, `disturbed`, `overtaken`, `outdated`: history |
| `MessageQueue` | `handle_transmission`, queue, `messages_expire` | `queue`, `stamp`, `listed`: Redis; `wsSenders`; `task`: locals; `accepted`, `passed`, `raced`: history |
| `HttpTransports` | `http.rs`, composed with `Sessions` (EXTENDS) | the variables of `Sessions`; `pollRx`: `polling_receivers`; `req`: the locals of the requests; `covered`, `mixed`: history |
| `ConnectionLimit` | what the slot counter promises: a counting semaphore | `used`, `trusted`; implemented by `Sessions` and by `HttpTransports` |
| `Relay` | `handle_data`, `replay_buffer.rs`, its sweeper, gap notice and replay | `seqCounter`, `buf`, `sender`, `chan`: counter, buffers, channels; `relay`, `conn`, `wiping`, `sweep`: locals; `last`: what the client saw; `stored`, `gone`, `disorder`: history |
| `Webhook` | `webhook.rs` and the handlers that emit | `queue`, `current`, `attempt`: the delivery task; `wsSenders`, `conn`; `received`: the endpoint; `disturbed`: history |
| `EventFeed` | what the webhook promises: a lossy FIFO feed | `pending`, `log`; implemented by `Webhook` |
| `CustomerLogin` | `customer.rs`, composed with `Tenants` (EXTENDS) | the variables of `Tenants`; `cooldown`: Redis; `sessions`, `links`: tokens customers hold; `request`: locals; `sent`, `emailOf`: history |
| `SessionsProofs`, `HttpProofs`, `RoomsProofs`, `TenantsProofs`, `CustomerLoginProofs`, `MessageQueueProofs`, `RelayProofs`, `WebhookProofs` | theorems, see section 4 | |
| `MC*` | instances for TLC (symmetry sets, channel numbers) | |

One access of a map, of the atomic or of Redis is one action; an action's
comment names the function. The operators marked *Mutant* are wrong variants of
the definition that follows them. They belong to no specification: each is
listed in `PROJECT.json` with the property that must fail when it takes the
place of the original.

Abstractions. Time is a flag per timer ("late", "expired", "old", cache hit or
miss). A message is a number, a room its stored key, an API key stands for its
hash. Notifications, logging, metrics and JSON are left out. A channel of an
HTTP client is a number and its contents are left out of `HttpTransports`; in
`Relay` a message is its sequence number and channels have contents. Tokens that
the server signs and does not keep are facts that hold until they expire. In `Rooms` a
session is one flag in memory and one in Redis, because `Sessions` has its races
in full; eviction is one step there.

History variables make conditional promises exact where the code does not keep
an unconditional one:

* `paired` turns false when a reconnection enters `clients` without a
  reservation and without replacing an entry, or when reconciliation stores less
  than the slots in use. While it is true the counter is trustworthy.
* `shared` holds the ids that two tasks have served at once, or that were
  evicted: their rooms may leak.
* `disturbed` (`Tenants`) holds the tenants with two requests at once or a failed write.
* `covered` is `paired` for all transports: it turns false as well when an HTTP
  stream inserts an entry that it took for a reconnection and that is gone.
* `mixed` holds the ids that were served by anything but one long poll at a time.
* `gone` holds what left a replay buffer by TTL, size, sweep or wipe; `disorder`
  the keys under which a message was stored after a later one.
* `disturbed` (`Webhook`) holds the ids that were evicted, of which an event was
  dropped or given up, or that connected while another handler was reporting.
* `outdated` holds the keys for which the cache may keep a record that is no
  longer stored: `overtaken` lookups, which had read the record when
  `invalidate_all` ran, cached it afterwards, or a write failed half-way and was
  not followed by an invalidation. The end of the TTL takes a key out again.
* `raced` holds the receivers whose queue was cleared other than as read.

What these variables exclude is what the code really does, not what the models
leave out: the steps that put an id there are in the runs. A property that
excludes them therefore says that there is no other way for it to go wrong, and
the hazards of `PROJECT.json` name no property where the excluded case is the
hazard itself.

## 3. Runs

| Run | Instance | Shows |
|---|---|---|
| `sessions` | 2 sockets, 2 ids, limit 1, width 5, reconcile every 2nd tick | `TypeOK`, `SlotCoverage`, `LimitRespected`, `SenderHasHandler`, `ImplementsLimit` (refinement) |
| `http` | 1 socket, 2 requests, 1 id, 2 tokens, limit 1, 2 starts | `HttpTypeOK`, `HttpSlotCoverage`, `PollEndsMatch`, `HttpImplementsLimit` (refinement) |
| `sessions_live` | 1 socket, 1 request, 1 id, 2 starts, fairness | `LateIsEvicted`, `HttpDriftIsHealed`, `DroppedStreamIsRemoved`, `RemovedStreamEnds` |
| `sessions_pairing` | 2 sockets, 1 id | `ReleaseIsPaired` fails |
| `rooms` | 2 sockets, 2 ids, 2 rooms, limits 1, 1 and 2, no TTL, no presence | `RoomsTypeOK`, `EmptyRoomIsDeleted`, `MemberIsIndexed`, `AbsentHasNoRoom` |
| `rooms_ttl` | 2 sockets, 1 id, 1 room, TTL, presence, fairness | `ExpiryRuns`, `EmptyRoomIsDeleted`, `PresenceOfMembers` |
| `rooms_restore` | 1 socket, 1 id, 1 room, TTL | `ReconnectRestoresRooms` fails |
| `tenants` | 2 tenants, 3 keys, 2 requests, 1 connect, 1 Redis failure | `TenantsTypeOK`, `TenantIsolation`, `IndexAgrees`, `IssuedSecretIsStored`, `CachedIsCurrent`, `RotationKeepsAWorkingKey` |
| `tenants_live` | 1 tenant, 2 keys, 1 admin or key request, 1 lookup, 2 login requests, 1 Redis failure, fairness | `RemovedKeyIsRefused`, `StoredKeyIsAccepted`, `NoAccountOncePerWindow`, `EmailIndexAgrees` |
| `message_queue` | 2 senders, 2 sockets of 1 receiver, 2 messages followed at once, 1 Redis failure, fairness | `QueueTypeOK`, `NothingLost`, `QueueDrains` |
| `relay` | 2 relays (one by the receiver itself), 1 receiver, 1 room, buffer of 2, 3 messages per life | `RelayTypeOK`, `MissedIsReplayed`, `GapIsAnnounced` |
| `webhook` | 2 connections of 1 peer, queue of 2, 2 attempts, 4 events, fairness | `WebhookTypeOK`, `CopiesAreBounded`, `LastEventTellsState`, `ImplementsFeed` (refinement, with liveness) |

Bounds. Two sockets of one id are what a reconnection race needs, and two ids
with a limit of one make every second handshake a refused one; a socket may be
opened again after it was closed, so histories are unbounded. `Width` 5 leaves
room for the limit, the handshakes in flight and one wrap. `ReconcileTicks` is
small so that reconciliation meets handshakes in every state (60 in the code);
the pairing run uses 8 so that the wrap is seen before it is healed. Two rooms
with limits of one reach every refusal. Three keys allow two concurrent
rotations of one tenant. Two messages suffice for one to be read and one to be
pushed before the clear; a number is used again once its message has left, and
`PushMore` stands for messages beyond the two that are followed, so the traffic
of `message_queue` need not end. `MaxErrors` 1 places one failure at any Redis
call of `Tenants` and `MessageQueue` and cuts their pipes after any command (all
tasks of a server share one multiplexed connection, so that pipes do not
interleave with each other; a connection that breaks leaves a prefix). In
`Sessions` a failed registration or removal may have been carried out, and
there is no bound on failures.
`MaxStarts` 2 gives a request and its rival, or a client and its return, and
`MCChans` (seven channels) always has a free one. Three messages for a buffer of two are the
least that overflow it; a channel of three holds a gap notice and a full replay;
one message may be ephemeral, and a restart begins a new life with the old
`last`. A client of `Relay` reads once the request that attached it has looked at
the buffer, so that `last` is the `last_seq` of the request (`http.rs:119`,
`http.rs:389`): an HTTP handler answers only then, and for a WebSocket reading
later gives the same messages. Four events fill a queue of two while one is delivered;
two attempts tell the last failure from the others. `AdminOps` leaves the JWT
rotation, which touches no address, to the run `tenants`; with one tenant no
address is shared in `tenants_live`.
Symmetry is used in runs without liveness properties only. No run turns
deadlock checking off. The largest runs are `relay` (6.3 million states),
`tenants` (3.2 million) and `sessions` (1.9 million), of one to three minutes
each.

The offline queue. `QueueDrains` has two conditions, and without either it is
violated. Every push renews `peer:queue_meta` (`redis_realm.rs:109`) and
`messages_expire.rs:47` skips a queue whose stamp is fresh: a queue onto which
messages are pushed for ever need not drain. And `add_message_to_queue` is a pipe
that is no transaction: cut after RPUSH it leaves a queue that `peer:queues` does
not list, which no expirer sees and which waits for the next receiver or push.
`Reached` names the queues that are listed, or that a receiver is about to read
with no failure left. A clear that is cut leaves an empty queue listed, which the
expirer takes off the list again once its receiver stops reading it.

The lookup cache. `IssuedSecretIsStored` is about what is stored; what connects
are verified with is the cached record, and `CachedIsCurrent` says when that is
the stored one: always, once no invalidation of the tenant is outstanding, except
for keys in `outdated`. `RemovedKeyIsRefused` bounds the exception by the TTL.

Refinements. `Sessions` and `HttpTransports` implement `ConnectionLimit`: the
slots used are the entries of `clients` plus the reservations on their way, a
step takes or gives back one of them or none, and trust in the counter is
`paired` or `covered`. `Webhook` implements `EventFeed`, fairness included: what
is pending is the event under delivery and the queue behind it.

Fairness. Weak fairness of what tokio schedules by itself: a handler that began
goes on, the background loops wake up, time passes. Nothing is assumed of peers:
connects, messages and closes are never forced, and neither is a client that
drops a request; their traffic may as well go on for ever. The delivery task of the webhook is fair because every POST has
a timeout of 5 s and every back-off ends; the watchdog because its sleep is 5 s. Redis failures are finite where
liveness is checked.

### Disagreements

Shown by a run:

1. `ReleaseIsPaired` (`state.rs:142-147`): after a restart a peer reconnects with
   the token Redis still has, enters `clients` unreserved, and leaves: the
   counter wraps below zero, and new clients are refused until reconciliation
   (at most 60 ticks of 300 ms; `HttpDriftIsHealed`).
2. `ReconnectRestoresRooms` (`message.rs:504`): the disconnection deletes the
   token that the reconnection would be recognised by.

Met in the model, behind the conditions of the properties:

3. The same_channel check of `ws.rs:359-369` "prevents a stale socket close from
   removing a valid reconnection", but check and removal are not one step.
4. `remove_client_from_all_rooms` (`message.rs:499`) speaks of ALL rooms: with a
   session TTL pending removals are overwritten, and expiry races with a peer
   that has joined again (`shared` is about the case without TTL).
5. `invalidate_all` (`tenant.rs:123-124`) promises revocation "within one connect":
   a lookup in flight caches what it has just dropped, for one TTL
   (`RemovedKeyIsRefused`). So does the comment of `rotate_jwt_secret`
   (`admin.rs:214-215`): "the old secret stops verifying immediately after cache
   invalidation". `CachedIsCurrent` without its exception `outdated` is violated
   by such a lookup of a tenant that has no request under way.
6. A WebSocket client is told of a gap and never replayed to
   (`ws.rs:234-246`), and the notice is `REPLAY_GAP` where `CHANGELOG.md:19,31`
   says `REPLAY-INCOMPLETE`; messages relayed to a room are buffered under the
   room's key, from which nothing is ever replayed; a peer removed by `check_broken` has no disconnected event
   (`check_broken.rs:70`); a magic link is called "one-time" (`customer.rs:49`)
   and is valid until it expires; the third of the webhook's delays (25 s,
   `webhook.rs:23`) is never waited for.

## 4. Proofs

Each component has a module of theorems, for every value of its constants that
satisfies the assumptions below: any number of sockets, requests, peers, rooms,
tenants and messages, every limit and every buffer size.

| Module | Theorem | Property |
|---|---|---|
| `SessionsProofs` | `TypeCorrect`, `SlotsCovered`, `LimitKept`, `SendersHaveHandlers` | `TypeOK`, `SlotCoverage`, `LimitRespected`, `SenderHasHandler` |
| | `ImplementsSemaphore` | `ImplementsLimit` (refinement) |
| `HttpProofs` | `HttpTypeCorrect`, `HttpSlotsCovered`, `PollEndsAreOne` | `HttpTypeOK`, `HttpSlotCoverage`, `PollEndsMatch` |
| | `HttpImplementsSemaphore` | `HttpImplementsLimit` (refinement) |
| `RoomsProofs` | `RoomsTypeCorrect`, `EmptyRoomsGo`, `PresenceFollowsMembership`, `MembersAreIndexed`, `AbsentPeersHaveNoRoom` | `RoomsTypeOK`, `EmptyRoomIsDeleted`, `PresenceOfMembers`, `MemberIsIndexed`, `AbsentHasNoRoom` |
| `TenantsProofs` | `TenantsTypeCorrect`, `TenantsAreIsolated`, `IndexIsExact`, `SecretIsStored`, `CacheIsCurrent` | `TenantsTypeOK`, `TenantIsolation`, `IndexAgrees`, `IssuedSecretIsStored`, `CachedIsCurrent` |
| | `RotationIsSafe` | `RotationKeepsAWorkingKey` (action property) |
| `CustomerLoginProofs` | `LoginKeepsTenants` | the invariants of `Tenants` under `LoginSpec` |
| | `OneMailPerWindow`, `AddressesAreExact` | `NoAccountOncePerWindow`, `EmailIndexAgrees` |
| `MessageQueueProofs` | `QueueTypeCorrect`, `NothingIsLost` | `QueueTypeOK`, `NothingLost` |
| `RelayProofs` | `RelayTypeCorrect` | `RelayTypeOK` |
| | `GapsAreAnnounced`, `MissedAreReplayed` | `GapIsAnnounced`, `MissedIsReplayed` (action properties) |
| `WebhookProofs` | `WebhookTypeCorrect`, `CopiesStayBounded`, `LastEventIsTrue` | `WebhookTypeOK`, `CopiesAreBounded`, `LastEventTellsState` |
| | `DeliversInOrder` | the safety part of `ImplementsFeed` |

### Assumptions

* The sets over which something is counted are finite: sockets, ids and requests
  (the slots), and those of `Rooms`, `Tenants` and `MessageQueue`.
* `None` and the names of background tasks are no members of the other sets, and
  `None` is no record, set or sequence the models store in its place
  (`TokensAssumption`, `TenantsDistinct`, `RoomsDistinct`, `WebhookDistinct`,
  `RelayDistinct`). These express that an `Option` has a case of its own.
* Limits, sizes and bounds are natural numbers; the webhook's capacity and number
  of attempts are positive.
* `WidthAssumption` and `HttpWidthAssumption`: the width of the counter exceeds
  the limit plus the number of sockets and requests plus one (no restriction in
  practice for 2^64: without it the counter could wrap upwards).
* `ChansAssumption`: a new channel differs from the channels two maps and two
  locals per request can refer to; a channel of the code is always new.
* `AdminOpsAssumption`: the admin requests of `CustomerLogin` are the code's.

### Arguments

Every module begins with the shapes: the types in full, places of a task and
what its locals hold at each of them. The proofs then classify the steps once
(as `SessionStep`, `SlotEffect`, `RoomEffect`, `QueueEffect`, `FeedStep`,
`BufferMoves`), and preserve the invariants per effect instead of per action.

*Sessions.* The slot invariant is inductive only together with `CounterBound`:
the counter exceeds the limit by no more than the reservations being undone, and
the count that reconciliation is about to store respected the limit. The first
part is needed for the upward wrap at `Reserve`, the second for `StoreCounter`.
Each step changes at most one place of one task (`AtStep`) and at most one entry
(`LiveStep`), so its effect on the sum is arithmetic (`StepCounts`). `Backed` has
parameters for slots held elsewhere, so that the same lemma (`BackedStep`) serves
the sockets alone and the sockets beside HTTP requests. `SenderHasHandler` needs
`ClosingRemovesItself`: a socket whose read loop ended removes its own id and
nothing else. For the refinement a step changes `Slots` by at most one, and by
one upwards only below the limit, while the counter is trusted.

*HTTP.* A request holds a slot in some of its states only (`HoldingStates`); a
step moves one request (`ServingStep`) with one of the `SlotEffect`s. `PollInv`
says that an id that is not `mixed` has no socket, no stream and one poll, and
that this poll, between its two inserts, stores the receiver of the channel
whose sender is in the map. A free channel exists by counting (`FreshChannel`).

*Rooms.* `EmptyRoomIsDeleted` and `PresenceOfMembers` follow from what a step
does to one room (`RoomEffect`) and where its task goes next (`RoomMoves`).
`MemberIsIndexed` and `AbsentHasNoRoom` need `SessionInv`: without a TTL an id
that was never shared is served by one task, and `KeepsRooms` says for each
place of that task which of the two maps is ahead of the other.

*Tenants.* A pipe is a sequence of commands that may be cut after any of them;
`ApplyEffect` says what any prefix leaves in each index. Isolation needs that
keys in the locals of handlers and resolvers were minted for the tenant they are
used for (`Minted`). The exact index needs `QuietTenant`: what an undisturbed
tenant's one request has read is still what is stored (`ReadHolds`).
`RotationIsSafe` is about one pipe: only a deletion's removes a working key
without having written the other. `CacheIsCurrent` needs the same of the lookups
in flight (`CacheInv`): what a lookup that was not overtaken has fetched is
stored, or a request that is about to invalidate has just replaced it.

*Login.* Every step of the dashboard is, for the tenants below, a request served
(`ServedStep`), a signup (`CreateStep`) or a failure (`ErrorStep`), so the
invariants of `Tenants` carry over. `WindowInv`: a mail on its way owns the
cooldown of its address. `AddressInv` and `FoundInv` relate `byEmail` to the
addresses tenants were created with.

*Queue.* A step takes a message, pushes, clears, starts to clear, or leaves the
queues alone, and a pipe is the first of these commands or none as far as the
queue goes. `SentOnce`: a message is in at most one place. `ClearsWhatWasRead`: a
task that is about to clear a queue has delivered or expired all that is in it,
or the receiver is in `raced`.

*Relay.* A buffer only ever loses a prefix (`IsTail`: `PopIsTail`, `RoomIsTail`,
`Tails`) and gains an entry at its end, so what is left and what is gone
partition what was stored (`Holds`), and where messages are stored in order
everything gone is older than the front (`InOrder`), which is what `oldest_seq`
compares with. `FlightInv` gives a message on its way a number no buffer has.
`ReplaySince` is a recursive function; that it exists and takes every entry that
is wanted is an induction on the length, done by taking the least counterexample
(`WFMin`), because the induction theorems of the library cannot be instantiated.

*Webhook.* `NumberInv`: numbers grow along what was received, is under delivery
and is queued. With it the copies of an event are counted by its attempts
(`CopiesInv`), and the last notice about a peer, wherever it is, tells its state
(`ToldInv`). For the feed, what is pending is `current` before `queue`; each
`FeedStep` is a step of `EventFeed` or a stutter.

### Only model-checked

All liveness properties and the fairness of `ImplementsFeed`: fairness is outside
the prover's reach. The two properties that fail are shown by their runs.

## 5. Not modelled

* JWT claims and tenant tags of clients: written and removed with the session,
  never read by another handler's control flow except the room namespace.
* The rate limiter: the bucket is the governor crate, and a refused message
  changes nothing.
* The contents of channels in `HttpTransports` (a poll that drains a batch whose
  response is lost): `Relay` has the recovery through `last_seq`.
* Errors of single commands of a pipe that goes on (Redis out of memory refuses a
  SET and carries out the DEL after it): pipes of `Tenants` and `MessageQueue` are
  cut to a prefix, as a broken connection does. `RotationKeepsAWorkingKey` is
  about such cuts.
* What an empty queue leaves behind: each read writes `peer:queue_meta` without a
  TTL, and nothing deletes it when the queue was empty.
* The shutdown drain (`state.rs:150`): it sends and waits.
* The URL filter and signature of the webhook, JWT validation, e-mail, TURN,
  discovery, configuration, TLS and start-up: string predicates, cryptography of
  libraries, I/O.
* Several server processes on one Redis: the code keeps channels and rooms per
  process.

## 6. Plan

Done: all modules of section 2, and a theorem for every safety invariant, safety
action property and safety refinement the passing runs check.

Left: statements without a property, in the order of their worth: how far
concurrent joins overshoot the room limits (`message.rs:272`), and which rooms
and presence an eviction leaves behind (`check_broken.rs:70`); both need a
property in `Rooms` first, then a theorem from `RoomMoves`.
