------------------------------ MODULE Sessions ------------------------------
(***************************************************************************)
(* The life of WebSocket sessions in the signalling server: the handshake  *)
(* of handlers/ws.rs, the removal paths of handlers/ws.rs,                 *)
(* handlers/message.rs and services/check_broken.rs, the connection-slot   *)
(* counter of state.rs and the Redis client registry of redis_realm.rs.    *)
(*                                                                         *)
(* The server is a multi-threaded tokio program.  `clients` and            *)
(* `ws_senders` are two independent DashMaps and `active_connections` an   *)
(* atomic: each single access is atomic and nothing is held from one       *)
(* access to the next, so one access of shared state is one action here    *)
(* and a handler is a sequence of actions that others interleave with.     *)
(***************************************************************************)
EXTENDS Integers, FiniteSets

CONSTANTS
    Conns,            \* sockets; a socket that is closed may be opened again
    Ids,              \* peer ids
    Tokens,           \* client-chosen tokens
    None,             \* "no entry"
    CheckBroken,      \* the background task of services/check_broken.rs
    ConcurrentLimit,  \* config.concurrent_limit
    Width,            \* number of values of an AtomicUsize (2^64 in the code)
    IdleTimeoutOn,    \* config.idle_timeout > 0
    ReconcileTicks    \* RECONCILE_TICKS, 60 in the code

ASSUME ConnsAssumption == IsFiniteSet(Conns) /\ CheckBroken \notin Conns /\ None \notin Conns
ASSUME IdsAssumption == IsFiniteSet(Ids) /\ None \notin Ids
ASSUME TokensAssumption ==
    None \notin Tokens /\ None \notin [token : Tokens, late : SUBSET {"ping", "idle"}]
ASSUME LimitAssumption == ConcurrentLimit \in Nat
ASSUME WidthAssumption ==
    /\ Width \in Nat
    /\ Width > ConcurrentLimit + Cardinality(Conns) + 1
    /\ Width > Cardinality(Ids)
ASSUME FlagsAssumption == IdleTimeoutOn \in BOOLEAN /\ ReconcileTicks \in Nat \ {0}

VARIABLES
    clients,     \* AppState.clients: id -> metadata or None
    wsSenders,   \* AppState.ws_senders: id -> the socket whose channel is stored
    active,      \* AppState.active_connections, modulo Width
    registry,    \* Redis: the token field of the hash peer:client:<id>
    pc,          \* where each task is: a socket's task or check_broken
    sess,        \* per socket: its id and token, and whether its read loop ended
    victim,      \* per task: the id it is removing
    scan,        \* check_broken: ids left to evict, clients.len() read, tick
    paired       \* history: every entry of clients was paid for by a reservation

serverVars == <<clients, wsSenders, active>>
taskVars == <<pc, sess, victim, scan>>
vars == <<clients, wsSenders, active, registry, pc, sess, victim, scan, paired>>

Tasks == Conns \cup {CheckBroken}
Lateness == {"ping", "idle"}
Meta == [token : Tokens, late : SUBSET Lateness]

\* ClientMeta::new: both timers start now.
NewMeta(token) == [token |-> token, late |-> {}]

Session(id, token) == [id |-> id, token |-> token, closing |-> FALSE]
NoSession == Session(None, None)

ConnPcs ==
    {"off", "lookupRedis", "reconnect", "reserve", "unreserve", "register",
     "unregister", "insert", "attach", "open", "rmSender", "rmClient", "rmRelease", "rmRegistry"}
EvictorPcs ==
    {"sleep", "evict", "store", "rmSender", "rmClient", "rmRelease", "rmRegistry"}

-----------------------------------------------------------------------------
(* What the server knows.                                                  *)

\* clients.len()
Live == {id \in Ids : clients[id] # None}

\* Tasks at one of the given places of their code.
At(places) == {t \in Tasks : pc[t] \in places}

\* Tasks that hold a slot not (or no longer) backed by an entry of clients:
\* between a reservation and its insertion or its undoing, and between a
\* removal and its release.
Holding == At({"unreserve", "register", "unregister", "insert", "rmRelease"})

\* Sockets with a successful reservation that is still to become an entry.
Reserved == At({"register", "insert"})

\* Mutant: the counter is signed and does not wrap.
WrapSigned(n) == n

Wrap(n) == n % Width

-----------------------------------------------------------------------------
Init ==
    /\ clients = [id \in Ids |-> None]
    /\ wsSenders = [id \in Ids |-> None]
    /\ active = 0
    /\ registry = [id \in Ids |-> None]
    /\ pc = [t \in Tasks |-> IF t = CheckBroken THEN "sleep" ELSE "off"]
    /\ sess = [c \in Conns |-> NoSession]
    /\ victim = [t \in Tasks |-> None]
    /\ scan = [todo |-> {}, actual |-> 0, tick |-> 0]
    /\ paired = TRUE

Goto(t, label) == pc' = [pc EXCEPT ![t] = label]

\* The handler returns: the socket is closed and its task is gone.
Hangup(c) ==
    /\ Goto(c, "off")
    /\ sess' = [sess EXCEPT ![c] = NoSession]

-----------------------------------------------------------------------------
(* handle_socket: the handshake.                                           *)

\* What the handshake does with the token it found for the id.
Admit(c, session, stored) ==
    \/ /\ stored = None
       /\ Goto(c, "reserve")
       /\ sess' = [sess EXCEPT ![c] = session]
    \/ /\ stored = session.token
       /\ Goto(c, "reconnect")
       /\ sess' = [sess EXCEPT ![c] = session]
    \/ /\ stored \notin {None, session.token}    \* ID-TAKEN
       /\ Hangup(c)

\* A socket whose parameters, key, tenant and JWT were accepted (one that is
\* refused there leaves no trace in this state) looks its id up in memory.
Connect(c, id, token) ==
    /\ pc[c] = "off"
    /\ \/ /\ clients[id] = None
          /\ Goto(c, "lookupRedis")
          /\ sess' = [sess EXCEPT ![c] = Session(id, token)]
       \/ /\ clients[id] # None
          /\ Admit(c, Session(id, token), clients[id].token)
    /\ UNCHANGED <<clients, wsSenders, active, registry, victim, scan, paired>>

\* A Redis error reads as "no token" (unwrap_or(None)).
LookupRedis(c) ==
    /\ pc[c] = "lookupRedis"
    /\ \E stored \in {registry[sess[c].id], None} : Admit(c, sess[c], stored)
    /\ UNCHANGED <<clients, wsSenders, active, registry, victim, scan, paired>>

\* Valid reconnection: the entry is written without a reservation.  When the
\* token came from Redis, nothing in memory has paid for the entry.
\* (set_last_ping refreshes the hash and its TTL, never the token.)
InsertReconnection(c) ==
    /\ pc[c] = "reconnect"
    /\ clients' = [clients EXCEPT ![sess[c].id] = NewMeta(sess[c].token)]
    /\ paired' = (paired /\ clients[sess[c].id] # None)
    /\ Goto(c, "attach")
    /\ UNCHANGED <<wsSenders, active, registry, sess, victim, scan>>

\* Mutant: the comparison with the limit is off by one.
ReserveOneMore(c) ==
    /\ pc[c] = "reserve"
    /\ active' = Wrap(active + 1)
    /\ Goto(c, IF active > ConcurrentLimit THEN "unreserve" ELSE "register")
    /\ UNCHANGED <<clients, wsSenders, registry, sess, victim, scan, paired>>

\* try_reserve_connection_slot: fetch_add, and fetch_sub again when full.
Reserve(c) ==
    /\ pc[c] = "reserve"
    /\ active' = Wrap(active + 1)
    /\ Goto(c, IF active >= ConcurrentLimit THEN "unreserve" ELSE "register")
    /\ UNCHANGED <<clients, wsSenders, registry, sess, victim, scan, paired>>

\* The second half of a refused reservation, or the release after a failed
\* registration; the socket is then closed with an error.
GiveBack(c) ==
    /\ pc[c] \in {"unreserve", "unregister"}
    /\ active' = Wrap(active - 1)
    /\ Hangup(c)
    /\ UNCHANGED <<clients, wsSenders, registry, victim, scan, paired>>

\* redis_realm::register_client.  It may fail, and a pipe that fails may have
\* written the token.
Register(c) ==
    /\ pc[c] = "register"
    /\ \/ /\ registry' = [registry EXCEPT ![sess[c].id] = sess[c].token]
          /\ \/ Goto(c, "insert")
             \/ Goto(c, "unregister")
       \/ /\ UNCHANGED registry
          /\ Goto(c, "unregister")
    /\ UNCHANGED <<clients, wsSenders, active, sess, victim, scan, paired>>

InsertNew(c) ==
    /\ pc[c] = "insert"
    /\ clients' = [clients EXCEPT ![sess[c].id] = NewMeta(sess[c].token)]
    /\ Goto(c, "attach")
    /\ UNCHANGED <<wsSenders, active, registry, sess, victim, scan, paired>>

\* run_client: store the channel and spawn the writer task.
Attach(c) ==
    /\ pc[c] = "attach"
    /\ wsSenders' = [wsSenders EXCEPT ![sess[c].id] = c]
    /\ Goto(c, "open")
    /\ UNCHANGED <<clients, active, registry, sess, victim, scan, paired>>

-----------------------------------------------------------------------------
(* The read loop.                                                          *)

\* meta.touch() and meta.record_message(): a timer of the id's entry, if it
\* has one, starts again.  The entry need not be this socket's own.
RestartTimer(timer, c) ==
    clients' = [clients EXCEPT ![sess[c].id] =
                   IF @ = None THEN None ELSE [token |-> @.token, late |-> @.late \ {timer}]]

Heartbeat(c) ==
    /\ pc[c] = "open"
    /\ RestartTimer("ping", c)
    /\ UNCHANGED <<wsSenders, active, registry, pc, sess, victim, scan, paired>>

\* A message whose handling changes no session (rooms, data, a transmission
\* that is delivered or queued).
Message(c) ==
    /\ pc[c] = "open"
    /\ RestartTimer("idle", c)
    /\ UNCHANGED <<wsSenders, active, registry, pc, sess, victim, scan, paired>>

\* LEAVE without a destination removes its sender; the read loop goes on.
Leave(c) ==
    /\ pc[c] = "open"
    /\ RestartTimer("idle", c)
    /\ victim' = [victim EXCEPT ![c] = sess[c].id]
    /\ Goto(c, "rmSender")
    /\ UNCHANGED <<wsSenders, active, registry, sess, scan, paired>>

\* A transmission to a peer whose channel is closed removes that peer.  The
\* writer task of any socket may have died of a network error that its read
\* loop has not noticed; only a send that fails ever shows it.
SendToDeadPeer(c, dst) ==
    /\ pc[c] = "open"
    /\ wsSenders[dst] # None
    /\ RestartTimer("idle", c)
    /\ victim' = [victim EXCEPT ![c] = dst]
    /\ Goto(c, "rmSender")
    /\ UNCHANGED <<wsSenders, active, registry, sess, scan, paired>>

\* Mutant: the end of the read loop forgets ws_senders.remove.
CloseKeepsSender(c) ==
    /\ pc[c] = "open"
    /\ \/ /\ wsSenders[sess[c].id] = c
          /\ victim' = [victim EXCEPT ![c] = sess[c].id]
          /\ sess' = [sess EXCEPT ![c] = [id |-> @.id, token |-> @.token, closing |-> TRUE]]
          /\ Goto(c, "rmClient")
       \/ /\ wsSenders[sess[c].id] # c
          /\ Hangup(c)
          /\ UNCHANGED victim
    /\ UNCHANGED <<clients, wsSenders, active, registry, scan, paired>>

\* The read loop ends.  Only the socket whose channel is the stored one
\* (same_channel) goes on to remove the session.
Close(c) ==
    /\ pc[c] = "open"
    /\ \/ /\ wsSenders[sess[c].id] = c
          /\ victim' = [victim EXCEPT ![c] = sess[c].id]
          /\ sess' = [sess EXCEPT ![c] = [id |-> @.id, token |-> @.token, closing |-> TRUE]]
          /\ Goto(c, "rmSender")
       \/ /\ wsSenders[sess[c].id] # c
          /\ Hangup(c)
          /\ UNCHANGED victim
    /\ UNCHANGED <<clients, wsSenders, active, registry, scan, paired>>

-----------------------------------------------------------------------------
(* The removal sequence that the end of a socket, LEAVE, a dead peer and    *)
(* check_broken have in common.                                            *)

RemoveSender(t) ==
    /\ pc[t] = "rmSender"
    /\ wsSenders' = [wsSenders EXCEPT ![victim[t]] = None]
    /\ Goto(t, "rmClient")
    /\ UNCHANGED <<clients, active, registry, sess, victim, scan, paired>>

\* Mutant: the slot is released whether or not an entry was removed.
RemoveClientAlwaysReleases(t) ==
    /\ pc[t] = "rmClient"
    /\ clients' = [clients EXCEPT ![victim[t]] = None]
    /\ Goto(t, "rmRelease")
    /\ UNCHANGED <<wsSenders, active, registry, sess, victim, scan, paired>>

\* `if clients.remove(id).is_some()`
RemoveClient(t) ==
    /\ pc[t] = "rmClient"
    /\ clients' = [clients EXCEPT ![victim[t]] = None]
    /\ Goto(t, IF clients[victim[t]] # None THEN "rmRelease" ELSE "rmRegistry")
    /\ UNCHANGED <<wsSenders, active, registry, sess, victim, scan, paired>>

\* release_connection_slot: a bare fetch_sub.
Release(t) ==
    /\ pc[t] = "rmRelease"
    /\ active' = Wrap(active - 1)
    /\ Goto(t, "rmRegistry")
    /\ UNCHANGED <<clients, wsSenders, registry, sess, victim, scan, paired>>

\* redis_realm::remove_client, whose error is ignored; then the handler
\* returns to where it was called from.
RemoveRegistry(t) ==
    /\ pc[t] = "rmRegistry"
    /\ \/ registry' = [registry EXCEPT ![victim[t]] = None]
       \/ UNCHANGED registry
    /\ victim' = [victim EXCEPT ![t] = None]
    /\ \/ /\ t = CheckBroken
          /\ Goto(t, "evict")
          /\ UNCHANGED sess
       \/ /\ t # CheckBroken
          /\ sess[t].closing
          /\ Hangup(t)
       \/ /\ t # CheckBroken
          /\ ~sess[t].closing
          /\ Goto(t, "open")
          /\ UNCHANGED sess
    /\ UNCHANGED <<clients, wsSenders, active, scan, paired>>

-----------------------------------------------------------------------------
(* services/check_broken.rs                                                *)

\* Mutant: only the idle timer is looked at.
ScanIdleOnly ==
    /\ pc[CheckBroken] = "sleep"
    /\ scan' = [scan EXCEPT !.todo = {id \in Live : "idle" \in clients[id].late},
                            !.tick = (@ + 1) % ReconcileTicks]
    /\ Goto(CheckBroken, "evict")
    /\ UNCHANGED <<clients, wsSenders, active, registry, sess, victim, paired>>

Scan ==
    /\ pc[CheckBroken] = "sleep"
    /\ scan' = [scan EXCEPT !.todo = {id \in Live : clients[id].late # {}},
                            !.tick = (@ + 1) % ReconcileTicks]
    /\ Goto(CheckBroken, "evict")
    /\ UNCHANGED <<clients, wsSenders, active, registry, sess, victim, paired>>

Evict(id) ==
    /\ pc[CheckBroken] = "evict"
    /\ id \in scan.todo
    /\ scan' = [scan EXCEPT !.todo = @ \ {id}]
    /\ victim' = [victim EXCEPT ![CheckBroken] = id]
    /\ Goto(CheckBroken, "rmSender")
    /\ UNCHANGED <<clients, wsSenders, active, registry, sess, paired>>

\* let actual = clients.len(), once every RECONCILE_TICKS ticks
CountClients ==
    /\ pc[CheckBroken] = "evict"
    /\ scan.todo = {}
    /\ scan.tick = 0
    /\ scan' = [scan EXCEPT !.actual = Cardinality(Live)]
    /\ Goto(CheckBroken, "store")
    /\ UNCHANGED <<clients, wsSenders, active, registry, sess, victim, paired>>

\* Mutant: reconciliation only ever raises the counter.
StoreCounterRaises ==
    /\ pc[CheckBroken] = "store"
    /\ active' = IF scan.actual > active THEN scan.actual ELSE active
    /\ paired' = (paired /\ Cardinality(Live) + Cardinality(Holding) <= active')
    /\ scan' = [scan EXCEPT !.actual = 0]
    /\ Goto(CheckBroken, "sleep")
    /\ UNCHANGED <<clients, wsSenders, registry, sess, victim>>

\* The counter is set to the count when it differs.  The store overwrites what
\* was reserved or released since the count, and every reservation in flight.
\* (The code loads, compares and stores; storing an equal value changes
\* nothing, so the load needs no step of its own.)
StoreCounter ==
    /\ pc[CheckBroken] = "store"
    /\ active' = scan.actual
    /\ paired' = (paired /\ Cardinality(Live) + Cardinality(Holding) <= scan.actual)
    /\ scan' = [scan EXCEPT !.actual = 0]
    /\ Goto(CheckBroken, "sleep")
    /\ UNCHANGED <<clients, wsSenders, registry, sess, victim>>

\* A tick without reconciliation ends.
TickDone ==
    /\ pc[CheckBroken] = "evict"
    /\ scan.todo = {}
    /\ scan.tick # 0
    /\ Goto(CheckBroken, "sleep")
    /\ UNCHANGED <<clients, wsSenders, active, registry, sess, victim, scan, paired>>

-----------------------------------------------------------------------------
(* The environment.                                                        *)

\* alive_timeout passes without a HEARTBEAT, or idle_timeout without a message.
TimerExpires(id, timer) ==
    /\ clients[id] # None
    /\ timer = "idle" => IdleTimeoutOn
    /\ clients' = [clients EXCEPT ![id].late = @ \cup {timer}]
    /\ UNCHANGED <<wsSenders, active, registry, taskVars, paired>>

\* The hash outlives its TTL: sync_redis refreshes it only for ids in clients.
RegistryExpires(id) ==
    /\ registry[id] # None
    /\ clients[id] = None
    /\ registry' = [registry EXCEPT ![id] = None]
    /\ UNCHANGED <<serverVars, taskVars, paired>>

\* The process is restarted: Redis is all that survives.
ServerRestart ==
    /\ clients' = [id \in Ids |-> None]
    /\ wsSenders' = [id \in Ids |-> None]
    /\ active' = 0
    /\ pc' = [t \in Tasks |-> IF t = CheckBroken THEN "sleep" ELSE "off"]
    /\ sess' = [c \in Conns |-> NoSession]
    /\ victim' = [t \in Tasks |-> None]
    /\ scan' = [todo |-> {}, actual |-> 0, tick |-> 0]
    /\ paired' = TRUE
    /\ UNCHANGED registry

-----------------------------------------------------------------------------
\* The steps a socket's task takes by itself, once its socket is accepted.
Handshake(c) ==
    \/ LookupRedis(c)
    \/ InsertReconnection(c)
    \/ Reserve(c)
    \/ GiveBack(c)
    \/ Register(c)
    \/ InsertNew(c)
    \/ Attach(c)

Removal(t) ==
    \/ RemoveSender(t)
    \/ RemoveClient(t)
    \/ Release(t)
    \/ RemoveRegistry(t)

CheckBrokenStep ==
    \/ Scan
    \/ \E id \in Ids : Evict(id)
    \/ CountClients
    \/ StoreCounter
    \/ TickDone
    \/ Removal(CheckBroken)

Next ==
    \/ \E c \in Conns :
          \/ \E id \in Ids, token \in Tokens : Connect(c, id, token)
          \/ Handshake(c)
          \/ Heartbeat(c)
          \/ Message(c)
          \/ Leave(c)
          \/ \E dst \in Ids : SendToDeadPeer(c, dst)
          \/ Close(c)
          \/ Removal(c)
    \/ CheckBrokenStep
    \/ \E id \in Ids, timer \in Lateness : TimerExpires(id, timer)
    \/ \E id \in Ids : RegistryExpires(id)
    \/ ServerRestart

Spec == Init /\ [][Next]_vars

-----------------------------------------------------------------------------
(* Properties.                                                             *)

\* Every variable keeps its type: the counter of state.rs stays a machine
\* word, a task is always at a place of its own code, and a task that removes
\* somebody knows whom.
TypeOK ==
    /\ clients \in [Ids -> Meta \cup {None}]
    /\ wsSenders \in [Ids -> Conns \cup {None}]
    /\ active \in 0 .. Width - 1
    /\ registry \in [Ids -> Tokens \cup {None}]
    /\ pc \in [Tasks -> ConnPcs \cup EvictorPcs]
    /\ pc[CheckBroken] \in EvictorPcs
    /\ \A c \in Conns : pc[c] \in ConnPcs
    /\ sess \in [Conns -> [id : Ids \cup {None}, token : Tokens \cup {None}, closing : BOOLEAN]]
    /\ \A c \in Conns : pc[c] # "off" => sess[c].id \in Ids /\ sess[c].token \in Tokens
    /\ victim \in [Tasks -> Ids \cup {None}]
    /\ \A t \in Tasks : pc[t] \in {"rmSender", "rmClient", "rmRelease", "rmRegistry"} => victim[t] \in Ids
    /\ scan \in [todo : SUBSET Ids, actual : 0 .. Cardinality(Ids), tick : 0 .. ReconcileTicks - 1]
    /\ paired \in BOOLEAN

\* state.rs promises that a slot is released once per reservation.  As long as
\* no entry was written without a reservation and no reconciliation ran over
\* one in flight, every entry and every handler in flight is backed by a slot
\* of the counter, so that no release can wrap it below zero.
SlotCoverage ==
    paired => Cardinality(Live) + Cardinality(Holding) <= active

\* try_reserve_connection_slot closes the check-then-insert race of ws.rs: with
\* any number of handshakes between their reservation and their insertion, the
\* entries and the reservations together stay within concurrent_limit, under
\* the same condition.
LimitRespected ==
    paired => Cardinality(Live) + Cardinality(Reserved) <= ConcurrentLimit

\* The same_channel check of run_client: a channel stored in ws_senders is that
\* of a socket of the same id whose handler still runs, however reconnections,
\* evictions, LEAVE and closes interleave; a finished handler leaves no channel.
SenderHasHandler ==
    \A id \in Ids : wsSenders[id] # None =>
        LET c == wsSenders[id]
        IN  /\ sess[c].id = id
            /\ pc[c] \in {"open", "rmSender", "rmClient", "rmRelease", "rmRegistry"}
            /\ sess[c].closing => pc[c] = "rmSender"

\* The strengthening that makes the two invariants about slots inductive: a
\* refused reservation raises the counter above the limit only while it is
\* being undone, and a count that reconciliation is about to store respected
\* the limit when it was taken.
CounterBound ==
    paired => /\ active <= ConcurrentLimit + Cardinality(At({"unreserve"}))
              /\ scan.actual <= ConcurrentLimit

\* The strengthening for SenderHasHandler: a socket whose read loop ended is
\* removing its own id, and nothing else.
ClosingRemovesItself ==
    \A c \in Conns : sess[c].closing =>
        pc[c] \in {"rmSender", "rmClient", "rmRelease", "rmRegistry"} /\ victim[c] = sess[c].id

\* Eviction by check_broken: an entry whose timer ran out is removed unless its
\* timer is started again, whatever the other tasks do.
LateIsEvicted ==
    \A id \in Ids :
        (clients[id] # None /\ clients[id].late # {})
            ~> (clients[id] = None \/ clients[id].late = {})

\* When the sockets are at rest, no handshake or removal is under way.
AtRest == \A c \in Conns : pc[c] \in {"off", "open"}

\* The handshake and the removal paths implement the counting semaphore that
\* state.rs means active_connections to be: whatever interleaves, sessions come
\* and go one slot at a time and none comes while all slots are taken.
Semaphore == INSTANCE ConnectionLimit WITH
    Limit <- ConcurrentLimit,
    trusted <- paired,
    used <- IF paired THEN Cardinality(Live) + Cardinality(Reserved) ELSE 0
ImplementsLimit == Semaphore!Spec

-----------------------------------------------------------------------------
(* Claims of the repository that the code does not keep.                   *)

\* state.rs, release_connection_slot: "reserve/release are paired", so the
\* counter never goes below zero (it never wraps around).
ReleaseIsPaired == active <= ConcurrentLimit + Cardinality(Conns)
=============================================================================
