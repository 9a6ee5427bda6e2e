--------------------------- MODULE HttpTransports ---------------------------
(***************************************************************************)
(* The HTTP transports of handlers/http.rs (the SSE stream, the long poll  *)
(* and the send request) composed with the WebSocket sessions, the removal *)
(* paths and check_broken of module Sessions: all of them share `clients`, *)
(* `ws_senders`, the slot counter and the Redis registry.                  *)
(*                                                                         *)
(* A request is a task of its own that hyper drops, at an await, when its  *)
(* client goes away.  An accepted SSE request is two tasks: the stream and *)
(* the watchdog that looks at it every 5 s.                                *)
(***************************************************************************)
EXTENDS Sessions

CONSTANTS
    Requests,  \* HTTP requests; one that is over may be made again
    Chans,     \* unbounded channels made for HTTP clients
    MaxStarts  \* bound: WebSocket connects and HTTP requests of a behaviour

ASSUME RequestsAssumption == IsFiniteSet(Requests) /\ Requests \cap Tasks = {}
\* An unbounded channel can always be made: two maps and two locals of every
\* request cannot refer to all of them.
ASSUME ChansAssumption ==
    /\ None \notin Chans /\ Chans \cap Conns = {}
    /\ IsFiniteSet(Chans) => Cardinality(Chans) > 2 * Cardinality(Ids) + 2 * Cardinality(Requests)
ASSUME HttpWidthAssumption ==
    Width > ConcurrentLimit + Cardinality(Conns) + Cardinality(Requests) + 1
ASSUME StartsAssumption == MaxStarts \in Nat

VARIABLES
    req,      \* per request: where it is and its local variables
    pollRx,   \* AppState.polling_receivers: id -> the channel whose receiver is stored
    covered,  \* history: `paired`, with the slots of HTTP requests counted too
    mixed,    \* history: ids served by anything but one long poll at a time
    starts    \* connects and requests so far

httpVars == <<req, pollRx, covered, mixed, starts>>
allVars == <<vars, httpVars>>

\* A request that is not being served.
Idle == [pc |-> "off", kind |-> "none", id |-> None, token |-> None,
         isNew |-> FALSE, tx |-> None, rx |-> None]

\* The places at which a request awaits and may be dropped.
Awaits == {"backend", "deliver", "wait"}

RequestPcs ==
    {"off", "check", "reserve", "unreserve", "getRx", "getTx", "buildTx", "buildRx",
     "backend", "insert", "touch", "attach", "deliver", "wait", "stream", "dropped",
     "unwatched", "handle", "clSender", "clRx", "clClient", "clRelease", "clRegistry"}

RequestsAt(places) == {q \in Requests : req[q].pc \in places}

\* Requests that hold a slot that no entry of clients backs.
HttpHolding ==
    RequestsAt({"unreserve", "clRelease"}) \cup {q \in RequestsAt(
        {"getRx", "getTx", "buildTx", "buildRx", "backend", "insert"}) : req[q].isNew}

\* Requests with a successful reservation that is still to become an entry.
HttpReserved == HttpHolding \ RequestsAt({"unreserve", "clRelease"})

-----------------------------------------------------------------------------
(* Channels.                                                               *)

\* The channel still has a receiver: that of a stream that is set up or read,
\* the stored one, or the one a poll has cloned.  A socket's writer may die
\* at any time.
RxAlive(ch) ==
    \/ \E id \in Ids : pollRx[id] = ch
    \/ \E q \in Requests : req[q].rx = ch /\ req[q].pc # "dropped"

\* A sender of the channel exists outside its own stream: the stored one or
\* the one a poll has cloned.
TxElsewhere(q) ==
    \/ \E id \in Ids : wsSenders[id] = req[q].tx
    \/ \E p \in Requests \ {q} : req[p].tx = req[q].tx

\* mpsc::unbounded_channel: a channel nobody refers to.
Fresh ==
    CHOOSE ch \in Chans :
        /\ \A id \in Ids : ch \notin {wsSenders[id], pollRx[id]}
        /\ \A q \in Requests : ch \notin {req[q].tx, req[q].rx}

-----------------------------------------------------------------------------
HttpInit ==
    /\ Init
    /\ req = [q \in Requests |-> Idle]
    /\ pollRx = [id \in Ids |-> None]
    /\ covered = TRUE
    /\ mixed = [id \in Ids |-> FALSE]
    /\ starts = 0

\* A client comes.
Start == starts < MaxStarts /\ starts' = starts + 1

Move(q, label) == req' = [req EXCEPT ![q].pc = label]
End(q) == req' = [req EXCEPT ![q] = Idle]

\* The id of a removal is all that the removal still needs.
Clean(q, id, label) ==
    req' = [req EXCEPT ![q] = [Idle EXCEPT !.pc = label, !.id = id, !.kind = req[q].kind]]

-----------------------------------------------------------------------------
(* sse_handler and poll_handler: admission.                                *)

\* `is_new_client = !clients.contains_key(id)`, after key, tenant and JWT were
\* accepted.
Request(q, kind, id, token) ==
    /\ req[q].pc = "off"
    /\ LET isNew == clients[id] = None
       IN  req' = [req EXCEPT ![q] =
                      [Idle EXCEPT !.pc = IF kind = "poll" /\ isNew THEN "reserve" ELSE "check",
                                   !.kind = kind, !.id = id, !.token = token, !.isNew = isNew]]
    /\ mixed' = [mixed EXCEPT ![id] =
                    @ \/ kind = "sse" \/ \E p \in Requests : req[p].id = id /\ req[p].kind = "poll"]
    /\ Start
    /\ UNCHANGED <<vars, pollRx, covered>>

\* 409, "ID is taken"
IdIsTaken(q) == clients[req[q].id] \notin {None} \cup [token : {req[q].token}, late : SUBSET Lateness]

\* The token of the entry is looked at in a second access; an entry that is
\* gone by then is no conflict, and one that has appeared does not make the
\* client less new.
CheckToken(q) ==
    /\ req[q].pc = "check"
    /\ \/ /\ IdIsTaken(q)
          /\ End(q)
       \/ /\ ~IdIsTaken(q)
          /\ Move(q, IF req[q].isNew THEN "reserve"
                     ELSE IF req[q].kind = "sse" THEN "backend" ELSE "getRx")
    /\ UNCHANGED <<vars, pollRx, covered, mixed, starts>>

\* Mutant: the poll checks clients.len() instead of reserving a slot.
HttpReserveByCount(q) ==
    /\ req[q].pc = "reserve"
    /\ \/ /\ Cardinality(Live) >= ConcurrentLimit
          /\ End(q)
       \/ /\ Cardinality(Live) < ConcurrentLimit
          /\ Move(q, IF req[q].kind = "sse" THEN "backend" ELSE "getRx")
    /\ UNCHANGED <<vars, pollRx, covered, mixed, starts>>

\* try_reserve_connection_slot
HttpReserve(q) ==
    /\ req[q].pc = "reserve"
    /\ active' = Wrap(active + 1)
    /\ Move(q, IF active >= ConcurrentLimit THEN "unreserve"
               ELSE IF req[q].kind = "sse" THEN "backend" ELSE "getRx")
    /\ UNCHANGED <<clients, wsSenders, registry, taskVars, paired, pollRx, covered, mixed, starts>>

\* The slot counted above the limit is given back: 503.
HttpGiveBack(q) ==
    /\ req[q].pc = "unreserve"
    /\ active' = Wrap(active - 1)
    /\ End(q)
    /\ UNCHANGED <<clients, wsSenders, registry, taskVars, paired, pollRx, covered, mixed, starts>>

-----------------------------------------------------------------------------
(* poll_handler: the two ends of the channel.                              *)

GetRx(q) ==
    /\ req[q].pc = "getRx"
    /\ req' = [req EXCEPT ![q].pc = "getTx", ![q].rx = pollRx[req[q].id]]
    /\ UNCHANGED <<vars, pollRx, covered, mixed, starts>>

\* Where a poll goes once it has a channel.
Ready(q) == IF req[q].isNew THEN "backend" ELSE "touch"

\* Mutant: with the receiver at hand, only the sender is made anew.
GetTxKeepsReceiver(q) ==
    /\ req[q].pc = "getTx"
    /\ LET tx == wsSenders[req[q].id]
           rx == req[q].rx
       IN  \/ /\ tx # None /\ rx # None
              /\ req' = [req EXCEPT ![q].pc = Ready(q), ![q].tx = tx]
              /\ UNCHANGED wsSenders
           \/ /\ tx = None /\ rx # None
              /\ wsSenders' = [wsSenders EXCEPT ![req[q].id] = Fresh]
              /\ req' = [req EXCEPT ![q].pc = Ready(q), ![q].tx = Fresh]
           \/ /\ rx = None
              /\ req' = [req EXCEPT ![q].pc = "buildTx"]
              /\ UNCHANGED wsSenders
    /\ UNCHANGED <<clients, active, registry, taskVars, paired, pollRx, covered, mixed, starts>>

\* Both ends are there and are taken, or both are made anew.
GetTx(q) ==
    /\ req[q].pc = "getTx"
    /\ LET tx == wsSenders[req[q].id]
       IN  \/ /\ tx # None /\ req[q].rx # None
              /\ req' = [req EXCEPT ![q].pc = Ready(q), ![q].tx = tx]
           \/ /\ tx = None \/ req[q].rx = None
              /\ req' = [req EXCEPT ![q].pc = "buildTx", ![q].rx = None]
    /\ UNCHANGED <<vars, pollRx, covered, mixed, starts>>

\* ws_senders.insert, then polling_receivers.insert.
BuildTx(q) ==
    /\ req[q].pc = "buildTx"
    /\ wsSenders' = [wsSenders EXCEPT ![req[q].id] = Fresh]
    /\ req' = [req EXCEPT ![q].pc = "buildRx", ![q].tx = Fresh, ![q].rx = Fresh]
    /\ UNCHANGED <<clients, active, registry, taskVars, paired, pollRx, covered, mixed, starts>>

BuildRx(q) ==
    /\ req[q].pc = "buildRx"
    /\ pollRx' = [pollRx EXCEPT ![req[q].id] = req[q].rx]
    /\ Move(q, Ready(q))
    /\ UNCHANGED <<vars, covered, mixed, starts>>

-----------------------------------------------------------------------------
(* Both transports: the entry of clients.                                  *)

\* register_client_backend ignores an error.
RegisterBackend(q) ==
    /\ req[q].pc = "backend"
    /\ \/ registry' = [registry EXCEPT ![req[q].id] = req[q].token]
       \/ UNCHANGED registry
    /\ Move(q, "insert")
    /\ UNCHANGED <<serverVars, taskVars, paired, pollRx, covered, mixed, starts>>

\* clients.insert.  A stream that reconnects inserts without a reservation; a
\* new client may replace an entry that another request of its id inserted
\* meanwhile, and that entry's slot is lost until the next reconciliation.
InsertClient(q) ==
    /\ req[q].pc = "insert"
    /\ clients' = [clients EXCEPT ![req[q].id] = NewMeta(req[q].token)]
    /\ covered' = (covered /\ (req[q].isNew \/ clients[req[q].id] # None))
    /\ Move(q, IF req[q].kind = "sse" THEN "attach" ELSE "deliver")
    /\ UNCHANGED <<wsSenders, active, registry, taskVars, paired, pollRx, mixed, starts>>

\* A poll of a known client counts as a heartbeat.
Touch(q) ==
    /\ req[q].pc = "touch"
    /\ clients' = [clients EXCEPT ![req[q].id] =
                      IF @ = None THEN None ELSE [token |-> @.token, late |-> @.late \ {"ping"}]]
    /\ Move(q, "wait")
    /\ UNCHANGED <<wsSenders, active, registry, taskVars, paired, pollRx, covered, mixed, starts>>

\* The stream's channel replaces whatever channel the id had.
AttachStream(q) ==
    /\ req[q].pc = "attach"
    /\ wsSenders' = [wsSenders EXCEPT ![req[q].id] = Fresh]
    /\ req' = [req EXCEPT ![q].pc = "deliver", ![q].tx = Fresh, ![q].rx = Fresh]
    /\ UNCHANGED <<clients, active, registry, taskVars, paired, pollRx, covered, mixed, starts>>

\* deliver_queued_messages; then the poll waits and the stream begins.
Deliver(q) ==
    /\ req[q].pc = "deliver"
    /\ Move(q, IF req[q].kind = "sse" THEN "stream" ELSE "wait")
    /\ UNCHANGED <<vars, pollRx, covered, mixed, starts>>

\* collect_poll_messages_shared answers after 25 s at the latest.
Answer(q) ==
    /\ req[q].pc = "wait"
    /\ End(q)
    /\ UNCHANGED <<vars, pollRx, covered, mixed, starts>>

\* The client gives up while the handler awaits: the handler's future is
\* dropped where it is, with what it holds.  The register command may or may
\* not have reached Redis.  Nothing gives the slot back.
Cancel(q) ==
    /\ req[q].pc \in Awaits
    /\ \/ UNCHANGED registry
       \/ /\ req[q].pc = "backend"
          /\ registry' = [registry EXCEPT ![req[q].id] = req[q].token]
    /\ End(q)
    /\ UNCHANGED <<serverVars, taskVars, paired, pollRx, covered, mixed, starts>>

-----------------------------------------------------------------------------
(* The stream and its watchdog.                                            *)

\* axum drops the stream, and the receiver with it.
Disconnect(q) ==
    /\ \/ /\ req[q].pc = "stream"
          /\ Move(q, "dropped")
       \/ /\ req[q].pc = "unwatched"
          /\ End(q)
    /\ UNCHANGED <<vars, pollRx, covered, mixed, starts>>

\* Mutant: the watchdog does not look at tx.is_closed().
WatchdogMissesClose(q) ==
    /\ req[q].pc \in {"stream", "dropped"}
    /\ clients[req[q].id] = None
    /\ \/ req[q].pc = "stream" /\ Move(q, "unwatched")
       \/ req[q].pc = "dropped" /\ End(q)
    /\ UNCHANGED <<vars, pollRx, covered, mixed, starts>>

\* Mutant: the watchdog only ends with its stream.
WatchdogStays(q) ==
    /\ req[q].pc = "dropped"
    /\ Clean(q, req[q].id, "clSender")
    /\ UNCHANGED <<vars, pollRx, covered, mixed, starts>>

\* The watchdog's tick: a dropped receiver is cleaned up after, by id alone; a
\* client that others removed is no longer watched.
Watchdog(q) ==
    /\ \/ /\ req[q].pc = "dropped"
          /\ Clean(q, req[q].id, "clSender")
       \/ /\ req[q].pc = "stream"
          /\ clients[req[q].id] = None
          /\ Move(q, "unwatched")
    /\ UNCHANGED <<vars, pollRx, covered, mixed, starts>>

\* rx.recv() returns None: the last sender of the stream's channel is gone.
\* The stream itself cleans up, by id alone, and ends.
StreamEnds(q) ==
    /\ req[q].pc = "unwatched"
    /\ ~TxElsewhere(q)
    /\ Clean(q, req[q].id, "clSender")
    /\ UNCHANGED <<vars, pollRx, covered, mixed, starts>>

-----------------------------------------------------------------------------
(* send_handler: the message is handled as one of a WebSocket would be.     *)

\* The caller holds the token of the client, which counts as a heartbeat.
Send(q, id, token) ==
    /\ req[q].pc = "off"
    /\ clients[id] # None
    /\ clients[id].token = token
    /\ clients' = [clients EXCEPT ![id].late = @ \ {"ping"}]
    /\ req' = [req EXCEPT ![q] = [Idle EXCEPT !.pc = "handle", !.kind = "send", !.id = id]]
    /\ Start
    /\ UNCHANGED <<wsSenders, active, registry, taskVars, paired, pollRx, covered, mixed>>

\* handle_message: the idle timer starts again; LEAVE removes its sender, a
\* transmission to a peer whose channel is closed removes that peer.
HandleSent(q) ==
    /\ req[q].pc = "handle"
    /\ clients' = [clients EXCEPT ![req[q].id] =
                      IF @ = None THEN None ELSE [token |-> @.token, late |-> @.late \ {"idle"}]]
    /\ \/ End(q)
       \/ Clean(q, req[q].id, "clSender")
       \/ \E dst \in Ids : /\ wsSenders[dst] # None
                           /\ ~RxAlive(wsSenders[dst])
                           /\ Clean(q, dst, "clSender")
    /\ UNCHANGED <<wsSenders, active, registry, taskVars, paired, pollRx, covered, mixed, starts>>

-----------------------------------------------------------------------------
(* cleanup_client, and the removal of handle_transmission, which keeps the *)
(* polling receiver.                                                       *)

CleanSender(q) ==
    /\ req[q].pc = "clSender"
    /\ wsSenders' = [wsSenders EXCEPT ![req[q].id] = None]
    /\ Move(q, IF req[q].kind = "send" THEN "clClient" ELSE "clRx")
    /\ UNCHANGED <<clients, active, registry, taskVars, paired, pollRx, covered, mixed, starts>>

CleanRx(q) ==
    /\ req[q].pc = "clRx"
    /\ pollRx' = [pollRx EXCEPT ![req[q].id] = None]
    /\ Move(q, "clClient")
    /\ UNCHANGED <<vars, covered, mixed, starts>>

\* Mutant: the slot is released whether or not an entry was removed.
CleanAlwaysReleases(q) ==
    /\ req[q].pc = "clClient"
    /\ clients' = [clients EXCEPT ![req[q].id] = None]
    /\ Move(q, "clRelease")
    /\ UNCHANGED <<wsSenders, active, registry, taskVars, paired, pollRx, covered, mixed, starts>>

CleanClient(q) ==
    /\ req[q].pc = "clClient"
    /\ clients' = [clients EXCEPT ![req[q].id] = None]
    /\ Move(q, IF clients[req[q].id] # None THEN "clRelease" ELSE "clRegistry")
    /\ UNCHANGED <<wsSenders, active, registry, taskVars, paired, pollRx, covered, mixed, starts>>

CleanRelease(q) ==
    /\ req[q].pc = "clRelease"
    /\ active' = Wrap(active - 1)
    /\ Move(q, "clRegistry")
    /\ UNCHANGED <<clients, wsSenders, registry, taskVars, paired, pollRx, covered, mixed, starts>>

\* redis_realm::remove_client, whose error is ignored.
CleanRegistry(q) ==
    /\ req[q].pc = "clRegistry"
    /\ \/ registry' = [registry EXCEPT ![req[q].id] = None]
       \/ UNCHANGED registry
    /\ End(q)
    /\ UNCHANGED <<serverVars, taskVars, paired, pollRx, covered, mixed, starts>>

-----------------------------------------------------------------------------
(* The composition.                                                        *)

\* What the history of this module notes of a step of Sessions.
Aside ==
    /\ covered' = (covered /\ (paired => paired') /\
          (pc[CheckBroken] = "store" /\ pc'[CheckBroken] = "sleep" =>
              Cardinality(Live) + Cardinality(Holding) + Cardinality(HttpHolding) <= active'))
    /\ UNCHANGED <<req, pollRx, mixed, starts>>

SocketStep(c) ==
    \/ /\ \E id \in Ids, token \in Tokens :
             Connect(c, id, token) /\ mixed' = [mixed EXCEPT ![id] = TRUE]
       /\ Start
       /\ UNCHANGED <<req, pollRx, covered>>
    \/ /\ \/ Heartbeat(c)
          \/ Message(c)
          \/ Leave(c)
          \/ \E dst \in Ids : ~RxAlive(wsSenders[dst]) /\ SendToDeadPeer(c, dst)
          \/ Close(c)
       /\ Aside

SocketRuns(c) == (Handshake(c) \/ Removal(c)) /\ Aside

RequestRuns(q) ==
    \/ CheckToken(q)
    \/ HttpReserve(q)
    \/ HttpGiveBack(q)
    \/ GetRx(q)
    \/ GetTx(q)
    \/ BuildTx(q)
    \/ BuildRx(q)
    \/ RegisterBackend(q)
    \/ InsertClient(q)
    \/ Touch(q)
    \/ AttachStream(q)
    \/ Deliver(q)
    \/ Answer(q)
    \/ Watchdog(q)
    \/ StreamEnds(q)
    \/ HandleSent(q)
    \/ CleanSender(q)
    \/ CleanRx(q)
    \/ CleanClient(q)
    \/ CleanRelease(q)
    \/ CleanRegistry(q)

HttpRestart ==
    /\ ServerRestart
    /\ req' = [q \in Requests |-> Idle]
    /\ pollRx' = [id \in Ids |-> None]
    /\ covered' = TRUE
    /\ mixed' = [id \in Ids |-> FALSE]
    /\ UNCHANGED starts

HttpNext ==
    \/ \E c \in Conns : SocketStep(c) \/ SocketRuns(c)
    \/ CheckBrokenStep /\ Aside
    \/ \E id \in Ids, timer \in Lateness : TimerExpires(id, timer) /\ Aside
    \/ \E id \in Ids : RegistryExpires(id) /\ Aside
    \/ \E q \in Requests :
          \/ \E kind \in {"sse", "poll"}, id \in Ids, token \in Tokens : Request(q, kind, id, token)
          \/ \E id \in Ids, token \in Tokens : Send(q, id, token)
          \/ RequestRuns(q)
          \/ Cancel(q)
          \/ Disconnect(q)
    \/ HttpRestart

HttpSpec == HttpInit /\ [][HttpNext]_allVars

\* tokio runs every task that is ready, the watchdog's sleep and the poll's
\* timeout end, and check_broken wakes up every 300 ms.  Clients promise
\* nothing: they need not connect, give up, or disconnect.
HttpFairness ==
    /\ \A c \in Conns : WF_allVars(SocketRuns(c))
    /\ \A q \in Requests : WF_allVars(RequestRuns(q))
    /\ WF_allVars(CheckBrokenStep /\ Aside)

HttpFairSpec == HttpSpec /\ HttpFairness

-----------------------------------------------------------------------------
(* Properties.                                                             *)

\* Types of the maps and the requests; a stream or a poll that has a channel
\* has both its ends or awaits them.
HttpTypeOK ==
    /\ clients \in [Ids -> Meta \cup {None}]
    /\ wsSenders \in [Ids -> Conns \cup Chans \cup {None}]
    /\ pollRx \in [Ids -> Chans \cup {None}]
    /\ active \in 0 .. Width - 1
    /\ req \in [Requests -> [pc : RequestPcs, kind : {"none", "sse", "poll", "send"},
                             id : Ids \cup {None}, token : Tokens \cup {None}, isNew : BOOLEAN,
                             tx : Conns \cup Chans \cup {None}, rx : Chans \cup {None}]]
    /\ \A q \in Requests :
          /\ req[q].pc = "off" <=> req[q] = Idle
          /\ req[q].pc \in {"stream", "dropped", "unwatched"} => req[q].tx = req[q].rx /\ req[q].tx # None

\* SlotCoverage with the HTTP transports: entries, sockets and requests in
\* flight are backed by slots, so that no release of any transport wraps the
\* counter, as long as no entry was written without a slot and reconciliation
\* ran over none in flight.  Dropped requests and replaced entries only ever
\* leave the counter too high.
HttpSlotCoverage ==
    covered => Cardinality(Live) + Cardinality(Holding) + Cardinality(HttpHolding) <= active

\* ImplementsLimit with the HTTP transports: sockets, streams and polls together
\* implement one counting semaphore of concurrent_limit slots.
HttpSemaphore == INSTANCE ConnectionLimit WITH
    Limit <- ConcurrentLimit,
    trusted <- covered,
    used <- IF covered
            THEN Cardinality(Live) + Cardinality(Reserved) + Cardinality(HttpReserved) ELSE 0
HttpImplementsLimit == HttpSemaphore!Spec

\* poll_handler, "Rebuild both ends consistently": for a client that polls and
\* does nothing else at the same time, the stored sender and the stored
\* receiver belong to one channel, whatever LEAVE, dead-peer removal and
\* eviction took from the pair; what is sent is what the next poll drains.
PollEndsMatch ==
    \A id \in Ids :
        (/\ ~mixed[id]
         /\ None \notin {wsSenders[id], pollRx[id]}
         /\ ~\E q \in RequestsAt({"buildRx"}) : req[q].id = id)
            => wsSenders[id] = pollRx[id]

\* The watchdog's promise: when the client of a stream disconnects, its entry
\* is removed without waiting for the heartbeat timeout.
DroppedStreamIsRemoved ==
    \A q \in Requests, id \in Ids :
        (req[q].pc = "dropped" /\ req[q].id = id) ~> (clients[id] = None)

\* A stream whose client was removed through another path ends instead of
\* being kept alive by its own watchdog, unless the id comes back.
RemovedStreamEnds ==
    \A q \in Requests, id \in Ids :
        (req[q].pc = "stream" /\ req[q].id = id /\ clients[id] = None /\ wsSenders[id] = None)
            ~> (req[q].pc \notin {"stream", "unwatched"} \/ clients[id] # None \/ wsSenders[id] # None)

\* Reconciliation by check_broken ("fixing any drift"): the slots lost by dropped
\* requests and replaced entries, and those released but never reserved, are
\* made good: when requests and sockets come to rest, the counter is again and
\* again the number of entries.
HttpAtRest == AtRest /\ Requests = RequestsAt({"off", "stream"})
HttpDriftIsHealed == <>[]HttpAtRest => []<>(active = Cardinality(Live))
=============================================================================
