------------------------------ MODULE Webhook ------------------------------
(***************************************************************************)
(* Webhook delivery: the bounded queue and the delivery task of webhook.rs *)
(* with the handlers that emit events.  What an event reports (a           *)
(* connection, a disconnection) and its emission are different steps of a  *)
(* handler with an await between them, emissions never wait, and delivery  *)
(* runs on its own with timeouts and retries.                              *)
(***************************************************************************)
EXTENDS Naturals, Sequences, FiniteSets, SequencesExt

CONSTANTS
    Conns,       \* WebSocket connections
    Ids,         \* peer ids
    None,        \* "no entry"
    Capacity,    \* WEBHOOK_QUEUE_CAPACITY, 1024 in the code
    MaxRetries,  \* MAX_RETRIES, 3 in the code
    MaxEvents    \* bound: events emitted in a behaviour

ASSUME WebhookAssumption == {Capacity, MaxRetries} \subseteq Nat \ {0} /\ MaxEvents \in Nat

VARIABLES
    wsSenders,  \* AppState.ws_senders: id -> the connection whose channel is stored
    conn,       \* per connection: where its handler is, and its id
    queue,      \* the channel of the delivery task
    current,    \* the event being delivered, or None
    attempt,    \* failed attempts for it
    received,   \* what the endpoint has received, in order
    emitted,    \* events emitted so far
    disturbed   \* history: ids of which an event was lost or overtaken, or never emitted

connVars == <<wsSenders, conn>>
deliveryVars == <<queue, current, attempt, received>>
vars == <<wsSenders, conn, queue, current, attempt, received, emitted, disturbed>>

Off == [pc |-> "off", id |-> None]
Kinds == {"peer.connected", "peer.disconnected", "other"}
Events == [n : 1 .. MaxEvents, id : Ids, kind : Kinds]

ASSUME WebhookDistinct == None \notin Conns \cup Ids \cup Events

Init ==
    /\ wsSenders = [id \in Ids |-> None]
    /\ conn = [c \in Conns |-> Off]
    /\ queue = << >>
    /\ current = None
    /\ attempt = 0
    /\ received = << >>
    /\ emitted = 0
    /\ disturbed = {}

-----------------------------------------------------------------------------
(* WebhookSender::emit                                                     *)

\* Mutant: the queue has no bound.
EmitUnbounded(id, kind) ==
    /\ emitted < MaxEvents
    /\ emitted' = emitted + 1
    /\ queue' = Append(queue, [n |-> emitted + 1, id |-> id, kind |-> kind])
    /\ UNCHANGED <<current, attempt, received, disturbed>>

\* try_send: queued, or dropped when the queue is full; the caller never waits.
Emit(id, kind) ==
    /\ emitted < MaxEvents
    /\ emitted' = emitted + 1
    /\ \/ /\ Len(queue) < Capacity
          /\ queue' = Append(queue, [n |-> emitted + 1, id |-> id, kind |-> kind])
          /\ UNCHANGED disturbed
       \/ /\ Len(queue) >= Capacity
          /\ disturbed' = disturbed \cup {id}
          /\ UNCHANGED queue
    /\ UNCHANGED <<current, attempt, received>>

-----------------------------------------------------------------------------
(* The handlers that emit.                                                 *)

\* Another handler of the id is between what it did and its event.
Reporting(id) ==
    \E d \in Conns : conn[d].id = id /\ conn[d].pc \in {"attached", "closing", "removed"}

\* The channel is stored; the queued messages are delivered before the event.
Attach(c, id) ==
    /\ conn[c].pc = "off"
    /\ wsSenders' = [wsSenders EXCEPT ![id] = c]
    /\ conn' = [conn EXCEPT ![c] = [pc |-> "attached", id |-> id]]
    /\ disturbed' = IF Reporting(id) THEN disturbed \cup {id} ELSE disturbed
    /\ UNCHANGED <<deliveryVars, emitted>>

EmitConnected(c) ==
    /\ conn[c].pc = "attached"
    /\ Emit(conn[c].id, "peer.connected")
    /\ conn' = [conn EXCEPT ![c].pc = "open"]
    /\ UNCHANGED wsSenders

\* room.joined, room.left, rate.limited
EmitOther(c) ==
    /\ conn[c].pc = "open"
    /\ Emit(conn[c].id, "other")
    /\ UNCHANGED connVars

\* The end of a connection; only that of the stored channel is reported.
Close(c) ==
    /\ conn[c].pc = "open"
    /\ conn' = [conn EXCEPT ![c] =
                   IF wsSenders[@.id] = c THEN [pc |-> "closing", id |-> @.id] ELSE Off]
    /\ UNCHANGED <<wsSenders, deliveryVars, emitted, disturbed>>

RemoveSender(c) ==
    /\ conn[c].pc = "closing"
    /\ wsSenders' = [wsSenders EXCEPT ![conn[c].id] = None]
    /\ conn' = [conn EXCEPT ![c].pc = "removed"]
    /\ UNCHANGED <<deliveryVars, emitted, disturbed>>

\* After the registry entry is removed, an await.
EmitDisconnected(c) ==
    /\ conn[c].pc = "removed"
    /\ Emit(conn[c].id, "peer.disconnected")
    /\ conn' = [conn EXCEPT ![c] = Off]
    /\ UNCHANGED wsSenders

\* check_broken, LEAVE or a dead writer removes the peer and emits nothing.
Evict(id) ==
    /\ wsSenders[id] # None
    /\ wsSenders' = [wsSenders EXCEPT ![id] = None]
    /\ disturbed' = disturbed \cup {id}
    /\ UNCHANGED <<conn, deliveryVars, emitted>>

-----------------------------------------------------------------------------
(* The delivery task.                                                      *)

TakeEvent ==
    /\ current = None
    /\ queue # << >>
    /\ current' = Head(queue)
    /\ queue' = Tail(queue)
    /\ attempt' = 0
    /\ UNCHANGED <<connVars, received, emitted, disturbed>>

\* Any answer of the endpoint, whatever its status, ends the delivery.
PostAnswered ==
    /\ current # None
    /\ received' = Append(received, current)
    /\ current' = None
    /\ attempt' = 0
    /\ UNCHANGED <<connVars, queue, emitted, disturbed>>

\* A request that fails or times out may have reached the endpoint.
Arrives == received' \in {received, Append(received, current)}

\* The event is given up: lost, unless one of the failed requests arrived.
GiveUp ==
    /\ current' = None
    /\ attempt' = 0
    /\ disturbed' = IF current \in Range(received') THEN disturbed ELSE disturbed \cup {current.id}

\* Mutant: a failed event goes to the back of the queue.
PostFailsRequeues ==
    /\ current # None
    /\ Len(queue) < Capacity
    /\ queue' = Append(queue, current)
    /\ current' = None
    /\ attempt' = 0
    /\ UNCHANGED <<connVars, received, emitted, disturbed>>

\* Mutant: after the last delay the list of delays starts again.
PostFailsForever ==
    /\ current # None
    /\ attempt' = (attempt + 1) % MaxRetries
    /\ UNCHANGED <<connVars, queue, current, received, emitted, disturbed>>

\* Mutant: one attempt too many.
PostFailsOnceMore ==
    /\ current # None
    /\ Arrives
    /\ \/ /\ attempt < MaxRetries
          /\ attempt' = attempt + 1
          /\ UNCHANGED <<current, disturbed>>
       \/ /\ attempt >= MaxRetries
          /\ GiveUp
    /\ UNCHANGED <<connVars, queue, emitted>>

\* After a failure the task sleeps and tries again, MAX_RETRIES times in all.
PostFails ==
    /\ current # None
    /\ Arrives
    /\ \/ /\ attempt + 1 < MaxRetries
          /\ attempt' = attempt + 1
          /\ UNCHANGED <<current, disturbed>>
       \/ /\ attempt + 1 >= MaxRetries
          /\ GiveUp
    /\ UNCHANGED <<connVars, queue, emitted>>

\* The process is restarted: the queue is lost.
ServerRestart ==
    /\ wsSenders' = [id \in Ids |-> None]
    /\ conn' = [c \in Conns |-> Off]
    /\ queue' = << >>
    /\ current' = None
    /\ attempt' = 0
    /\ disturbed' = Ids
    /\ UNCHANGED <<received, emitted>>

-----------------------------------------------------------------------------
Delivery == TakeEvent \/ PostAnswered \/ PostFails

Next ==
    \/ \E c \in Conns :
          \/ \E id \in Ids : Attach(c, id)
          \/ EmitConnected(c)
          \/ EmitOther(c)
          \/ Close(c)
          \/ RemoveSender(c)
          \/ EmitDisconnected(c)
    \/ \E id \in Ids : Evict(id)
    \/ Delivery
    \/ ServerRestart

\* The delivery task is never blocked: every request has a timeout of 5 s and
\* every back-off ends.
Spec == Init /\ [][Next]_vars /\ WF_vars(Delivery)

-----------------------------------------------------------------------------
(* Properties.                                                             *)

\* Types; the queue keeps its bound and an event under delivery has attempts
\* left.
WebhookTypeOK ==
    /\ wsSenders \in [Ids -> Conns \cup {None}]
    /\ conn \in [Conns -> [pc : {"off", "attached", "open", "closing", "removed"}, id : Ids \cup {None}]]
    /\ queue \in Seq(Events) /\ Len(queue) <= Capacity
    /\ current \in Events \cup {None}
    /\ attempt \in 0 .. MaxRetries - 1
    /\ received \in Seq(Events)
    /\ emitted \in 0 .. MaxEvents
    /\ disturbed \subseteq Ids

\* The queue and the delivery task implement the lossy FIFO feed: the endpoint
\* sees events in the order of their emission, copies of one event next to each
\* other, and a dead endpoint delays every event but blocks none for ever.
Feed == INSTANCE EventFeed WITH
    Room <- Capacity,
    pending <- (IF current = None THEN << >> ELSE <<current>>) \o queue,
    log <- received
ImplementsFeed == Feed!Spec

\* An endpoint receives an event at most once per attempt, MAX_RETRIES times,
\* although a request that timed out may have arrived.
CopiesAreBounded ==
    \A n \in 1 .. MaxEvents :
        Cardinality({i \in DOMAIN received : received[i].n = n}) <= MaxRetries

\* The last thing that an endpoint was told of a peer, connected or
\* disconnected, agrees with ws_senders once the queue is empty and no handler
\* of the peer is on its way to its event: for a peer that was never removed
\* without an event, of which no event was dropped or given up, and of which no
\* connection began while another one was being reported.
Told(id) == {i \in DOMAIN received : received[i].id = id /\ received[i].kind # "other"}
LastEventTellsState ==
    \A id \in Ids \ disturbed :
        (queue = << >> /\ current = None /\ ~Reporting(id)) =>
            (wsSenders[id] # None <=>
                Told(id) # {} /\ received[Max(Told(id))].kind = "peer.connected")
=============================================================================
