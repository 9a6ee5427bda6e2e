--------------------------- MODULE WebhookProofs ---------------------------
(***************************************************************************)
(* Theorems about Webhook, for any number of connections, peers and        *)
(* events, and for every capacity of the queue and number of attempts.     *)
(***************************************************************************)
EXTENDS Webhook, FiniteSetTheorems, SequenceTheorems, WellFoundedInduction, TLAPS

-----------------------------------------------------------------------------
(* The inductive invariants.                                               *)

\* The types, and a handler that is running has a peer.
WebhookShape ==
    /\ WebhookTypeOK
    /\ \A c \in Conns : conn[c].pc = "off" <=> conn[c].id = None

\* Events are numbered in the order of their emission, and that order is kept
\* from the queue over the event under delivery to the endpoint; a number
\* stands for one event.
NumberInv ==
    /\ \A i \in DOMAIN queue : queue[i].n <= emitted
    /\ \A i, j \in DOMAIN queue : i < j => queue[i].n < queue[j].n
    /\ \A i \in DOMAIN received : received[i].n <= emitted
    /\ \A i, j \in DOMAIN received : i < j => received[i].n <= received[j].n
    /\ \A i, j \in DOMAIN received : received[i].n = received[j].n => received[i] = received[j]
    /\ \A i \in DOMAIN received, j \in DOMAIN queue : received[i].n < queue[j].n
    /\ current # None =>
          /\ current.n <= emitted
          /\ \A j \in DOMAIN queue : current.n < queue[j].n
          /\ \A i \in DOMAIN received : received[i].n <= current.n
          /\ \A i \in DOMAIN received : received[i].n = current.n => received[i] = current

\* Where the endpoint received copies of an event; the event under delivery
\* arrived at most once per failed attempt.
Copies(log, n) == {i \in DOMAIN log : log[i].n = n}
CopiesInv ==
    /\ \A n \in 1 .. MaxEvents : Cardinality(Copies(received, n)) <= MaxRetries
    /\ current # None => Cardinality(Copies(received, current.n)) <= attempt

\* What the endpoint knows or is going to be told, if nothing is lost.
Notices == Range(received) \cup Range(queue) \cup ({current} \ {None})

\* The latest of these events about a peer says that it is connected.
About(S, id) == {e \in S : e.id = id /\ e.kind # "other"}
SaysConnected(S, id) ==
    \E e \in About(S, id) : e.kind = "peer.connected" /\ \A f \in About(S, id) : f.n <= e.n

\* For a peer that is not disturbed the handler that is to report something
\* still owns what it reports, and apart from it ws_senders is as announced.
ToldTruly(id) ==
    /\ \A c \in Conns : conn[c].id = id /\ conn[c].pc \in {"attached", "closing"} => wsSenders[id] = c
    /\ \A c \in Conns : conn[c].id = id /\ conn[c].pc = "removed" => wsSenders[id] = None
    /\ ~Reporting(id) => (wsSenders[id] # None <=> SaysConnected(Notices, id))
ToldInv == \A id \in Ids \ disturbed : ToldTruly(id)
-----------------------------------------------------------------------------
(* What the steps do to the feed.                                          *)

\* An event is emitted: queued, or dropped because the queue is full.
Queued(id, kind) ==
    /\ emitted < MaxEvents /\ emitted' = emitted + 1
    /\ Len(queue) < Capacity
    /\ \E e \in Events :
          /\ e.n = emitted + 1 /\ e.id = id /\ e.kind = kind
          /\ queue' = Append(queue, e)
    /\ UNCHANGED <<current, attempt, received, disturbed>>
Dropped(id) ==
    /\ emitted < MaxEvents /\ emitted' = emitted + 1
    /\ disturbed' = disturbed \cup {id}
    /\ UNCHANGED <<queue, current, attempt, received>>

\* WebhookSender::emit does one of these.
LEMMA EmitEffect ==
    ASSUME WebhookTypeOK, NEW id \in Ids, NEW kind \in Kinds, Emit(id, kind)
    PROVE  Queued(id, kind) \/ Dropped(id)
<1>1. emitted \in 0 .. MaxEvents /\ MaxEvents \in Nat
  BY WebhookAssumption DEF WebhookTypeOK
<1>2. emitted + 1 \in 1 .. MaxEvents
  BY <1>1 DEF Emit
<1>3. PICK e : e = [n |-> emitted + 1, id |-> id, kind |-> kind]
  OBVIOUS
<1>4. e \in Events /\ e.n = emitted + 1 /\ e.id = id /\ e.kind = kind
  BY <1>2, <1>3 DEF Events
<1>5. CASE Len(queue) < Capacity /\ queue' = Append(queue, e) /\ UNCHANGED disturbed
  BY <1>4, <1>5 DEF Emit, Queued
<1>6. CASE disturbed' = disturbed \cup {id} /\ UNCHANGED queue
  BY <1>6 DEF Emit, Dropped
<1> QED
  BY <1>3, <1>5, <1>6 DEF Emit

\* The kinds of steps, seen from the feed: a handler, the eviction or a restart
\* leaves the events alone, emits one or forgets the pending ones; the delivery
\* task takes, retries or ends an event.
Retried ==
    /\ current # None /\ Arrives
    /\ attempt + 1 < MaxRetries /\ attempt' = attempt + 1
    /\ UNCHANGED <<connVars, queue, current, emitted, disturbed>>
GivenUp ==
    /\ current # None /\ Arrives /\ GiveUp
    /\ UNCHANGED <<connVars, queue, emitted>>
FeedStep ==
    \/ UNCHANGED <<deliveryVars, emitted>>
    \/ \E id \in Ids, kind \in Kinds : Queued(id, kind)
    \/ \E id \in Ids : Dropped(id)
    \/ TakeEvent
    \/ PostAnswered
    \/ Retried
    \/ GivenUp
    \/ ServerRestart

\* What a running handler knows.
LEMMA ConnKnows ==
    ASSUME WebhookShape, NEW c \in Conns
    PROVE  /\ conn[c].pc \in {"off", "attached", "open", "closing", "removed"}
           /\ conn[c].id \in Ids \cup {None}
           /\ conn[c].pc # "off" => conn[c].id \in Ids
<1>1. conn[c] \in [pc : {"off", "attached", "open", "closing", "removed"}, id : Ids \cup {None}]
  BY DEF WebhookShape, WebhookTypeOK
<1> QED
  BY <1>1 DEF WebhookShape

\* Every step is of one of these kinds.
LEMMA FeedSteps == WebhookShape /\ [Next]_vars => FeedStep
<1> SUFFICES ASSUME WebhookShape, [Next]_vars PROVE FeedStep
  OBVIOUS
<1>quiet. ASSUME UNCHANGED <<deliveryVars, emitted>> PROVE FeedStep
  BY <1>quiet DEF FeedStep
<1>emit. ASSUME NEW id \in Ids, NEW kind \in Kinds, Emit(id, kind) PROVE FeedStep
  <2>1. Queued(id, kind) \/ Dropped(id)
    BY <1>emit, EmitEffect DEF WebhookShape
  <2> QED
    BY <2>1 DEF FeedStep
<1>1. ASSUME NEW c \in Conns, NEW id \in Ids, Attach(c, id) PROVE FeedStep
  BY <1>1, <1>quiet DEF Attach
<1>2. ASSUME NEW c \in Conns, EmitConnected(c) PROVE FeedStep
  BY <1>2, <1>emit, ConnKnows DEF EmitConnected, Kinds
<1>3. ASSUME NEW c \in Conns, EmitOther(c) PROVE FeedStep
  BY <1>3, <1>emit, ConnKnows DEF EmitOther, Kinds
<1>4. ASSUME NEW c \in Conns, Close(c) \/ RemoveSender(c) PROVE FeedStep
  BY <1>4, <1>quiet DEF Close, RemoveSender
<1>5. ASSUME NEW c \in Conns, EmitDisconnected(c) PROVE FeedStep
  BY <1>5, <1>emit, ConnKnows DEF EmitDisconnected, Kinds
<1>6. ASSUME NEW id \in Ids, Evict(id) PROVE FeedStep
  BY <1>6, <1>quiet DEF Evict
<1>7. CASE Delivery
  <2>1. PostFails => Retried \/ GivenUp
    BY DEF PostFails, Retried, GivenUp
  <2> QED
    BY <1>7, <2>1 DEF Delivery, FeedStep
<1>8. CASE ServerRestart
  BY <1>8 DEF FeedStep
<1>9. CASE UNCHANGED vars
  BY <1>9, <1>quiet DEF vars, deliveryVars
<1> QED
  BY <1>1, <1>2, <1>3, <1>4, <1>5, <1>6, <1>7, <1>8, <1>9, Zenon DEF Next

-----------------------------------------------------------------------------
(* Types.                                                                  *)

FeedTypes ==
    /\ queue \in Seq(Events) /\ Len(queue) <= Capacity
    /\ current \in Events \cup {None}
    /\ attempt \in 0 .. MaxRetries - 1
    /\ received \in Seq(Events)
    /\ emitted \in 0 .. MaxEvents

\* A step keeps the types and bounds of the feed.
LEMMA NextFeedTypes == WebhookShape /\ [Next]_vars => FeedTypes'
<1> SUFFICES ASSUME WebhookShape, [Next]_vars PROVE FeedTypes'
  OBVIOUS
<1> USE WebhookAssumption
<1>t. FeedTypes
  BY DEF WebhookShape, WebhookTypeOK, FeedTypes
<1>arrives. ASSUME current # None, Arrives PROVE received' \in Seq(Events)
  BY <1>t, <1>arrives DEF Arrives, FeedTypes
<1>1. CASE UNCHANGED <<deliveryVars, emitted>>
  BY <1>t, <1>1 DEF deliveryVars, FeedTypes
<1>2. ASSUME NEW id \in Ids, NEW kind \in Kinds, Queued(id, kind) PROVE FeedTypes'
  <2>1. PICK e \in Events : queue' = Append(queue, e)
    BY <1>2 DEF Queued
  <2>2. queue' \in Seq(Events) /\ Len(queue') <= Capacity
    BY <1>t, <1>2, <2>1 DEF Queued, FeedTypes
  <2> QED
    BY <1>t, <1>2, <2>2 DEF Queued, FeedTypes
<1>3. ASSUME NEW id \in Ids, Dropped(id) PROVE FeedTypes'
  BY <1>t, <1>3 DEF Dropped, FeedTypes
<1>4. CASE TakeEvent
  <2>1. queue' \in Seq(Events) /\ Len(queue') <= Capacity /\ current' \in Events
    BY <1>t, <1>4 DEF TakeEvent, FeedTypes
  <2> QED
    BY <1>t, <1>4, <2>1 DEF TakeEvent, FeedTypes
<1>5. CASE PostAnswered
  BY <1>t, <1>5 DEF PostAnswered, FeedTypes
<1>6. CASE Retried
  BY <1>t, <1>6, <1>arrives DEF Retried, FeedTypes
<1>7. CASE GivenUp
  BY <1>t, <1>7, <1>arrives DEF GivenUp, GiveUp, FeedTypes
<1>8. CASE ServerRestart
  BY <1>t, <1>8 DEF ServerRestart, FeedTypes
<1> QED
  BY <1>1, <1>2, <1>3, <1>4, <1>5, <1>6, <1>7, <1>8, FeedSteps, Zenon DEF FeedStep

ConnStates ==
    {x \in [pc : {"off", "attached", "open", "closing", "removed"}, id : Ids \cup {None}] :
        x.pc = "off" <=> x.id = None}
ConnTypes ==
    /\ wsSenders \in [Ids -> Conns \cup {None}]
    /\ conn \in [Conns -> ConnStates]
    /\ disturbed \subseteq Ids

\* The shape is that of the connections and that of the feed.
LEMMA ShapeParts == WebhookShape <=> ConnTypes /\ FeedTypes
BY DEF WebhookShape, WebhookTypeOK, ConnTypes, FeedTypes, ConnStates

\* The server starts without connections and events.
LEMMA InitShape == Init => WebhookShape
<1> SUFFICES ASSUME Init PROVE WebhookShape
  OBVIOUS
<1>1. Off \in ConnStates
  BY DEF Off, ConnStates
<1>2. ConnTypes
  BY <1>1 DEF Init, ConnTypes
<1>3. FeedTypes
  BY WebhookAssumption DEF Init, FeedTypes
<1> QED
  BY <1>2, <1>3, ShapeParts

\* A step of a handler moves it and nobody else.
LEMMA NextConnTypes == WebhookShape /\ [Next]_vars => ConnTypes'
<1> SUFFICES ASSUME WebhookShape, [Next]_vars PROVE ConnTypes'
  OBVIOUS
<1> USE WebhookDistinct
<1>t. ConnTypes
  BY ShapeParts
<1>off. Off \in ConnStates
  BY DEF Off, ConnStates
<1>step. ASSUME NEW c \in Conns, NEW x \in ConnStates, conn' = [conn EXCEPT ![c] = x],
                wsSenders' \in [Ids -> Conns \cup {None}], disturbed' \subseteq Ids
         PROVE  ConnTypes'
  BY <1>t, <1>step DEF ConnTypes
<1>go. ASSUME NEW c \in Conns, conn[c].pc # "off", NEW pc \in {"open", "removed"},
              conn' = [conn EXCEPT ![c].pc = pc],
              wsSenders' \in [Ids -> Conns \cup {None}], disturbed' \subseteq Ids
       PROVE  ConnTypes'
  <2> PICK y \in ConnStates : y = conn[c]
    BY <1>t DEF ConnTypes
  <2> DEFINE x == [y EXCEPT !.pc = pc]
  <2>1. x \in ConnStates
    BY <1>go DEF ConnStates
  <2>2. conn' = [conn EXCEPT ![c] = x]
    BY <1>go, <1>t DEF ConnTypes
  <2> HIDE DEF x
  <2> QED
    BY <1>go, <2>1, <2>2, <1>step
<1>emit. ASSUME NEW id \in Ids, NEW kind \in Kinds, Emit(id, kind) PROVE disturbed' \subseteq Ids
  BY <1>emit, <1>t DEF Emit, ConnTypes
<1>ids. \A c \in Conns : conn[c].pc # "off" => conn[c].id \in Ids
  BY ConnKnows
<1>1. ASSUME NEW c \in Conns, NEW id \in Ids, Attach(c, id) PROVE ConnTypes'
  <2>x. PICK x : x = [pc |-> "attached", id |-> id]
    OBVIOUS
  <2>1. x \in ConnStates
    BY <2>x DEF ConnStates
  <2>2. conn' = [conn EXCEPT ![c] = x]
    BY <1>1, <2>x DEF Attach
  <2>3. wsSenders' \in [Ids -> Conns \cup {None}] /\ disturbed' \subseteq Ids
    BY <1>t, <1>1 DEF Attach, ConnTypes
  <2> QED
    BY <2>1, <2>2, <2>3, <1>step
<1>2. ASSUME NEW c \in Conns, EmitConnected(c) PROVE ConnTypes'
  <2>1. disturbed' \subseteq Ids
    BY <1>2, <1>emit, <1>ids DEF EmitConnected, Kinds
  <2> QED
    BY <1>t, <1>2, <2>1, <1>go DEF EmitConnected, ConnTypes
<1>3. ASSUME NEW c \in Conns, EmitOther(c) PROVE ConnTypes'
  <2>1. disturbed' \subseteq Ids
    BY <1>3, <1>emit, <1>ids DEF EmitOther, Kinds
  <2> QED
    BY <1>t, <1>3, <2>1 DEF EmitOther, connVars, ConnTypes
<1>4. ASSUME NEW c \in Conns, Close(c) PROVE ConnTypes'
  <2>x. PICK x : x = IF wsSenders[conn[c].id] = c THEN [pc |-> "closing", id |-> conn[c].id] ELSE Off
    OBVIOUS
  <2>1. conn[c].id \in Ids
    BY <1>4, <1>ids DEF Close
  <2>2. x \in ConnStates
    BY <2>x, <2>1, <1>off DEF ConnStates
  <2>3. conn' = [conn EXCEPT ![c] = x] /\ UNCHANGED <<wsSenders, disturbed>>
    BY <1>4, <2>x DEF Close
  <2> QED
    BY <1>t, <2>2, <2>3, <1>step DEF ConnTypes
<1>5. ASSUME NEW c \in Conns, RemoveSender(c) PROVE ConnTypes'
  <2>1. wsSenders' \in [Ids -> Conns \cup {None}] /\ disturbed' \subseteq Ids
    BY <1>t, <1>5 DEF RemoveSender, ConnTypes
  <2> QED
    BY <1>5, <2>1, <1>go DEF RemoveSender
<1>6. ASSUME NEW c \in Conns, EmitDisconnected(c) PROVE ConnTypes'
  <2>1. disturbed' \subseteq Ids
    BY <1>6, <1>emit, <1>ids DEF EmitDisconnected, Kinds
  <2> QED
    BY <1>t, <1>6, <2>1, <1>step, <1>off DEF EmitDisconnected, ConnTypes
<1>7. ASSUME NEW id \in Ids, Evict(id) PROVE ConnTypes'
  BY <1>t, <1>7 DEF Evict, ConnTypes
<1>8. CASE Delivery
  <2>1. UNCHANGED connVars
    BY <1>8 DEF Delivery, TakeEvent, PostAnswered, PostFails
  <2>2. disturbed' \subseteq Ids
    <3>1. current \in Events \cup {None} /\ (current # None => current.id \in Ids)
      BY DEF WebhookShape, WebhookTypeOK, Events
    <3> QED
      BY <1>t, <1>8, <3>1 DEF Delivery, TakeEvent, PostAnswered, PostFails, GiveUp, ConnTypes
  <2> QED
    BY <1>t, <2>1, <2>2 DEF connVars, ConnTypes
<1>9. CASE ServerRestart
  BY <1>9, <1>off DEF ServerRestart, ConnTypes
<1>10. CASE UNCHANGED vars
  BY <1>t, <1>10 DEF vars, ConnTypes
<1> QED
  BY <1>1, <1>2, <1>3, <1>4, <1>5, <1>6, <1>7, <1>8, <1>9, <1>10, Zenon DEF Next

\* Every step keeps the shape.
LEMMA NextShape == WebhookShape /\ [Next]_vars => WebhookShape'
<1> SUFFICES ASSUME WebhookShape, [Next]_vars PROVE WebhookShape'
  OBVIOUS
<1>1. ConnTypes' /\ FeedTypes'
  BY NextConnTypes, NextFeedTypes
<1>2. (WebhookShape <=> ConnTypes /\ FeedTypes)'
  BY DEF WebhookShape, WebhookTypeOK, ConnTypes, FeedTypes, ConnStates
<1> QED
  BY <1>1, <1>2
-----------------------------------------------------------------------------
(* The order of the events and the number of their copies.                 *)

\* One event more at the end of a sequence.
LEMMA Appended ==
    ASSUME NEW s \in Seq(Events), NEW e \in Events
    PROVE  /\ DOMAIN s = 1 .. Len(s) /\ Len(s) \in Nat
           /\ DOMAIN Append(s, e) = 1 .. Len(s) + 1
           /\ Append(s, e)[Len(s) + 1] = e
           /\ \A i \in DOMAIN s : i \in DOMAIN Append(s, e) /\ Append(s, e)[i] = s[i]
           /\ \A i \in DOMAIN Append(s, e) : i \in DOMAIN s \/ i = Len(s) + 1
OBVIOUS

\* The first event leaves a sequence.
LEMMA Taken ==
    ASSUME NEW s \in Seq(Events), s # << >>
    PROVE  /\ 1 \in DOMAIN s /\ Head(s) = s[1] /\ Head(s) \in Events
           /\ \A i \in DOMAIN Tail(s) : i \in Nat /\ i + 1 \in DOMAIN s /\ Tail(s)[i] = s[i + 1] /\ 1 < i + 1
           /\ \A i \in DOMAIN s : i = 1 \/ i - 1 \in DOMAIN Tail(s)
OBVIOUS

\* Numbers of events are numbers.
LEMMA Numbers ==
    ASSUME FeedTypes
    PROVE  /\ \A i \in DOMAIN queue : queue[i] \in Events /\ queue[i].n \in Nat /\ i \in Nat
           /\ \A i \in DOMAIN received : received[i] \in Events /\ received[i].n \in Nat /\ i \in Nat
           /\ current # None => current \in Events /\ current.n \in 1 .. MaxEvents
           /\ emitted \in Nat
<1>1. \A e \in Events : e.n \in 1 .. MaxEvents
  BY DEF Events
<1> QED
  BY <1>1, WebhookAssumption DEF FeedTypes

\* The event under delivery reaches the endpoint.
LEMMA ReceivedInOrder ==
    ASSUME FeedTypes, NumberInv, current # None, received' = Append(received, current)
    PROVE  /\ \A i \in DOMAIN received' : received'[i].n <= current.n
           /\ \A i \in DOMAIN received' : received'[i].n = current.n => received'[i] = current
           /\ \A i, j \in DOMAIN received' : i < j => received'[i].n <= received'[j].n
           /\ \A i, j \in DOMAIN received' : received'[i].n = received'[j].n => received'[i] = received'[j]
<1>n. /\ \A i \in DOMAIN received : received[i].n \in Nat /\ i \in Nat
      /\ received \in Seq(Events) /\ current \in Events /\ current.n \in Nat
  BY Numbers DEF FeedTypes
<1>a. /\ DOMAIN received = 1 .. Len(received) /\ Len(received) \in Nat
      /\ received'[Len(received) + 1] = current
      /\ \A i \in DOMAIN received : received'[i] = received[i]
      /\ \A i \in DOMAIN received' : i \in DOMAIN received \/ i = Len(received) + 1
  BY <1>n, Appended
<1>1. /\ \A i \in DOMAIN received : received[i].n <= current.n
      /\ \A i \in DOMAIN received : received[i].n = current.n => received[i] = current
      /\ \A i, j \in DOMAIN received : i < j => received[i].n <= received[j].n
      /\ \A i, j \in DOMAIN received : received[i].n = received[j].n => received[i] = received[j]
  BY DEF NumberInv
<1>2. \A i \in DOMAIN received' : received'[i].n <= current.n
  BY <1>n, <1>a, <1>1
<1>3. \A i \in DOMAIN received' : received'[i].n = current.n => received'[i] = current
  BY <1>n, <1>a, <1>1
<1>4. ASSUME NEW i \in DOMAIN received', NEW j \in DOMAIN received', i < j
      PROVE  received'[i].n <= received'[j].n
  <2>1. CASE j = Len(received) + 1
    BY <1>2, <2>1, <1>a
  <2>2. CASE j \in DOMAIN received
    <3>1. i \in DOMAIN received
      BY <1>4, <2>2, <1>a
    <3> QED
      BY <1>4, <2>2, <3>1, <1>a, <1>1
  <2> QED
    BY <2>1, <2>2, <1>a
<1>5. ASSUME NEW i \in DOMAIN received', NEW j \in DOMAIN received', received'[i].n = received'[j].n
      PROVE  received'[i] = received'[j]
  <2>1. CASE i \in DOMAIN received /\ j \in DOMAIN received
    BY <1>5, <2>1, <1>a, <1>1
  <2>2. CASE i = Len(received) + 1 \/ j = Len(received) + 1
    BY <1>5, <2>2, <1>a, <1>3
  <2> QED
    BY <2>1, <2>2, <1>a
<1> QED
  BY <1>2, <1>3, <1>4, <1>5

\* Every step keeps the order of emission.
LEMMA NextNumbers == WebhookShape /\ NumberInv /\ [Next]_vars => NumberInv'
<1> SUFFICES ASSUME WebhookShape, NumberInv, [Next]_vars PROVE NumberInv'
  OBVIOUS
<1>t. FeedTypes
  BY ShapeParts
<1>n. /\ \A i \in DOMAIN queue : queue[i] \in Events /\ queue[i].n \in Nat /\ i \in Nat
      /\ \A i \in DOMAIN received : received[i] \in Events /\ received[i].n \in Nat /\ i \in Nat
      /\ current # None => current \in Events /\ current.n \in Nat
      /\ emitted \in Nat /\ queue \in Seq(Events) /\ received \in Seq(Events)
  BY <1>t, Numbers DEF FeedTypes
<1>1. CASE UNCHANGED <<deliveryVars, emitted>>
  BY <1>1 DEF deliveryVars, NumberInv
<1>2. ASSUME NEW id \in Ids, NEW kind \in Kinds, Queued(id, kind) PROVE NumberInv'
  <2>1. PICK e \in Events : e.n = emitted + 1 /\ queue' = Append(queue, e)
    BY <1>2 DEF Queued
  <2>2. emitted' = emitted + 1 /\ UNCHANGED <<current, received>>
    BY <1>2 DEF Queued
  <2>3. /\ DOMAIN queue = 1 .. Len(queue) /\ Len(queue) \in Nat
        /\ queue'[Len(queue) + 1] = e
        /\ \A i \in DOMAIN queue : queue'[i] = queue[i]
        /\ \A i \in DOMAIN queue' : i \in DOMAIN queue \/ i = Len(queue) + 1
    BY <2>1, <1>n, Appended
  <2>4. \A i \in DOMAIN queue' : queue'[i].n <= emitted'
    BY <2>1, <2>2, <2>3, <1>n DEF NumberInv
  <2>5. ASSUME NEW i \in DOMAIN queue', NEW j \in DOMAIN queue', i < j PROVE queue'[i].n < queue'[j].n
    <3>1. i \in DOMAIN queue /\ queue[i].n <= emitted
      BY <2>3, <2>5 DEF NumberInv
    <3>2. CASE j \in DOMAIN queue
      BY <2>3, <2>5, <3>1, <3>2 DEF NumberInv
    <3>3. CASE j = Len(queue) + 1
      BY <2>1, <2>3, <3>1, <3>3, <1>n
    <3> QED
      BY <2>3, <3>2, <3>3
  <2>6. \A i \in DOMAIN received, j \in DOMAIN queue' : received[i].n < queue'[j].n
    BY <2>1, <2>3, <1>n DEF NumberInv
  <2>7. \A i \in DOMAIN received : received[i].n <= emitted'
    BY <2>2, <1>n DEF NumberInv
  <2>8. current # None => current.n <= emitted' /\ \A j \in DOMAIN queue' : current.n < queue'[j].n
    BY <2>1, <2>2, <2>3, <1>n DEF NumberInv
  <2> QED
    BY <2>2, <2>4, <2>5, <2>6, <2>7, <2>8 DEF NumberInv
<1>3. ASSUME NEW id \in Ids, Dropped(id) PROVE NumberInv'
  <2>1. emitted' = emitted + 1 /\ UNCHANGED <<queue, current, received>>
    BY <1>3 DEF Dropped
  <2> QED
    BY <2>1, <1>n DEF NumberInv
<1>4. CASE TakeEvent
  <2>1. current = None /\ queue # << >> /\ current' = Head(queue) /\ queue' = Tail(queue) /\ UNCHANGED <<received, emitted>>
    BY <1>4 DEF TakeEvent
  <2>2. /\ 1 \in DOMAIN queue /\ current' = queue[1]
        /\ \A i \in DOMAIN queue' : i \in Nat /\ i + 1 \in DOMAIN queue /\ queue'[i] = queue[i + 1] /\ 1 < i + 1
    BY <2>1, <1>n, Taken
  <2>3. \A i \in DOMAIN queue' : queue'[i].n <= emitted
    BY <2>2 DEF NumberInv
  <2>4. \A i, j \in DOMAIN queue' : i < j => queue'[i].n < queue'[j].n
    BY <2>2 DEF NumberInv
  <2>5. \A i \in DOMAIN received, j \in DOMAIN queue' : received[i].n < queue'[j].n
    BY <2>2 DEF NumberInv
  <2>6. /\ current'.n <= emitted
        /\ \A j \in DOMAIN queue' : current'.n < queue'[j].n
        /\ \A i \in DOMAIN received : received[i].n < current'.n
    BY <2>2 DEF NumberInv
  <2> QED
    BY <2>1, <2>2, <2>3, <2>4, <2>5, <2>6, <1>n DEF NumberInv
\* The endpoint receives the event under delivery, or does not.
<1>arrives. ASSUME current # None, Arrives, UNCHANGED <<queue, emitted>>, current' \in {current, None}
            PROVE  NumberInv'
  <2>1. CASE UNCHANGED received
    BY <1>arrives, <2>1 DEF NumberInv
  <2>2. CASE received' = Append(received, current)
    <3>1. /\ \A i \in DOMAIN received' : received'[i].n <= current.n
          /\ \A i \in DOMAIN received' : received'[i].n = current.n => received'[i] = current
          /\ \A i, j \in DOMAIN received' : i < j => received'[i].n <= received'[j].n
          /\ \A i, j \in DOMAIN received' : received'[i].n = received'[j].n => received'[i] = received'[j]
      BY <1>arrives, <2>2, <1>t, ReceivedInOrder
    <3>2. current.n <= emitted /\ \A j \in DOMAIN queue : current.n < queue[j].n
      BY <1>arrives DEF NumberInv
    <3>3. \A i \in DOMAIN received' : received'[i].n \in Nat
      <4>1. \A i \in DOMAIN received' : received'[i] \in Events
        BY <1>arrives, <2>2, <1>n
      <4> QED
        BY <4>1, WebhookAssumption DEF Events
    <3>4. \A i \in DOMAIN received' : received'[i].n <= emitted
      BY <1>arrives, <3>1, <3>2, <3>3, <1>n
    <3>5. \A i \in DOMAIN received', j \in DOMAIN queue : received'[i].n < queue[j].n
      BY <1>arrives, <3>1, <3>2, <3>3, <1>n
    <3> QED
      BY <1>arrives, <3>1, <3>2, <3>4, <3>5 DEF NumberInv
  <2> QED
    BY <1>arrives, <2>1, <2>2 DEF Arrives
<1>5. CASE PostAnswered \/ Retried \/ GivenUp
  BY <1>5, <1>arrives DEF PostAnswered, Retried, GivenUp, GiveUp, Arrives
<1>8. CASE ServerRestart
  <2>1. queue' = << >> /\ current' = None /\ UNCHANGED <<received, emitted>>
    BY <1>8 DEF ServerRestart
  <2>2. DOMAIN queue' = {}
    BY <2>1
  <2> QED
    BY <2>1, <2>2 DEF NumberInv
<1> QED
  BY <1>1, <1>2, <1>3, <1>4, <1>5, <1>8, FeedSteps, Zenon DEF FeedStep

\* A copy more of the event that arrives, and of no other.
LEMMA OneCopyMore ==
    ASSUME NEW log \in Seq(Events), NEW e \in Events, NEW n
    PROVE  /\ IsFiniteSet(Copies(log, n)) /\ Cardinality(Copies(log, n)) \in Nat
           /\ Cardinality(Copies(Append(log, e), n)) = Cardinality(Copies(log, n)) + IF n = e.n THEN 1 ELSE 0
<1> DEFINE more == Append(log, e)
           last == Len(log) + 1
<1>1. /\ DOMAIN log = 1 .. Len(log) /\ Len(log) \in Nat
      /\ DOMAIN more = 1 .. last /\ more[last] = e
      /\ \A i \in DOMAIN log : i \in DOMAIN more /\ more[i] = log[i]
      /\ \A i \in DOMAIN more : i \in DOMAIN log \/ i = last
  BY Appended
<1>2. IsFiniteSet(Copies(log, n))
  <2>1. IsFiniteSet(1 .. Len(log))
    BY <1>1, FS_Interval
  <2>2. Copies(log, n) \subseteq 1 .. Len(log)
    BY <1>1 DEF Copies
  <2> QED
    BY <2>1, <2>2, FS_Subset
<1>3. Cardinality(Copies(log, n)) \in Nat
  BY <1>2, FS_CardinalityType
<1>4. CASE n = e.n
  <2>1. Copies(more, n) = Copies(log, n) \cup {last} /\ last \notin Copies(log, n)
    BY <1>1, <1>4 DEF Copies
  <2>2. Cardinality(Copies(log, n) \cup {last}) = Cardinality(Copies(log, n)) + 1
    BY <1>2, <2>1, FS_AddElement
  <2> QED
    BY <1>2, <1>3, <1>4, <2>1, <2>2
<1>5. CASE n # e.n
  <2>1. Copies(more, n) = Copies(log, n)
    BY <1>1, <1>5 DEF Copies
  <2> QED
    BY <1>2, <1>3, <1>5, <2>1
<1> QED
  BY <1>4, <1>5

\* Every step keeps the number of copies within the number of attempts.
LEMMA NextCopies == WebhookShape /\ NumberInv /\ CopiesInv /\ [Next]_vars => CopiesInv'
<1> SUFFICES ASSUME WebhookShape, NumberInv, CopiesInv, [Next]_vars PROVE CopiesInv'
  OBVIOUS
<1>t. FeedTypes /\ MaxRetries \in Nat \ {0} /\ attempt \in 0 .. MaxRetries - 1 /\ received \in Seq(Events)
  BY ShapeParts, WebhookAssumption DEF FeedTypes
<1>1. CASE UNCHANGED <<deliveryVars, emitted>>
  BY <1>1 DEF deliveryVars, CopiesInv
<1>2. ASSUME NEW id \in Ids, NEW kind \in Kinds, Queued(id, kind) PROVE CopiesInv'
  BY <1>2 DEF Queued, CopiesInv
<1>3. ASSUME NEW id \in Ids, Dropped(id) PROVE CopiesInv'
  BY <1>3 DEF Dropped, CopiesInv
\* An event that is taken from the queue has not been received.
<1>4. CASE TakeEvent
  <2>1. UNCHANGED received /\ attempt' = 0 /\ current' = Head(queue) /\ queue # << >> /\ queue \in Seq(Events)
    BY <1>4, <1>t DEF TakeEvent, FeedTypes
  <2>2. 1 \in DOMAIN queue /\ current' = queue[1]
    BY <2>1, Taken
  <2>3. \A i \in DOMAIN received : received[i].n \in Nat /\ received[i].n < queue[1].n /\ queue[1].n \in Nat
    BY <2>2, <1>t, Numbers DEF NumberInv
  <2>4. Copies(received, current'.n) = {}
    BY <2>2, <2>3 DEF Copies
  <2>5. Cardinality(Copies(received', current'.n)) = 0
    BY <2>1, <2>4, FS_EmptySet
  <2> QED
    BY <2>1, <2>5 DEF CopiesInv
<1>arrives. ASSUME current # None, Arrives, current' = None \/ (current' = current /\ attempt' = attempt + 1)
            PROVE  CopiesInv'
  <2>1. CASE UNCHANGED received
    <3>1. Cardinality(Copies(received, current.n)) \in Nat
      BY <1>t, <1>arrives, Numbers, OneCopyMore
    <3> QED
      BY <1>arrives, <1>t, <2>1, <3>1 DEF CopiesInv
  <2>2. CASE received' = Append(received, current)
    <3>0. current \in Events /\ current.n \in 1 .. MaxEvents
      BY <1>arrives, <1>t, Numbers
    <3>1. \A n : /\ Cardinality(Copies(received, n)) \in Nat
                 /\ Cardinality(Copies(received', n)) = Cardinality(Copies(received, n)) + IF n = current.n THEN 1 ELSE 0
      BY <2>2, <3>0, <1>t, OneCopyMore
    <3>2. Cardinality(Copies(received, current.n)) <= attempt
      BY <1>arrives DEF CopiesInv
    <3>3. Cardinality(Copies(received', current.n)) <= attempt + 1
      BY <3>1, <3>2, <1>t
    <3>4. ASSUME NEW n \in 1 .. MaxEvents PROVE Cardinality(Copies(received', n)) <= MaxRetries
      <4>1. CASE n = current.n
        BY <3>1, <3>3, <4>1, <1>t
      <4>2. CASE n # current.n
        BY <3>1, <4>2 DEF CopiesInv
      <4> QED
        BY <4>1, <4>2
    <3> QED
      BY <1>arrives, <3>3, <3>4 DEF CopiesInv
  <2> QED
    BY <1>arrives, <2>1, <2>2 DEF Arrives
<1>5. CASE PostAnswered \/ Retried \/ GivenUp
  BY <1>5, <1>arrives DEF PostAnswered, Retried, GivenUp, GiveUp, Arrives
<1>8. CASE ServerRestart
  BY <1>8 DEF ServerRestart, CopiesInv
<1> QED
  BY <1>1, <1>2, <1>3, <1>4, <1>5, <1>8, FeedSteps, Zenon DEF FeedStep
-----------------------------------------------------------------------------
(* The last event tells the state.                                         *)

\* What a later event says, when it is about the peer.
LEMMA LaterEvent ==
    ASSUME NEW S, NEW e, e.n \in Nat, \A f \in S : f.n \in Nat /\ f.n < e.n, NEW id
    PROVE  /\ e.id # id \/ e.kind = "other" => (SaysConnected(S \cup {e}, id) <=> SaysConnected(S, id))
           /\ e.id = id /\ e.kind = "peer.connected" => SaysConnected(S \cup {e}, id)
           /\ e.id = id /\ e.kind = "peer.disconnected" => ~SaysConnected(S \cup {e}, id)
<1>1. ASSUME e.id # id \/ e.kind = "other" PROVE SaysConnected(S \cup {e}, id) <=> SaysConnected(S, id)
  <2>1. About(S \cup {e}, id) = About(S, id)
    BY <1>1 DEF About
  <2> QED
    BY <2>1 DEF SaysConnected
<1>2. ASSUME e.id = id, e.kind # "other" PROVE About(S \cup {e}, id) = About(S, id) \cup {e}
  BY <1>2 DEF About
<1>3. \A f \in About(S, id) : f.n \in Nat /\ f.n < e.n
  BY DEF About
<1>4. ASSUME e.id = id, e.kind = "peer.connected" PROVE SaysConnected(S \cup {e}, id)
  <2>1. About(S \cup {e}, id) = About(S, id) \cup {e}
    BY <1>2, <1>4
  <2>2. e \in About(S \cup {e}, id) /\ \A f \in About(S \cup {e}, id) : f.n <= e.n
    BY <1>3, <2>1
  <2> QED
    BY <1>4, <2>2 DEF SaysConnected
<1>5. ASSUME e.id = id, e.kind = "peer.disconnected" PROVE ~SaysConnected(S \cup {e}, id)
  <2>1. About(S \cup {e}, id) = About(S, id) \cup {e}
    BY <1>2, <1>5
  <2>2. ASSUME NEW f \in About(S \cup {e}, id), f.kind = "peer.connected" PROVE ~(e.n <= f.n)
    <3>1. f \in About(S, id)
      BY <1>5, <2>1, <2>2
    <3> QED
      BY <1>3, <3>1
  <2>3. e \in About(S \cup {e}, id)
    BY <2>1
  <2> QED
    BY <2>2, <2>3 DEF SaysConnected
<1> QED
  BY <1>1, <1>4, <1>5

\* An event that is queued is the latest one.
LEMMA QueuedIsLatest ==
    ASSUME WebhookShape, NumberInv, NEW id \in Ids, NEW kind \in Kinds, Queued(id, kind), NEW other
    PROVE  /\ id # other \/ kind = "other" => (SaysConnected(Notices', other) <=> SaysConnected(Notices, other))
           /\ id = other /\ kind = "peer.connected" => SaysConnected(Notices', other)
           /\ id = other /\ kind = "peer.disconnected" => ~SaysConnected(Notices', other)
<1>t. FeedTypes
  BY ShapeParts
<1>n. /\ \A i \in DOMAIN queue : queue[i].n \in Nat
      /\ \A i \in DOMAIN received : received[i].n \in Nat
      /\ current # None => current.n \in Nat
      /\ emitted \in Nat /\ queue \in Seq(Events)
  BY <1>t, Numbers DEF FeedTypes
<1>1. PICK e \in Events : e.n = emitted + 1 /\ e.id = id /\ e.kind = kind /\ queue' = Append(queue, e)
  BY Zenon DEF Queued
<1>2. UNCHANGED <<current, received>>
  BY DEF Queued
<1>3. Range(queue') = Range(queue) \cup {e}
  <2>1. /\ queue'[Len(queue) + 1] = e /\ Len(queue) + 1 \in DOMAIN queue'
        /\ \A i \in DOMAIN queue : i \in DOMAIN queue' /\ queue'[i] = queue[i]
        /\ \A i \in DOMAIN queue' : i \in DOMAIN queue \/ i = Len(queue) + 1
    BY <1>1, <1>n, Appended
  <2> QED
    BY <2>1 DEF Range
<1>4. Notices' = Notices \cup {e}
  BY <1>2, <1>3 DEF Notices
<1>5. \A f \in Notices : f.n \in Nat /\ f.n < e.n
  BY <1>n, <1>1 DEF Notices, Range, NumberInv
<1>6. PICK S : S = Notices
  OBVIOUS
<1> QED
  BY <1>1, <1>4, <1>5, <1>6, <1>n, LaterEvent

\* A step that queues nothing takes nothing away from what a peer that stays
\* undisturbed is told.
LEMMA NoticesKept ==
    ASSUME WebhookShape, NEW id \in Ids \ disturbed',
           \/ UNCHANGED deliveryVars
           \/ TakeEvent \/ PostAnswered \/ Retried \/ GivenUp
    PROVE  SaysConnected(Notices', id) <=> SaysConnected(Notices, id)
<1> USE WebhookDistinct
<1>t. FeedTypes
  BY ShapeParts
<1>same. ASSUME Notices' = Notices PROVE SaysConnected(Notices', id) <=> SaysConnected(Notices, id)
  BY <1>same
<1>1. CASE UNCHANGED deliveryVars
  BY <1>1, <1>same DEF deliveryVars, Notices
<1>2. CASE TakeEvent
  <2>1. queue \in Seq(Events) /\ queue # << >> /\ current = None /\ current' = Head(queue)
        /\ queue' = Tail(queue) /\ UNCHANGED received
    BY <1>2, <1>t DEF TakeEvent, FeedTypes
  <2>2. /\ 1 \in DOMAIN queue /\ current' = queue[1] /\ current' \in Events
        /\ \A i \in DOMAIN queue' : i + 1 \in DOMAIN queue /\ queue'[i] = queue[i + 1]
        /\ \A i \in DOMAIN queue : i = 1 \/ i - 1 \in DOMAIN queue'
    BY <2>1, Taken
  <2>3. \A i \in DOMAIN queue : i \in Nat
    BY <2>1
  <2>4. \A i \in DOMAIN queue : i = 1 \/ queue[i] = queue'[i - 1]
    BY <2>2, <2>3
  <2>5. Range(queue) = Range(queue') \cup {current'}
    BY <2>2, <2>4 DEF Range
  <2>6. Notices' = Notices
    BY <2>1, <2>2, <2>5 DEF Notices
  <2> QED
    BY <2>6, <1>same
\* What arrives is the event under delivery.
<1>a. ASSUME current # None, Arrives PROVE Range(received') \in {Range(received), Range(received) \cup {current}}
  <2>1. CASE UNCHANGED received
    BY <2>1
  <2>2. CASE received' = Append(received, current)
    <3>1. received \in Seq(Events) /\ current \in Events
      BY <1>a, <1>t DEF FeedTypes
    <3>2. /\ received'[Len(received) + 1] = current /\ Len(received) + 1 \in DOMAIN received'
          /\ \A i \in DOMAIN received : i \in DOMAIN received' /\ received'[i] = received[i]
          /\ \A i \in DOMAIN received' : i \in DOMAIN received \/ i = Len(received) + 1
      BY <2>2, <3>1, Appended
    <3> QED
      BY <3>2 DEF Range
  <2> QED
    BY <1>a, <2>1, <2>2 DEF Arrives
<1>3. CASE PostAnswered
  <2>1. current # None /\ received' = Append(received, current) /\ current' = None /\ UNCHANGED queue
    BY <1>3 DEF PostAnswered
  <2>2. Range(received') = Range(received) \cup {current}
    <3>1. received \in Seq(Events) /\ current \in Events
      BY <2>1, <1>t DEF FeedTypes
    <3>2. received'[Len(received) + 1] = current /\ Len(received) + 1 \in DOMAIN received'
      BY <2>1, <3>1, Appended
    <3>3. current \in Range(received')
      BY <3>2 DEF Range
    <3> QED
      BY <2>1, <3>3, <1>a DEF Arrives
  <2> QED
    BY <2>1, <2>2, <1>same DEF Notices
<1>4. CASE Retried
  <2>1. current # None /\ Arrives /\ UNCHANGED <<queue, current>>
    BY <1>4 DEF Retried
  <2> QED
    BY <2>1, <1>a, <1>same DEF Notices
<1>5. CASE GivenUp
  <2>1. current # None /\ Arrives /\ UNCHANGED queue /\ current' = None
        /\ disturbed' = IF current \in Range(received') THEN disturbed ELSE disturbed \cup {current.id}
    BY <1>5 DEF GivenUp, GiveUp
  <2>2. CASE current \in Range(received')
    BY <2>1, <2>2, <1>a, <1>same DEF Notices
  <2>3. CASE current \notin Range(received')
    <3>1. current.id # id
      BY <2>1, <2>3
    <3>2. Notices = Notices' \cup {current}
      BY <2>1, <2>3, <1>a DEF Notices
    <3>3. About(Notices', id) = About(Notices, id)
      BY <3>1, <3>2 DEF About
    <3> QED
      BY <3>3 DEF SaysConnected
  <2> QED
    BY <2>2, <2>3
<1> QED
  BY <1>1, <1>2, <1>3, <1>4, <1>5

\* Every step keeps the announcements true.
LEMMA NextTold == WebhookShape /\ NumberInv /\ ToldInv /\ [Next]_vars => ToldInv'
<1> SUFFICES ASSUME WebhookShape, NumberInv, ToldInv, [Next]_vars, NEW id \in Ids \ disturbed'
             PROVE  ToldTruly(id)'
  BY DEF ToldInv
<1> USE WebhookDistinct
<1>t. ConnTypes
  BY ShapeParts
<1>k. \A c \in Conns : conn[c].id \in Ids \cup {None} /\ (conn[c].pc # "off" => conn[c].id \in Ids)
                       /\ (conn[c].pc = "off" => conn[c].id = None)
  BY ConnKnows DEF WebhookShape
<1> DEFINE Busy == {"attached", "closing", "removed"}
           Is(c, pc) == conn[c].id = id /\ conn[c].pc = pc
           WillBe(c, pc) == conn'[c].id = id /\ conn'[c].pc = pc
           Says == SaysConnected(Notices, id)
           WillSay == SaysConnected(Notices', id)
<1>i. ASSUME id \notin disturbed
      PROVE  /\ \A c \in Conns : Is(c, "attached") \/ Is(c, "closing") => wsSenders[id] = c
             /\ \A c \in Conns : Is(c, "removed") => wsSenders[id] = None
             /\ (\A c \in Conns, pc \in Busy : ~Is(c, pc)) => (wsSenders[id] # None <=> Says)
  <2>1. ToldTruly(id)
    BY <1>i DEF ToldInv
  <2> QED
    BY <2>1 DEF ToldTruly, Reporting
<1>g. ASSUME /\ \A c \in Conns : WillBe(c, "attached") \/ WillBe(c, "closing") => wsSenders'[id] = c
             /\ \A c \in Conns : WillBe(c, "removed") => wsSenders'[id] = None
             /\ (\A c \in Conns, pc \in Busy : ~WillBe(c, pc)) => (wsSenders'[id] # None <=> WillSay)
      PROVE  ToldTruly(id)'
  BY <1>g DEF ToldTruly, Reporting
<1> HIDE DEF Says, WillSay
\* Nothing changes for this peer.
<1>same. ASSUME id \notin disturbed, wsSenders'[id] = wsSenders[id], WillSay <=> Says,
                \A c \in Conns, pc \in Busy : WillBe(c, pc) <=> Is(c, pc)
         PROVE  ToldTruly(id)'
  BY <1>same, <1>i, <1>g
<1>kept. ASSUME UNCHANGED deliveryVars \/ TakeEvent \/ PostAnswered \/ Retried \/ GivenUp PROVE WillSay <=> Says
  BY <1>kept, NoticesKept DEF Says, WillSay
\* One handler moves.
<1>conn. ASSUME NEW c \in Conns, NEW x, conn' = [conn EXCEPT ![c] = x]
         PROVE  conn'[c] = x /\ \A d \in Conns \ {c} : conn'[d] = conn[d]
  BY <1>conn, <1>t DEF ConnTypes
<1>1. ASSUME NEW c \in Conns, NEW i \in Ids, Attach(c, i) PROVE ToldTruly(id)'
  <2>x. PICK x : x = [pc |-> "attached", id |-> i]
    OBVIOUS
  <2>1. /\ conn[c].pc = "off" /\ wsSenders' = [wsSenders EXCEPT ![i] = c]
        /\ conn' = [conn EXCEPT ![c] = x] /\ UNCHANGED deliveryVars
        /\ disturbed' = IF Reporting(i) THEN disturbed \cup {i} ELSE disturbed
    BY <1>1, <2>x DEF Attach
  <2>2. conn'[c] = x /\ x.pc = "attached" /\ x.id = i /\ \A d \in Conns \ {c} : conn'[d] = conn[d]
    BY <2>x, <2>1, <1>conn
  <2>3. CASE i = id
    <3>1. ~Reporting(id)
      BY <2>1, <2>3
    <3>2. \A d \in Conns, pc \in Busy : ~Is(d, pc)
      BY <3>1 DEF Reporting
    <3>3. wsSenders'[id] = c
      BY <2>1, <2>3, <1>t DEF ConnTypes
    <3> QED
      BY <2>2, <2>3, <3>2, <3>3, <1>g
  <2>4. CASE i # id
    <3>1. wsSenders'[id] = wsSenders[id] /\ id \notin disturbed
      BY <2>1, <2>4, <1>t DEF ConnTypes
    <3>2. \A d \in Conns, pc \in Busy : WillBe(d, pc) <=> Is(d, pc)
      BY <2>1, <2>2, <2>4, <1>k
    <3> QED
      BY <2>1, <3>1, <3>2, <1>kept, <1>same
  <2> QED
    BY <2>3, <2>4
\* A handler emits and goes on.
<1>emit. ASSUME NEW c \in Conns, conn[c].pc # "off", NEW kind \in Kinds, Emit(conn[c].id, kind), UNCHANGED wsSenders
         PROVE  /\ id \notin disturbed
                /\ conn[c].id # id \/ kind = "other" => (WillSay <=> Says)
                /\ conn[c].id = id /\ kind = "peer.connected" => WillSay
                /\ conn[c].id = id /\ kind = "peer.disconnected" => ~WillSay
  <2>0. PICK i \in Ids : i = conn[c].id
    BY <1>emit, <1>k
  <2>1. Queued(i, kind) \/ Dropped(i)
    BY <1>emit, <2>0, EmitEffect DEF WebhookShape
  <2>2. CASE Queued(i, kind)
    <3>1. id \notin disturbed
      BY <2>2 DEF Queued
    <3> QED
      BY <2>0, <2>2, <3>1, QueuedIsLatest DEF Says, WillSay
  <2>3. CASE Dropped(i)
    <3>1. i # id /\ id \notin disturbed /\ UNCHANGED deliveryVars
      BY <2>3 DEF Dropped, deliveryVars
    <3> QED
      BY <2>0, <3>1, <1>kept
  <2> QED
    BY <2>1, <2>2, <2>3
<1>2. ASSUME NEW c \in Conns, EmitConnected(c) PROVE ToldTruly(id)'
  <2>1. conn[c].pc = "attached" /\ Emit(conn[c].id, "peer.connected") /\ UNCHANGED wsSenders
        /\ conn' = [conn EXCEPT ![c].pc = "open"]
    BY <1>2 DEF EmitConnected
  <2>2. conn'[c].pc = "open" /\ conn'[c].id = conn[c].id /\ \A d \in Conns \ {c} : conn'[d] = conn[d]
    BY <2>1, <1>t DEF ConnTypes, ConnStates
  <2>3. /\ id \notin disturbed
        /\ conn[c].id # id => (WillSay <=> Says)
        /\ conn[c].id = id => WillSay
    BY <2>1, <1>emit DEF Kinds
  <2>4. CASE conn[c].id = id
    <3>1. wsSenders[id] = c
      BY <2>1, <2>3, <2>4, <1>i
    <3> QED
      BY <2>1, <2>2, <2>3, <2>4, <3>1, <1>i, <1>g
  <2>5. CASE conn[c].id # id
    BY <2>1, <2>2, <2>3, <2>5, <1>same
  <2> QED
    BY <2>4, <2>5
<1>3. ASSUME NEW c \in Conns, EmitOther(c) PROVE ToldTruly(id)'
  <2>1. conn[c].pc = "open" /\ Emit(conn[c].id, "other") /\ UNCHANGED <<wsSenders, conn>>
    BY <1>3 DEF EmitOther, connVars
  <2>2. id \notin disturbed /\ (WillSay <=> Says)
    BY <2>1, <1>emit DEF Kinds
  <2> QED
    BY <2>1, <2>2, <1>same
<1>4. ASSUME NEW c \in Conns, Close(c) PROVE ToldTruly(id)'
  <2>x. PICK x : x = IF wsSenders[conn[c].id] = c THEN [pc |-> "closing", id |-> conn[c].id] ELSE Off
    OBVIOUS
  <2>1. conn[c].pc = "open" /\ conn' = [conn EXCEPT ![c] = x] /\ UNCHANGED <<wsSenders, deliveryVars, disturbed>>
    BY <1>4, <2>x DEF Close
  <2>2. conn'[c] = x /\ \A d \in Conns \ {c} : conn'[d] = conn[d]
    BY <2>1, <1>conn
  <2>3. id \notin disturbed /\ wsSenders'[id] = wsSenders[id] /\ (WillSay <=> Says)
    BY <2>1, <1>kept
  <2>4. CASE conn[c].id = id /\ wsSenders[id] = c
    <3>1. x.pc = "closing" /\ x.id = id
      BY <2>x, <2>4
    <3> QED
      BY <2>2, <2>3, <2>4, <3>1, <1>i, <1>g
  <2>5. CASE ~(conn[c].id = id /\ wsSenders[id] = c)
    <3>1. \A pc \in Busy : ~(x.id = id /\ x.pc = pc)
      BY <2>x, <2>5 DEF Off
    <3> QED
      BY <2>1, <2>2, <2>3, <3>1, <1>same
  <2> QED
    BY <2>4, <2>5
<1>5. ASSUME NEW c \in Conns, RemoveSender(c) PROVE ToldTruly(id)'
  <2>1. conn[c].pc = "closing" /\ wsSenders' = [wsSenders EXCEPT ![conn[c].id] = None]
        /\ conn' = [conn EXCEPT ![c].pc = "removed"] /\ UNCHANGED <<deliveryVars, disturbed>>
    BY <1>5 DEF RemoveSender
  <2>2. conn'[c].pc = "removed" /\ conn'[c].id = conn[c].id /\ \A d \in Conns \ {c} : conn'[d] = conn[d]
    BY <2>1, <1>t DEF ConnTypes, ConnStates
  <2>3. id \notin disturbed /\ (WillSay <=> Says)
    BY <2>1, <1>kept
  <2>4. CASE conn[c].id = id
    <3>1. wsSenders[id] = c /\ wsSenders'[id] = None
      BY <2>1, <2>3, <2>4, <1>i, <1>t DEF ConnTypes
    <3> QED
      BY <2>2, <2>3, <2>4, <3>1, <1>i, <1>g
  <2>5. CASE conn[c].id # id
    <3>1. wsSenders'[id] = wsSenders[id]
      BY <2>1, <2>5, <1>t DEF ConnTypes
    <3> QED
      BY <2>2, <2>3, <2>5, <3>1, <1>same
  <2> QED
    BY <2>4, <2>5
<1>6. ASSUME NEW c \in Conns, EmitDisconnected(c) PROVE ToldTruly(id)'
  <2>1. conn[c].pc = "removed" /\ Emit(conn[c].id, "peer.disconnected") /\ UNCHANGED wsSenders
        /\ conn' = [conn EXCEPT ![c] = Off]
    BY <1>6 DEF EmitDisconnected
  <2>2. conn'[c].pc = "off" /\ \A d \in Conns \ {c} : conn'[d] = conn[d]
    BY <2>1, <1>t DEF Off, ConnTypes
  <2>3. /\ id \notin disturbed
        /\ conn[c].id # id => (WillSay <=> Says)
        /\ conn[c].id = id => ~WillSay
    BY <2>1, <1>emit DEF Kinds
  <2>4. CASE conn[c].id = id
    <3>1. wsSenders[id] = None
      BY <2>1, <2>3, <2>4, <1>i
    <3> QED
      BY <2>1, <2>2, <2>3, <2>4, <3>1, <1>i, <1>g
  <2>5. CASE conn[c].id # id
    BY <2>1, <2>2, <2>3, <2>5, <1>same
  <2> QED
    BY <2>4, <2>5
<1>7. ASSUME NEW i \in Ids, Evict(i) PROVE ToldTruly(id)'
  <2>1. id # i /\ id \notin disturbed /\ wsSenders'[id] = wsSenders[id] /\ UNCHANGED <<conn, deliveryVars>>
    BY <1>7, <1>t DEF Evict, ConnTypes
  <2> QED
    BY <2>1, <1>kept, <1>same
<1>8. CASE Delivery
  <2>1. PostFails => Retried \/ GivenUp
    BY DEF PostFails, Retried, GivenUp
  <2>2. TakeEvent \/ PostAnswered \/ Retried \/ GivenUp
    BY <1>8, <2>1 DEF Delivery
  <2>3. id \notin disturbed /\ UNCHANGED <<wsSenders, conn>>
    BY <2>2 DEF TakeEvent, PostAnswered, Retried, GivenUp, GiveUp, connVars
  <2> QED
    BY <2>2, <2>3, <1>kept, <1>same
<1>9. CASE ServerRestart
  BY <1>9 DEF ServerRestart
<1>10. CASE UNCHANGED vars
  <2>1. UNCHANGED <<wsSenders, conn, deliveryVars, disturbed>>
    BY <1>10 DEF vars, deliveryVars
  <2> QED
    BY <2>1, <1>kept, <1>same
<1> QED
  BY <1>1, <1>2, <1>3, <1>4, <1>5, <1>6, <1>7, <1>8, <1>9, <1>10, Zenon DEF Next
-----------------------------------------------------------------------------
(* The feed.                                                               *)

\* The first element of a sequence, with the rest behind it.
LEMMA OneBefore ==
    ASSUME NEW e \in Events, NEW s \in Seq(Events)
    PROVE  /\ <<e>> \o s \in Seq(Events) /\ <<e>> \o s # << >> /\ Len(<<e>> \o s) = Len(s) + 1
           /\ Head(<<e>> \o s) = e /\ Tail(<<e>> \o s) = s
           /\ \A f \in Events : Append(<<e>> \o s, f) = <<e>> \o Append(s, f)
<1> DEFINE c == <<e>> \o s
<1>0. <<e>> \in Seq(Events) /\ Len(<<e>>) = 1 /\ <<e>>[1] = e
  OBVIOUS
<1>1. /\ c \in Seq(Events) /\ Len(c) = 1 + Len(s)
      /\ c[1] = e /\ \A i \in 1 .. Len(s) : c[i + 1] = s[i]
  BY <1>0, ConcatProperties
<1> HIDE DEF c
<1>2. c # << >> /\ Len(c) = Len(s) + 1 /\ Head(c) = e
  BY <1>1
<1>3. Tail(c) = s
  <2>1. Tail(c) \in Seq(Events) /\ Len(Tail(c)) = Len(s)
    BY <1>1, <1>2
  <2>2. \A i \in 1 .. Len(s) : Tail(c)[i] = s[i]
    BY <1>1, <1>2
  <2> QED
    BY <2>1, <2>2, SeqEqual
<1>4. ASSUME NEW f \in Events PROVE Append(c, f) = <<e>> \o Append(s, f)
  <2> DEFINE d == <<e>> \o Append(s, f)
  <2>0. Append(s, f) \in Seq(Events) /\ Len(Append(s, f)) = Len(s) + 1
        /\ \A i \in 1 .. Len(s) : Append(s, f)[i] = s[i]
        /\ Append(s, f)[Len(s) + 1] = f
    OBVIOUS
  <2>1. /\ d \in Seq(Events) /\ Len(d) = Len(s) + 2
        /\ d[1] = e /\ \A i \in 1 .. Len(s) + 1 : d[i + 1] = Append(s, f)[i]
    BY <1>0, <2>0, ConcatProperties
  <2> HIDE DEF d
  <2>2. /\ Append(c, f) \in Seq(Events) /\ Len(Append(c, f)) = Len(s) + 2
        /\ Append(c, f)[Len(s) + 2] = f /\ \A i \in 1 .. Len(s) + 1 : Append(c, f)[i] = c[i]
    BY <1>1
  <2>3. ASSUME NEW i \in 1 .. Len(s) + 2 PROVE Append(c, f)[i] = d[i]
    <3>1. CASE i = 1
      BY <1>1, <2>1, <2>2, <3>1
    <3>2. CASE i = Len(s) + 2
      <4>1. d[i] = Append(s, f)[Len(s) + 1]
        BY <2>1, <3>2
      <4> QED
        BY <2>0, <2>2, <3>2, <4>1
    <3>3. CASE i \in 2 .. Len(s) + 1
      <4>1. PICK j \in 1 .. Len(s) : i = j + 1
        BY <3>3
      <4> QED
        BY <1>1, <2>0, <2>1, <2>2, <4>1
    <3>4. Len(s) \in Nat
      OBVIOUS
    <3>5. i = 1 \/ i = Len(s) + 2 \/ i \in 2 .. Len(s) + 1
      BY <3>4
    <3> QED
      BY <3>1, <3>2, <3>3, <3>5
  <2>4. Append(c, f) = d
    BY <2>1, <2>2, <2>3, SeqEqual
  <2> QED
    BY <2>4 DEF d
<1> QED
  BY <1>1, <1>2, <1>3, <1>4 DEF c

\* What is pending in the feed: the event under delivery and the queue.
Unsettled == (IF current = None THEN << >> ELSE <<current>>) \o queue

\* Every step is a step of EventFeed or invisible there.
LEMMA NextIsFeedStep == WebhookShape /\ [Next]_vars => [Feed!Next]_<<Unsettled, received>>
<1> SUFFICES ASSUME WebhookShape, [Next]_vars PROVE [Feed!Next]_<<Unsettled, received>>
  OBVIOUS
<1> USE WebhookDistinct
<1>t. FeedTypes
  BY ShapeParts
<1>q. queue \in Seq(Events) /\ Len(queue) \in Nat /\ (current # None => current \in Events) /\ Capacity \in Nat
  BY <1>t, WebhookAssumption DEF FeedTypes
<1>u. /\ current = None => Unsettled = queue
      /\ current # None =>
            /\ Unsettled # << >> /\ Len(Unsettled) = Len(queue) + 1
            /\ Head(Unsettled) = current /\ Tail(Unsettled) = queue
            /\ \A f \in Events : Append(Unsettled, f) = <<current>> \o Append(queue, f)
  BY <1>q, OneBefore DEF Unsettled
<1>stutter. ASSUME Unsettled' = Unsettled, UNCHANGED received PROVE [Feed!Next]_<<Unsettled, received>>
  BY <1>stutter
<1>next. ASSUME Feed!Next PROVE [Feed!Next]_<<Unsettled, received>>
  BY <1>next
<1>1. CASE UNCHANGED <<deliveryVars, emitted>>
  BY <1>1, <1>stutter DEF deliveryVars, Unsettled
<1>2. ASSUME NEW id \in Ids, NEW kind \in Kinds, Queued(id, kind) PROVE Feed!Next
  <2>1. PICK e \in Events : queue' = Append(queue, e)
    BY <1>2 DEF Queued
  <2>2. Len(queue) < Capacity /\ UNCHANGED <<current, received>>
    BY <1>2 DEF Queued
  <2>3. Unsettled' = Append(Unsettled, e)
    <3>1. CASE current = None
      <4>1. Append(queue, e) \in Seq(Events)
        BY <1>q
      <4> QED
        BY <2>1, <2>2, <3>1, <4>1, <1>u DEF Unsettled
    <3>2. CASE current # None
      <4>1. Append(Unsettled, e) = <<current>> \o Append(queue, e)
        BY <3>2, <1>u
      <4>2. Unsettled' = <<current>> \o queue'
        BY <2>2, <3>2 DEF Unsettled
      <4> QED
        BY <2>1, <4>1, <4>2
    <3> QED
      BY <3>1, <3>2
  <2>4. Len(Unsettled) <= Capacity
    BY <2>2, <1>q, <1>u
  <2>5. Feed!Accept(e)
    BY <2>2, <2>3, <2>4 DEF Feed!Accept, Unsettled
  <2> QED
    BY <2>5 DEF Feed!Next
<1>3. ASSUME NEW id \in Ids, Dropped(id) PROVE [Feed!Next]_<<Unsettled, received>>
  BY <1>3, <1>stutter DEF Dropped, Unsettled
<1>4. CASE TakeEvent
  <2>1. current = None /\ queue # << >> /\ current' = Head(queue) /\ queue' = Tail(queue) /\ UNCHANGED received
    BY <1>4 DEF TakeEvent
  <2>2. Head(queue) \in Events /\ Tail(queue) \in Seq(Events) /\ <<Head(queue)>> \o Tail(queue) = queue
    <3>0. /\ Head(queue) \in Events /\ Head(queue) = queue[1] /\ Tail(queue) \in Seq(Events)
          /\ Len(Tail(queue)) = Len(queue) - 1
          /\ \A i \in 1 .. Len(queue) - 1 : Tail(queue)[i] = queue[i + 1]
      BY <2>1, <1>q
    <3>h. PICK h \in Events : h = Head(queue)
      BY <3>0
    <3>r. PICK r \in Seq(Events) : r = Tail(queue)
      BY <3>0
    <3> DEFINE c == <<h>> \o r
    <3>1. <<h>> \in Seq(Events) /\ Len(<<h>>) = 1 /\ <<h>>[1] = h
      OBVIOUS
    <3>2. /\ c \in Seq(Events) /\ Len(c) = 1 + Len(r)
          /\ c[1] = h /\ \A i \in 1 .. Len(r) : c[i + 1] = r[i]
      BY <3>1, ConcatProperties
    <3> HIDE DEF c
    <3>3. Len(c) = Len(queue) /\ \A i \in 1 .. Len(queue) - 1 : c[i + 1] = queue[i + 1]
      BY <3>0, <3>r, <3>2, <1>q
    <3>4. ASSUME NEW i \in 1 .. Len(queue) PROVE c[i] = queue[i]
      <4>1. CASE i = 1
        BY <3>0, <3>h, <3>2, <4>1
      <4>2. CASE i # 1
        <5>1. PICK j \in 1 .. Len(queue) - 1 : i = j + 1
          BY <4>2, <1>q
        <5> QED
          BY <3>3, <5>1
      <4> QED
        BY <4>1, <4>2
    <3>5. c = queue
      BY <3>2, <3>3, <3>4, <1>q, SeqEqual
    <3> QED
      BY <3>0, <3>h, <3>r, <3>5 DEF c
  <2>3. current' # None
    BY <2>1, <2>2
  <2>4. Unsettled' = <<Head(queue)>> \o Tail(queue)
    BY <2>1, <2>3 DEF Unsettled
  <2>5. Unsettled' = Unsettled
    BY <2>1, <2>2, <2>4, <1>u
  <2> QED
    BY <2>1, <2>5, <1>stutter
\* A request that ends the delivery settles the event.
<1>settle. ASSUME current # None, Arrives, current' = None, UNCHANGED queue PROVE Feed!Next
  <2>1. Unsettled' = queue
    BY <1>settle, <1>q DEF Unsettled
  <2>2. /\ Unsettled # << >> /\ Unsettled' = Tail(Unsettled)
        /\ received' \in {received, Append(received, Head(Unsettled))}
    BY <1>settle, <2>1, <1>u DEF Arrives
  <2>3. Feed!Settle
    BY <2>2, Zenon DEF Feed!Settle, Feed!Try, Unsettled
  <2> QED
    BY <2>3 DEF Feed!Next
<1>5. CASE PostAnswered
  BY <1>5, <1>settle DEF PostAnswered, Arrives
<1>6. CASE Retried
  <2>1. current # None /\ Arrives /\ UNCHANGED <<queue, current>>
    BY <1>6 DEF Retried
  <2>2. /\ Unsettled # << >> /\ received' \in {received, Append(received, Head(Unsettled))}
    BY <2>1, <1>u DEF Arrives
  <2>3. Unsettled' = Unsettled
    BY <2>1 DEF Unsettled
  <2>4. Feed!Attempt
    BY <2>2, <2>3, Zenon DEF Feed!Attempt, Feed!Try, Unsettled
  <2> QED
    BY <2>4 DEF Feed!Next
<1>7. CASE GivenUp
  BY <1>7, <1>settle DEF GivenUp, GiveUp
<1>8. CASE ServerRestart
  <2>1. queue' = << >> /\ current' = None /\ UNCHANGED received
    BY <1>8 DEF ServerRestart
  <2>2. Unsettled' = << >>
    BY <2>1 DEF Unsettled
  <2>3. Feed!Crash
    BY <2>1, <2>2 DEF Feed!Crash, Unsettled
  <2> QED
    BY <2>3 DEF Feed!Next
<1> QED
  BY <1>1, <1>2, <1>3, <1>4, <1>5, <1>6, <1>7, <1>8, <1>next, FeedSteps, Zenon DEF FeedStep

-----------------------------------------------------------------------------
(* The theorems.                                                           *)

\* The server starts without events.
LEMMA InitEvents == Init => NumberInv /\ CopiesInv /\ ToldInv
<1> SUFFICES ASSUME Init PROVE NumberInv /\ CopiesInv /\ ToldInv
  OBVIOUS
<1>0. DOMAIN received = {} /\ DOMAIN queue = {} /\ current = None
  BY DEF Init
<1>1. NumberInv
  BY <1>0 DEF NumberInv
<1>2. CopiesInv
  <2>1. \A n : Copies(received, n) = {}
    BY <1>0 DEF Copies
  <2>2. \A n : Cardinality(Copies(received, n)) = 0
    BY <2>1, FS_EmptySet
  <2> QED
    BY <1>0, <2>2, WebhookAssumption DEF CopiesInv
<1>3. ToldInv
  <2>1. Notices = {}
    BY <1>0 DEF Notices, Range
  <2>2. \A id \in Ids : ~SaysConnected(Notices, id)
    BY <2>1 DEF SaysConnected, About
  <2> QED
    BY <2>2 DEF Init, Off, ToldInv, ToldTruly
<1> QED
  BY <1>1, <1>2, <1>3

\* A set of positions in a sequence has a last one.
LEMMA LastPosition ==
    ASSUME NEW n \in Nat, NEW S, S \subseteq 1 .. n, S # {}
    PROVE  Max(S) \in S /\ \A j \in S : j <= Max(S)
<1> DEFINE R == {p \in Nat \X Nat : p[1] < p[2]}
           T == {n - i : i \in S}
<1>1. \A x, y \in Nat : <<x, y>> \in R <=> x < y
  OBVIOUS
<1>2. T \subseteq Nat /\ T # {}
  OBVIOUS
<1>3. PICK x \in T : \A y \in T : ~(<<y, x>> \in R)
  <2>1. IsWellFoundedOn(R, Nat)
    BY NatLessThanWellFounded DEF OpToRel
  <2> HIDE DEF R, T
  <2> QED
    BY <1>2, <2>1, WFMin
<1> HIDE DEF R
<1>4. PICK m \in S : x = n - m
  OBVIOUS
<1>5. ASSUME NEW j \in S PROVE m >= j
  <2>1. n - j \in T /\ n - j \in Nat /\ x \in Nat
    BY <1>2
  <2>2. ~(n - j < x)
    BY <1>1, <1>3, <2>1
  <2> QED
    BY <1>4, <2>2
<1>6. Max(S) \in S /\ \A j \in S : Max(S) >= j
  BY <1>5 DEF Max
<1> QED
  BY <1>6

\* The queue of webhook.rs keeps its bound, the delivery task gives up after
\* MAX_RETRIES attempts, and a handler that emits an event has a peer, for every
\* capacity and any number of connections.
THEOREM WebhookTypeCorrect == Spec => []WebhookTypeOK
<1>1. WebhookShape => WebhookTypeOK
  BY DEF WebhookShape
<1> QED
  BY <1>1, InitShape, NextShape, PTL DEF Spec

\* An endpoint receives an event at most MAX_RETRIES times, whichever of the
\* requests that timed out have arrived.
THEOREM CopiesStayBounded == Spec => []CopiesAreBounded
<1> DEFINE IInv == WebhookShape /\ NumberInv /\ CopiesInv
<1>1. Init => IInv
  BY InitShape, InitEvents
<1>2. IInv /\ [Next]_vars => IInv'
  BY NextShape, NextNumbers, NextCopies
<1>3. IInv => CopiesAreBounded
  BY DEF CopiesInv, Copies, CopiesAreBounded
<1> HIDE DEF IInv
<1> QED
  BY <1>1, <1>2, <1>3, PTL DEF Spec

\* Once everything is delivered, the last event that an endpoint received about
\* a peer agrees with ws_senders, for a peer whose events and removals the
\* history does not exclude, with any number of connections of it.
THEOREM LastEventIsTrue == Spec => []LastEventTellsState
<1> DEFINE IInv == WebhookShape /\ NumberInv /\ ToldInv
<1>1. Init => IInv
  BY InitShape, InitEvents
<1>2. IInv /\ [Next]_vars => IInv'
  BY NextShape, NextNumbers, NextTold
<1>3. IInv => LastEventTellsState
  <2> SUFFICES ASSUME IInv, NEW id \in Ids \ disturbed, queue = << >>, current = None, ~Reporting(id)
               PROVE  wsSenders[id] # None <=>
                        Told(id) # {} /\ received[Max(Told(id))].kind = "peer.connected"
    BY DEF LastEventTellsState
  <2>1. wsSenders[id] # None <=> SaysConnected(Notices, id)
    BY DEF ToldInv, ToldTruly
  <2>2. Notices = Range(received)
    BY DEF Notices, Range
  <2>3. FeedTypes /\ NumberInv
    BY ShapeParts
  <2>4. /\ received \in Seq(Events) /\ DOMAIN received = 1 .. Len(received) /\ Len(received) \in Nat
        /\ \A i \in DOMAIN received : received[i].n \in Nat
    BY <2>3, Numbers DEF FeedTypes
  <2>5. About(Notices, id) = {received[i] : i \in Told(id)}
    BY <2>2 DEF About, Range, Told
  <2>6. CASE Told(id) = {}
    BY <2>1, <2>5, <2>6 DEF SaysConnected
  <2>7. CASE Told(id) # {}
    <3>1. Told(id) \subseteq 1 .. Len(received) /\ Told(id) \subseteq Int
      BY <2>4 DEF Told
    <3>2. PICK m \in Told(id) : m = Max(Told(id)) /\ \A j \in Told(id) : j <= m
      BY <2>4, <2>7, <3>1, LastPosition
    <3>3. \A j \in Told(id) : received[j].n <= received[m].n
      BY <2>3, <2>4, <3>1, <3>2 DEF NumberInv
    <3>4. SaysConnected(Notices, id) <=> received[m].kind = "peer.connected"
      <4>1. ASSUME received[m].kind = "peer.connected" PROVE SaysConnected(Notices, id)
        BY <2>5, <3>2, <3>3, <4>1 DEF SaysConnected
      <4>2. ASSUME SaysConnected(Notices, id) PROVE received[m].kind = "peer.connected"
        <5>1. PICK j \in Told(id) : /\ received[j].kind = "peer.connected"
                                    /\ \A i \in Told(id) : received[i].n <= received[j].n
          BY <2>5, <4>2 DEF SaysConnected
        <5>2. received[j].n = received[m].n
          BY <2>4, <3>1, <3>3, <5>1
        <5>3. received[j] = received[m]
          BY <2>3, <2>4, <3>1, <5>2 DEF NumberInv
        <5> QED
          BY <5>1, <5>3
      <4> QED
        BY <4>1, <4>2
    <3> QED
      BY <2>1, <2>7, <3>2, <3>4
  <2> QED
    BY <2>6, <2>7
<1> HIDE DEF IInv
<1> QED
  BY <1>1, <1>2, <1>3, PTL DEF Spec

\* The safety part of ImplementsFeed: the queue and the delivery task take
\* exactly the steps of the lossy FIFO feed, so the endpoint sees events in the
\* order of their emission, copies of one next to each other.
THEOREM DeliversInOrder == Spec => Feed!Init /\ [][Feed!Next]_<<Unsettled, received>>
<1>1. Init => Feed!Init
  BY DEF Init, Feed!Init
<1> QED
  BY <1>1, InitShape, NextShape, NextIsFeedStep, PTL DEF Spec
=============================================================================
