------------------------------- MODULE Relay -------------------------------
(***************************************************************************)
(* The DATA relay of handlers/message.rs (handle_data) with the replay     *)
(* buffer of replay_buffer.rs, its sweeper services/replay_evict.rs, and   *)
(* what handlers/ws.rs and handlers/http.rs do with the buffer when a peer *)
(* comes back with the last sequence number it has seen.                   *)
(*                                                                         *)
(* A relay takes its sequence number, sends to each receiver that is       *)
(* online, and then stores the message: three kinds of steps between which *)
(* receivers come and go and other relays run.  One access of a DashMap is *)
(* atomic: the whole of `push`, and the popping for one key of             *)
(* `evict_expired`, whose removal of an empty buffer is an access of its   *)
(* own.  A message is its sequence number.                                 *)
(***************************************************************************)
EXTENDS Naturals, Sequences, SequencesExt

CONSTANTS
    Peers,    \* receivers; all of them are members of every room
    Rooms,    \* rooms: their messages have a buffer of their own
    Senders,  \* tasks that handle a DATA message; a peer may be one
    None,     \* "no entry"
    MaxSize,  \* config.replay_buffer_size
    MaxSeq,   \* bound: messages relayed in one life of the server
    MaxChan   \* bound: messages in a channel (unbounded in the code)

ASSUME RelayAssumption ==
    /\ {MaxSize, MaxSeq, MaxChan} \subseteq Nat
    /\ Peers \cap Rooms = {}
ASSUME RelayDistinct == None \notin Seq([seq : 1 .. MaxSeq, expired : BOOLEAN])

VARIABLES
    seqCounter,  \* AppState.seq_counter
    relay,       \* per sender: the message it is relaying
    sender,      \* AppState.ws_senders: the peer has a channel
    chan,        \* per peer: the channel, messages the client has not read yet
    conn,        \* per peer: where its connection is
    wiping,      \* peers whose last connection is about to drop their buffer
    buf,         \* ReplayBuffer.buffers: key -> sequence of [seq, expired] or None
    sweep,       \* replay_evict: keys left, and the key found empty
    last,        \* per client: the highest sequence number it has seen
    stored,      \* history: what was pushed under a key
    gone,        \* history: what was stored and left the buffer unasked for
    disorder     \* history: keys under which a message was stored after a later one

vars == <<seqCounter, relay, sender, chan, conn, wiping, buf, sweep, last,
          stored, gone, disorder>>
relayVars == <<seqCounter, relay>>
connVars == <<sender, conn, wiping, last>>
history == <<stored, gone, disorder>>

Keys == Peers \cup Rooms
NoRelay == [pc |-> "idle", to |-> None, seq |-> 0, todo |-> {}, keep |-> FALSE]
Asleep == [pc |-> "sleep", todo |-> {}, key |-> None]

Entry(seq) == [seq |-> seq, expired |-> FALSE]
\* The notice among the messages of a channel.
ReplayGap == 0

SeqsOf(entries) == {entries[i].seq : i \in DOMAIN entries}

\* The numbers buffered under a key; none when there is no buffer.
Buffered(k) == IF buf[k] = None THEN {} ELSE SeqsOf(buf[k])

Highest(S) == IF S = {} THEN 0 ELSE Max(S)

-----------------------------------------------------------------------------
Init ==
    /\ seqCounter = 0
    /\ relay = [s \in Senders |-> NoRelay]
    /\ sender = [p \in Peers |-> FALSE]
    /\ chan = [p \in Peers |-> << >>]
    /\ conn = [p \in Peers |-> "off"]
    /\ wiping = {}
    /\ buf = [k \in Keys |-> None]
    /\ sweep = Asleep
    /\ last = [p \in Peers |-> 0]
    /\ stored = [k \in Keys |-> {}]
    /\ gone = [k \in Keys |-> {}]
    /\ disorder = {}

-----------------------------------------------------------------------------
(* handle_data                                                             *)

\* The sequence number is taken; who is to receive is known.  `keep` is FALSE
\* for a message of topic class "ephemeral".
Relay(s, to, keep) ==
    /\ relay[s].pc = "idle"
    /\ s \in Peers => conn[s] = "on"
    /\ seqCounter < MaxSeq
    /\ seqCounter' = seqCounter + 1
    /\ relay' = [relay EXCEPT ![s] =
                    [pc |-> "send", to |-> to, seq |-> seqCounter + 1, keep |-> keep,
                     todo |-> IF to \in Rooms THEN Peers \ {s} ELSE {to}]]
    /\ UNCHANGED <<chan, connVars, buf, sweep, history>>

\* One receiver: sent when it is online, passed over when it is not.
SendTo(s, p) ==
    /\ relay[s].pc = "send"
    /\ p \in relay[s].todo
    /\ Len(chan[p]) < MaxChan
    /\ relay' = [relay EXCEPT ![s].todo = @ \ {p}]
    /\ chan' = [chan EXCEPT ![p] = IF sender[p] THEN Append(@, relay[s].seq) ELSE @]
    /\ UNCHANGED <<seqCounter, connVars, buf, sweep, history>>

\* Mutant: the comparison with max_size is off by one.
KeepsOneMore(fresh) == SubSeq(fresh, IF Len(fresh) > MaxSize THEN 2 ELSE 1, Len(fresh))

\* The oldest message makes room at max_size; there may be none to drop.
MakeRoom(fresh) == SubSeq(fresh, IF Len(fresh) >= MaxSize THEN 2 ELSE 1, Len(fresh))

\* The entries left once the expired ones at the front are popped.
PopExpired(entries) ==
    LET n == Highest({i \in DOMAIN entries : \A j \in 1 .. i : entries[j].expired})
    IN  SubSeq(entries, n + 1, Len(entries))

\* ReplayBuffer::push, or nothing for an ephemeral message.
Push(s) ==
    /\ relay[s].pc = "send"
    /\ relay[s].todo = {}
    /\ relay' = [relay EXCEPT ![s] = NoRelay]
    /\ \/ /\ relay[s].keep
          /\ LET k == relay[s].to
                 n == relay[s].seq
                 room == MakeRoom(PopExpired(IF buf[k] = None THEN << >> ELSE buf[k]))
             IN  /\ buf' = [buf EXCEPT ![k] = Append(room, Entry(n))]
                 /\ stored' = [stored EXCEPT ![k] = @ \cup {n}]
                 /\ gone' = [gone EXCEPT ![k] = @ \cup (Buffered(k) \ SeqsOf(room))]
                 /\ disorder' = IF n < Highest(stored[k]) THEN disorder \cup {k} ELSE disorder
       \/ /\ ~relay[s].keep
          /\ UNCHANGED <<buf, stored, gone, disorder>>
    /\ UNCHANGED <<seqCounter, chan, connVars, sweep>>

-----------------------------------------------------------------------------
(* evict_expired, every 10 s.                                              *)

CollectKeys ==
    /\ sweep.pc = "sleep"
    /\ sweep' = [sweep EXCEPT !.pc = "evict", !.todo = {k \in Keys : buf[k] # None}]
    /\ UNCHANGED <<relayVars, chan, connVars, buf, history>>

\* The expired messages of one key are popped; an empty buffer is to go.
EvictKey(k) ==
    /\ sweep.pc = "evict"
    /\ k \in sweep.todo
    /\ LET rest == IF buf[k] = None THEN None ELSE PopExpired(buf[k])
       IN  /\ buf' = [buf EXCEPT ![k] = rest]
           /\ gone' = [gone EXCEPT ![k] = @ \cup (Buffered(k) \ IF rest = None THEN {} ELSE SeqsOf(rest))]
           /\ sweep' = [pc |-> IF rest = << >> THEN "drop" ELSE "evict",
                        todo |-> sweep.todo \ {k}, key |-> IF rest = << >> THEN k ELSE None]
    /\ UNCHANGED <<relayVars, chan, connVars, stored, disorder>>

\* The buffer that was empty is removed, with what was pushed since.
DropBuffer ==
    /\ sweep.pc = "drop"
    /\ buf' = [buf EXCEPT ![sweep.key] = None]
    /\ gone' = [gone EXCEPT ![sweep.key] = @ \cup Buffered(sweep.key)]
    /\ sweep' = [sweep EXCEPT !.pc = "evict", !.key = None]
    /\ UNCHANGED <<relayVars, chan, connVars, stored, disorder>>

SweepDone ==
    /\ sweep.pc = "evict"
    /\ sweep.todo = {}
    /\ sweep' = Asleep
    /\ UNCHANGED <<relayVars, chan, connVars, buf, history>>

\* replay_buffer_ttl has passed for the oldest message that is not expired.
MessageExpires(k) ==
    /\ buf[k] # None
    /\ \E i \in DOMAIN buf[k] :
          /\ ~buf[k][i].expired
          /\ \A j \in 1 .. i - 1 : buf[k][j].expired
          /\ buf' = [buf EXCEPT ![k][i].expired = TRUE]
    /\ UNCHANGED <<relayVars, chan, connVars, sweep, history>>

-----------------------------------------------------------------------------
(* A peer's connection.                                                    *)

\* The channel of a new connection replaces the one before; what the client
\* has not read of that one is lost.
Attach(p, transport) ==
    /\ conn[p] \in {"off", "on"}
    /\ sender' = [sender EXCEPT ![p] = TRUE]
    /\ chan' = [chan EXCEPT ![p] = << >>]
    /\ conn' = [conn EXCEPT ![p] = transport]
    /\ UNCHANGED <<relayVars, wiping, buf, sweep, last, history>>

\* The next long poll of a connected client looks at the buffer again.
Poll(p) ==
    /\ conn[p] = "on"
    /\ conn' = [conn EXCEPT ![p] = "http"]
    /\ UNCHANGED <<relayVars, sender, wiping, last, chan, buf, sweep, history>>

\* oldest_seq: the front of the buffer, expired or not, 0 when there is none.
OldestSeq(p) == IF buf[p] \in {None, << >>} THEN 0 ELSE buf[p][1].seq

\* Mutant: the comparison is the other way round.
CheckGapSwapped(p) ==
    /\ conn[p] \in {"ws", "http"}
    /\ Len(chan[p]) < MaxChan
    /\ chan' = [chan EXCEPT ![p] =
                   IF OldestSeq(p) # 0 /\ OldestSeq(p) < last[p] THEN Append(@, ReplayGap) ELSE @]
    /\ conn' = [conn EXCEPT ![p] = IF @ = "ws" THEN "on" ELSE "replay"]
    /\ UNCHANGED <<relayVars, sender, wiping, last, buf, sweep, history>>

\* REPLAY_GAP when the client is behind the oldest buffered message.  A
\* WebSocket gets no more than that.
CheckGap(p) ==
    /\ conn[p] \in {"ws", "http"}
    /\ Len(chan[p]) < MaxChan
    /\ chan' = [chan EXCEPT ![p] =
                   IF last[p] < OldestSeq(p) THEN Append(@, ReplayGap) ELSE @]
    /\ conn' = [conn EXCEPT ![p] = IF @ = "ws" THEN "on" ELSE "replay"]
    /\ UNCHANGED <<relayVars, sender, wiping, last, buf, sweep, history>>

\* Mutant: since_seq is off by one.
ReplaySinceNext(entries, n) ==
    LET wanted(e) == e.seq > n + 1 /\ ~e.expired
        kept[i \in 0 .. Len(entries)] ==
            IF i = 0 THEN << >>
            ELSE IF wanted(entries[i]) THEN Append(kept[i - 1], entries[i].seq) ELSE kept[i - 1]
    IN  kept[Len(entries)]

\* replay_since: what is buffered above the number and not expired, oldest first.
ReplaySince(entries, n) ==
    LET wanted(e) == e.seq > n /\ ~e.expired
        kept[i \in 0 .. Len(entries)] ==
            IF i = 0 THEN << >>
            ELSE IF wanted(entries[i]) THEN Append(kept[i - 1], entries[i].seq) ELSE kept[i - 1]
    IN  kept[Len(entries)]

Replay(p) ==
    /\ conn[p] = "replay"
    /\ LET again == IF buf[p] = None THEN << >> ELSE ReplaySince(buf[p], last[p])
       IN  /\ Len(chan[p]) + Len(again) <= MaxChan
           /\ chan' = [chan EXCEPT ![p] = IF sender[p] THEN @ \o again ELSE @]
    /\ conn' = [conn EXCEPT ![p] = "on"]
    /\ UNCHANGED <<relayVars, sender, wiping, last, buf, sweep, history>>

\* The client reads its next message, once the request that attached it has
\* looked at the buffer: an HTTP handler answers only then, and a WebSocket may
\* as well read later.  So `last` is still the last_seq of the request while
\* the handler compares with it.
Read(p) ==
    /\ conn[p] = "on"
    /\ chan[p] # << >>
    /\ chan' = [chan EXCEPT ![p] = Tail(@)]
    /\ last' = [last EXCEPT ![p] = Max({@, Head(chan[p])})]
    /\ UNCHANGED <<relayVars, sender, conn, wiping, buf, sweep, stored, gone, disorder>>

\* The connection ends: the channel goes now, the buffer in a later step of
\* the same handler (remove_client_from_all_rooms).
Close(p) ==
    /\ conn[p] = "on"
    /\ conn' = [conn EXCEPT ![p] = "off"]
    /\ sender' = [sender EXCEPT ![p] = FALSE]
    /\ chan' = [chan EXCEPT ![p] = << >>]
    /\ wiping' = wiping \cup {p}
    /\ UNCHANGED <<relayVars, last, buf, sweep, history>>

Wipe(p) ==
    /\ p \in wiping
    /\ wiping' = wiping \ {p}
    /\ buf' = [buf EXCEPT ![p] = None]
    /\ gone' = [gone EXCEPT ![p] = @ \cup Buffered(p)]
    /\ UNCHANGED <<relayVars, chan, sender, conn, last, sweep, stored, disorder>>

\* check_broken, LEAVE or a dead writer: the channel goes, the buffer stays.
Evict(p) ==
    /\ conn[p] = "on"
    /\ conn' = [conn EXCEPT ![p] = "off"]
    /\ sender' = [sender EXCEPT ![p] = FALSE]
    /\ chan' = [chan EXCEPT ![p] = << >>]
    /\ UNCHANGED <<relayVars, wiping, last, buf, sweep, history>>

\* Nothing of this survives the process, except what the clients have seen.
ServerRestart ==
    /\ seqCounter' = 0
    /\ relay' = [s \in Senders |-> NoRelay]
    /\ sender' = [p \in Peers |-> FALSE]
    /\ chan' = [p \in Peers |-> << >>]
    /\ conn' = [p \in Peers |-> "off"]
    /\ wiping' = {}
    /\ buf' = [k \in Keys |-> None]
    /\ sweep' = Asleep
    /\ stored' = [k \in Keys |-> {}]
    /\ gone' = [k \in Keys |-> {}]
    /\ disorder' = {}
    /\ UNCHANGED last

-----------------------------------------------------------------------------
Sweep ==
    \/ CollectKeys
    \/ \E k \in Keys : EvictKey(k)
    \/ DropBuffer
    \/ SweepDone

Next ==
    \/ \E s \in Senders :
          \/ \E to \in Keys, keep \in BOOLEAN : Relay(s, to, keep)
          \/ \E p \in Peers : SendTo(s, p)
          \/ Push(s)
    \/ Sweep
    \/ \E k \in Keys : MessageExpires(k)
    \/ \E p \in Peers :
          \/ \E transport \in {"ws", "http"} : Attach(p, transport)
          \/ Poll(p)
          \/ CheckGap(p)
          \/ Replay(p)
          \/ Read(p)
          \/ Close(p)
          \/ Wipe(p)
          \/ Evict(p)
    \/ ServerRestart

Spec == Init /\ [][Next]_vars

-----------------------------------------------------------------------------
(* Properties.                                                             *)

\* Types; a buffer holds at most replay_buffer_size messages, or one when that
\* is 0, each stored under its key and each once.
RelayTypeOK ==
    /\ seqCounter \in 0 .. MaxSeq
    /\ conn \in [Peers -> {"off", "on", "ws", "http", "replay"}]
    /\ last \in [Peers -> 0 .. MaxSeq]
    /\ \A s \in Senders : relay[s].pc = "send" => relay[s].seq \in 1 .. seqCounter
    /\ \A p \in Peers : sender[p] <=> conn[p] # "off"
    /\ \A k \in Keys : buf[k] # None =>
          /\ buf[k] \in Seq([seq : 1 .. MaxSeq, expired : BOOLEAN])
          /\ Len(buf[k]) <= Max({MaxSize, 1})
          /\ Buffered(k) = stored[k] \ gone[k]
          /\ \A i, j \in DOMAIN buf[k] : i # j => buf[k][i].seq # buf[k][j].seq

\* replay_buffer.rs, "message replay on reconnection": when an HTTP client has
\* come back, every message to it that was stored, that neither its TTL, the
\* size of the buffer nor the end of an earlier connection has removed, and
\* whose number is above the last one it saw, has reached it or is in its
\* channel; relays, sweeps and the ends of older connections may run at any
\* point between its attachment and the replay.
MissedIsReplayed ==
    [][\A p \in Peers : (conn[p] = "replay" /\ conn'[p] = "on") =>
          \A n \in stored[p] \ gone[p] :
             \/ n <= last[p]
             \/ n \in Range(chan'[p])
             \/ \E i \in DOMAIN buf[p] : buf[p][i] = [seq |-> n, expired |-> TRUE]]_vars

\* ws.rs, "notify them so they can do a full state sync": a peer that comes
\* back, by any transport, and finds messages buffered is told of the gap when
\* a message to it above the last number it saw has left the buffer, for
\* whatever reason and however long ago, provided the messages were stored in order.
GapIsAnnounced ==
    [][\A p \in Peers :
          (/\ conn[p] \in {"ws", "http"}
           /\ conn'[p] \in {"on", "replay"}
           /\ Buffered(p) # {}
           /\ p \notin disorder
           /\ \E n \in gone[p] : n > last[p])
              => ReplayGap \in Range(chan'[p])]_vars
=============================================================================
