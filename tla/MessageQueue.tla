---------------------------- MODULE MessageQueue ----------------------------
(***************************************************************************)
(* The offline queue: transmissions to a peer that is not connected        *)
(* (handle_transmission in handlers/message.rs) wait in Redis              *)
(* (redis_realm.rs) until the peer connects (deliver_queued_messages in    *)
(* handlers/ws.rs and handlers/http.rs), expire                            *)
(* (services/messages_expire.rs) or are dropped with their receiver        *)
(* (services/check_broken.rs).                                             *)
(*                                                                         *)
(* Reading a queue and clearing it are separate round trips, and so are    *)
(* looking for a receiver and queueing: each is an action.  Pushing and    *)
(* clearing are pipes of three commands, which are not a transaction: a    *)
(* connection that breaks cuts them after any command.  A message is a     *)
(* number, which is used again once the message is in no queue and with no *)
(* sender, so that traffic never has to end.  How long a queue has been    *)
(* left alone is "fresh" or "old".                                         *)
(***************************************************************************)
EXTENDS Integers, FiniteSets, Sequences, SequencesExt

CONSTANTS
    Ids,          \* receivers
    Conns,        \* their sockets
    Senders,      \* tasks that handle a transmission
    Expirer,      \* the task of services/messages_expire.rs
    Evictor,      \* the task of services/check_broken.rs
    None,
    MaxMessages,  \* bound on the messages under way at once
    MaxErrors     \* bound on Redis errors

ASSUME QueueSets ==
    /\ IsFiniteSet(Ids) /\ IsFiniteSet(Conns) /\ IsFiniteSet(Senders)
    /\ Conns \cap Senders = {} /\ {Expirer, Evictor} \cap (Conns \cup Senders) = {}
    /\ Expirer # Evictor /\ None \notin Ids \cup Conns
ASSUME QueueBounds == MaxMessages \in Nat /\ MaxErrors \in Nat

VARIABLES
    wsSenders,  \* AppState.ws_senders: id -> socket, or None
    queue,      \* peer:queue:<id>
    stamp,      \* peer:queue_meta:<id>: "none", "fresh", or "old" (>= expire_timeout)
    listed,     \* peer:queues
    task,       \* what each task is doing
    accepted,   \* history: receiver in whose queue each message was put, or None
    passed,     \* history: messages put into their receiver's channel, or whose
                \* source was told EXPIRE
    raced,      \* history: receivers whose queue was cleared other than as read
    errors      \* Redis errors left

redisVars == <<queue, stamp, listed>>
historyVars == <<accepted, passed, raced>>
vars == <<wsSenders, redisVars, task, historyVars, errors>>

Tasks == Conns \cup Senders \cup {Expirer, Evictor}
Messages == 1 .. MaxMessages

\* id: whose queue; msgs: the message to queue or the messages read; todo: the
\* queues the expirer still has to look at.
Idle == [pc |-> "idle", id |-> None, msgs |-> <<>>, todo |-> {}]

Init ==
    /\ wsSenders = [id \in Ids |-> None]
    /\ queue = [id \in Ids |-> <<>>]
    /\ stamp = [id \in Ids |-> "none"]
    /\ listed = {}
    /\ task = [t \in Tasks |-> Idle]
    /\ accepted = [m \in Messages |-> None]
    /\ passed = {}
    /\ raced = {}
    /\ errors = MaxErrors

RedisFails == errors > 0 /\ errors' = errors - 1

\* A pipe of three commands is carried out up to the n-th: all of it, unless
\* Redis fails.  The last answer may be what is lost.
Carried(n) == RedisFails \/ (n = 3 /\ UNCHANGED errors)

\* Tasks that have read a queue and are about to clear it.
Clearing(id) == {t \in Tasks : task[t].pc = "clear" /\ task[t].id = id}

-----------------------------------------------------------------------------
(* handle_transmission                                                     *)

\* A number that no message under way has.
Unused(m) ==
    /\ \A id \in Ids : m \notin ToSet(queue[id])
    /\ \A t \in Tasks : task[t].pc = "push" => task[t].msgs # <<m>>

\* The receiver's channel is looked up: the message is sent or is to be queued.
\* (A channel that is closed is Sessions' SendToDeadPeer; LEAVE and EXPIRE are
\* never queued.)
Transmit(s, id, m) ==
    /\ task[s].pc = "idle"
    /\ Unused(m)
    /\ accepted' = [accepted EXCEPT ![m] = None]
    /\ \/ /\ wsSenders[id] # None
          /\ passed' = passed \cup {m}
          /\ UNCHANGED task
       \/ /\ wsSenders[id] = None
          /\ passed' = passed \ {m}
          /\ task' = [task EXCEPT ![s].pc = "push", ![s].id = id, ![s].msgs = <<m>>]
    /\ UNCHANGED <<wsSenders, redisVars, raced, errors>>

\* RPUSH, SET and SADD: the pipe of add_message_to_queue up to its n-th command.
PushCommands(id, msgs, n) ==
    /\ queue' = IF n >= 1 THEN [queue EXCEPT ![id] = @ \o msgs] ELSE queue
    /\ stamp' = IF n >= 2 THEN [stamp EXCEPT ![id] = "fresh"] ELSE stamp
    /\ listed' = IF n >= 3 THEN listed \cup {id} ELSE listed
    /\ accepted' = IF n >= 1 THEN [accepted EXCEPT ![msgs[1]] = id] ELSE accepted
    /\ raced' = IF n >= 1 /\ Clearing(id) # {} THEN raced \cup {id} ELSE raced

\* Mutant: a push is retried when Redis fails.
PushRetries(s) ==
    /\ task[s].pc = "push"
    /\ \E n \in 0 .. 3 :
          /\ PushCommands(task[s].id, task[s].msgs, n)
          /\ \/ n = 3 /\ UNCHANGED errors /\ task' = [task EXCEPT ![s] = Idle]
             \/ RedisFails /\ UNCHANGED task
    /\ UNCHANGED <<wsSenders, passed>>

\* add_message_to_queue, whose error is logged: the message may be lost, or be
\* in a queue that is not listed.  The receiver may have connected meanwhile.
Push(s) ==
    /\ task[s].pc = "push"
    /\ \E n \in 0 .. 3 : Carried(n) /\ PushCommands(task[s].id, task[s].msgs, n)
    /\ task' = [task EXCEPT ![s] = Idle]
    /\ UNCHANGED <<wsSenders, passed>>

\* The rest of the traffic.  Only MaxMessages messages are followed: another one
\* that joins a queue they wait in is seen by the stamp it renews and by the list.
PushMore(id) ==
    /\ queue[id] # <<>>
    /\ stamp' = [stamp EXCEPT ![id] = "fresh"]
    /\ listed' = listed \cup {id}
    /\ UNCHANGED <<wsSenders, queue, task, historyVars, errors>>

-----------------------------------------------------------------------------
(* read_all_messages and clear_message_queue, for a receiver and the expirer. *)

\* Mutant: a receiver clears the queue after a failed read too.
StampReadAlwaysClears(t) ==
    /\ task[t].pc = "stamp"
    /\ \/ /\ stamp' = [stamp EXCEPT ![task[t].id] = "fresh"]
          /\ task' = [task EXCEPT ![t].pc = "read"]
          /\ UNCHANGED <<errors, raced>>
       \/ /\ RedisFails
          /\ task' = [task EXCEPT ![t].pc = "clear"]
          /\ raced' = IF t = Expirer THEN raced \cup {task[t].id} ELSE raced
          /\ stamp' \in {stamp, [stamp EXCEPT ![task[t].id] = "fresh"]}
    /\ UNCHANGED <<wsSenders, queue, listed, accepted, passed>>

\* The first round trip of read_all_messages: now is the time of last reading.
\* When it fails the queue is not read and counts as empty.
StampRead(t) ==
    /\ task[t].pc = "stamp"
    /\ \/ /\ stamp' = [stamp EXCEPT ![task[t].id] = "fresh"]
          /\ task' = [task EXCEPT ![t].pc = "read"]
          /\ UNCHANGED <<errors, raced>>
       \/ /\ RedisFails
          /\ task' = [task EXCEPT ![t].pc = IF t = Expirer THEN "clear" ELSE "open"]
          /\ raced' = IF t = Expirer THEN raced \cup {task[t].id} ELSE raced
          /\ stamp' \in {stamp, [stamp EXCEPT ![task[t].id] = "fresh"]}
    /\ UNCHANGED <<wsSenders, queue, listed, accepted, passed>>

\* deliver_queued_messages: an empty queue is left alone, anything else goes to
\* the socket's channel before the queue is cleared.  A channel whose writer
\* died stops the sending, not the clearing.
ReadAndDeliver(c) ==
    /\ task[c].pc = "read"
    /\ LET id == task[c].id
       IN  \/ /\ queue[id] # <<>>
              /\ \E n \in 0 .. Len(queue[id]) :
                    /\ passed' = passed \cup ToSet(SubSeq(queue[id], 1, n))
                    /\ raced' = IF n < Len(queue[id]) THEN raced \cup {id} ELSE raced
              /\ task' = [task EXCEPT ![c].pc = "clear"]
              /\ UNCHANGED errors
           \/ /\ RedisFails \/ (queue[id] = <<>> /\ UNCHANGED errors)
              /\ task' = [task EXCEPT ![c].pc = "open"]
              /\ UNCHANGED <<passed, raced>>
    /\ UNCHANGED <<wsSenders, redisVars, accepted>>

\* messages_expire: every source of a message read is told EXPIRE, once per
\* source.  A failed read counts as an empty queue, which is cleared all the same.
ReadAndExpire ==
    /\ task[Expirer].pc = "read"
    /\ \/ /\ passed' = passed \cup ToSet(queue[task[Expirer].id])
          /\ UNCHANGED <<errors, raced>>
       \/ /\ RedisFails
          /\ raced' = raced \cup {task[Expirer].id}
          /\ UNCHANGED passed
    /\ task' = [task EXCEPT ![Expirer].pc = "clear"]
    /\ UNCHANGED <<wsSenders, redisVars, accepted>>

\* DEL, DEL and SREM: the pipe of clear_message_queue up to its n-th command.
ClearCommands(id, n) ==
    /\ queue' = IF n >= 1 THEN [queue EXCEPT ![id] = <<>>] ELSE queue
    /\ stamp' = IF n >= 2 THEN [stamp EXCEPT ![id] = "none"] ELSE stamp
    /\ listed' = IF n >= 3 THEN listed \ {id} ELSE listed

\* clear_message_queue, whose error is ignored: whatever is in the queue by now
\* goes.
Clear(t) ==
    /\ task[t].pc = "clear"
    /\ \E n \in 0 .. 3 : Carried(n) /\ ClearCommands(task[t].id, n)
    /\ task' = [task EXCEPT ![t] = CASE t \in Conns -> [@ EXCEPT !.pc = "open"]
                                      [] t = Expirer -> [@ EXCEPT !.pc = "expire", !.id = None]
                                      [] OTHER -> Idle]
    /\ UNCHANGED <<wsSenders, historyVars>>

-----------------------------------------------------------------------------
(* Receivers.                                                              *)

\* run_client stores the channel and then delivers the queue.
Attach(c, id) ==
    /\ task[c].pc = "idle"
    /\ wsSenders' = [wsSenders EXCEPT ![id] = c]
    /\ task' = [task EXCEPT ![c].pc = "stamp", ![c].id = id]
    /\ UNCHANGED <<redisVars, historyVars, errors>>

Close(c) ==
    /\ task[c].pc = "open"
    /\ wsSenders' = [wsSenders EXCEPT ![task[c].id] = IF @ = c THEN None ELSE @]
    /\ task' = [task EXCEPT ![c] = Idle]
    /\ UNCHANGED <<redisVars, historyVars, errors>>

\* check_broken removes the channel, and then the queue without a look at it.
Evict(id) ==
    /\ task[Evictor].pc = "idle"
    /\ wsSenders[id] # None
    /\ wsSenders' = [wsSenders EXCEPT ![id] = None]
    /\ task' = [task EXCEPT ![Evictor].pc = "clear", ![Evictor].id = id]
    /\ raced' = raced \cup {id}
    /\ UNCHANGED <<redisVars, accepted, passed, errors>>

-----------------------------------------------------------------------------
(* messages_expire                                                         *)

\* get_client_ids_with_queue; on an error the tick is skipped.
CollectQueues ==
    /\ task[Expirer].pc = "idle"
    /\ listed # {}
    /\ task' = [task EXCEPT ![Expirer].pc = "expire", ![Expirer].todo = listed]
    /\ UNCHANGED <<wsSenders, redisVars, historyVars, errors>>

\* Mutant: the queue of a connected receiver is left alone.
CheckStampIfAway(id) ==
    /\ task[Expirer].pc = "expire"
    /\ id \in task[Expirer].todo
    /\ \/ /\ stamp[id] = "fresh" \/ wsSenders[id] # None
          /\ task' = [task EXCEPT ![Expirer].todo = @ \ {id}]
       \/ /\ stamp[id] # "fresh" /\ wsSenders[id] = None
          /\ task' = [task EXCEPT ![Expirer].todo = @ \ {id}, ![Expirer].pc = "stamp",
                                  ![Expirer].id = id]
    /\ UNCHANGED <<wsSenders, redisVars, historyVars, errors>>

\* get_queue_last_read_at: a queue that was pushed to or read within
\* expire_timeout is left alone; a missing stamp or an error reads as 0.
CheckStamp(id) ==
    /\ task[Expirer].pc = "expire"
    /\ id \in task[Expirer].todo
    /\ \/ /\ stamp[id] = "fresh"
          /\ task' = [task EXCEPT ![Expirer].todo = @ \ {id}]
          /\ UNCHANGED errors
       \/ /\ RedisFails \/ (stamp[id] # "fresh" /\ UNCHANGED errors)
          /\ task' = [task EXCEPT ![Expirer].todo = @ \ {id}, ![Expirer].pc = "stamp",
                                  ![Expirer].id = id]
    /\ UNCHANGED <<wsSenders, redisVars, historyVars>>

ExpiryDone ==
    /\ task[Expirer].pc = "expire"
    /\ task[Expirer].todo = {}
    /\ task' = [task EXCEPT ![Expirer] = Idle]
    /\ UNCHANGED <<wsSenders, redisVars, historyVars, errors>>

\* expire_timeout passes.
TimePasses(id) ==
    /\ stamp[id] = "fresh"
    /\ stamp' = [stamp EXCEPT ![id] = "old"]
    /\ UNCHANGED <<wsSenders, queue, listed, task, historyVars, errors>>

-----------------------------------------------------------------------------
ReceiverSteps(c) == StampRead(c) \/ ReadAndDeliver(c) \/ Clear(c)

ExpirerSteps ==
    \/ CollectQueues
    \/ \E id \in Ids : CheckStamp(id)
    \/ ExpiryDone
    \/ StampRead(Expirer)
    \/ ReadAndExpire
    \/ Clear(Expirer)

Next ==
    \/ \E s \in Senders : (\E id \in Ids, m \in Messages : Transmit(s, id, m)) \/ Push(s)
    \/ \E c \in Conns : (\E id \in Ids : Attach(c, id)) \/ ReceiverSteps(c) \/ Close(c)
    \/ ExpirerSteps
    \/ \E id \in Ids : PushMore(id) \/ Evict(id) \/ TimePasses(id)
    \/ Clear(Evictor)

Spec == Init /\ [][Next]_vars

\* tokio runs what is ready, messages_expire wakes up every cleanup_out_msgs and
\* time passes.  Peers promise nothing: traffic may go on for ever or stop at any
\* point.  Redis fails finitely often.
Fairness ==
    /\ \A s \in Senders : WF_vars(Push(s))
    /\ \A c \in Conns : WF_vars(ReceiverSteps(c))
    /\ WF_vars(ExpirerSteps)
    /\ WF_vars(Clear(Evictor))
    /\ \A id \in Ids : WF_vars(TimePasses(id))

FairSpec == Spec /\ Fairness

-----------------------------------------------------------------------------
(* Properties.                                                             *)

\* The Redis keys and the tasks keep their types, and a message is queued once.
QueueTypeOK ==
    /\ wsSenders \in [Ids -> Conns \cup {None}]
    /\ \A id \in Ids : ToSet(queue[id]) \subseteq Messages /\ IsInjective(queue[id])
    /\ stamp \in [Ids -> {"none", "fresh", "old"}]
    /\ listed \subseteq Ids
    /\ \A t \in Tasks :
          /\ task[t].pc \in {"idle", "push", "stamp", "read", "clear", "open", "expire"}
          /\ task[t].pc \notin {"idle", "expire"} => task[t].id \in Ids
    /\ accepted \in [Messages -> Ids \cup {None}]
    /\ errors \in 0 .. MaxErrors

\* A message that was queued is still queued, has reached its receiver's channel,
\* or its source was told EXPIRE, unless its queue was cleared other than as
\* read: by a push between reading and clearing, by a dead channel, by a failed
\* read in messages_expire or by an eviction.
NothingLost ==
    \A m \in Messages :
        (accepted[m] # None /\ accepted[m] \notin raced) =>
            m \in ToSet(queue[accepted[m]]) \cup passed

\* messages_expire will find the queue, or its receiver is about to read it and
\* Redis will not fail any more.
Reached(id) ==
    \/ id \in listed
    \/ errors = 0 /\ \E c \in Conns : task[c].id = id /\ task[c].pc \in {"stamp", "read", "clear"}

\* A queue drains unless further pushes onto it go on for ever: also the message
\* that was pushed just after its receiver connected, and is then not delivered,
\* leaves by messages_expire.  (Each push renews the stamp, so a steady sender may
\* keep a queue from expiring; and a queue that a push cut after RPUSH has left
\* unlisted is found by nobody but the next receiver or push.)
QueueDrains ==
    \A id \in Ids :
        \/ []<><<PushMore(id)>>_vars
        \/ (queue[id] # <<>> /\ Reached(id)) ~> (queue[id] = <<>>)
=============================================================================
