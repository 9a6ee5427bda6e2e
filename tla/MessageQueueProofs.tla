------------------------- MODULE MessageQueueProofs -------------------------
(***************************************************************************)
(* Theorems about the offline queue of MessageQueue, for any number of     *)
(* receivers, sockets, senders, messages and Redis errors.                 *)
(***************************************************************************)
EXTENDS MessageQueue, SequenceTheorems, TLAPS

-----------------------------------------------------------------------------
(* The inductive invariants.                                               *)

Places == {"idle", "push", "stamp", "read", "clear", "open", "expire"}
TaskRecords == [pc : Places, id : Ids \cup {None}, msgs : Seq(Messages), todo : SUBSET Ids]

\* What a task knows at each place of its code.
TaskStates ==
    {x \in TaskRecords :
        /\ x.pc \notin {"idle", "expire"} => x.id \in Ids
        /\ x.pc = "push" => \E m \in Messages : x.msgs = <<m>>}

QueueShape ==
    /\ wsSenders \in [Ids -> Conns \cup {None}]
    /\ queue \in [Ids -> Seq(Messages)]
    /\ stamp \in [Ids -> {"none", "fresh", "old"}]
    /\ listed \subseteq Ids
    /\ task \in [Tasks -> TaskStates]
    /\ accepted \in [Messages -> Ids \cup {None}]
    /\ errors \in 0 .. MaxErrors

\* A message is with one sender or was accepted for one queue, and is in that
\* queue at most once.
SentOnce ==
    /\ \A t \in Tasks : task[t].pc = "push" => accepted[task[t].msgs[1]] = None
    /\ \A t, u \in Tasks :
          task[t].pc = "push" /\ task[u].pc = "push" /\ task[t].msgs[1] = task[u].msgs[1] => t = u
    /\ \A id \in Ids : \A i \in 1 .. Len(queue[id]) : accepted[queue[id][i]] = id
    /\ \A id \in Ids : IsInjective(queue[id])

\* Who is about to clear a queue has passed on all that is in it, unless the
\* queue is raced.
ClearsWhatWasRead ==
    \A t \in Tasks :
        task[t].pc = "clear" /\ task[t].id \notin raced =>
            ToSet(queue[task[t].id]) \subseteq passed

-----------------------------------------------------------------------------
(* What pushing and reading do to a queue.                                 *)

\* A push adds its message and no other; a queue of different messages stays
\* one when the message is new to it.
LEMMA PushedQueue ==
    ASSUME NEW s \in Seq(Messages), NEW m \in Messages, NEW p, p = s \o <<m>>
    PROVE  /\ p \in Seq(Messages) /\ p # <<>>
           /\ Len(p) = Len(s) + 1
           /\ \A i \in 1 .. Len(s) : p[i] = s[i]
           /\ p[Len(s) + 1] = m
           /\ ToSet(p) = ToSet(s) \cup {m}
           /\ IsInjective(s) /\ m \notin ToSet(s) => IsInjective(p)
<1>1. p = Append(s, m)
  BY AppendIsConcat
<1>2. /\ p \in Seq(Messages) /\ p # <<>>
      /\ Len(p) = Len(s) + 1
      /\ \A i \in 1 .. Len(s) : p[i] = s[i]
      /\ p[Len(s) + 1] = m
  BY <1>1, AppendProperties
<1>3. /\ Len(s) \in Nat
      /\ DOMAIN s = 1 .. Len(s) /\ DOMAIN p = 1 .. Len(s) + 1
  BY <1>2, LenProperties
<1>4. ToSet(p) = ToSet(s) \cup {m}
  BY <1>2, <1>3, SMT DEF ToSet
<1>5. ASSUME IsInjective(s), m \notin ToSet(s)
      PROVE  IsInjective(p)
  BY <1>2, <1>3, <1>5, SMT DEF ToSet, IsInjective
<1> QED
  BY <1>2, <1>4, <1>5

\* What a queue holds is what its positions hold, and nothing when it is empty.
LEMMA QueueElements ==
    ASSUME NEW s \in Seq(Messages)
    PROVE  /\ \A m : m \in ToSet(s) <=> \E i \in 1 .. Len(s) : s[i] = m
           /\ ToSet(s) \subseteq Messages
           /\ ToSet(SubSeq(s, 1, Len(s))) = ToSet(s)
<1>1. SubSeq(s, 1, Len(s)) = s
  BY SubSeqFull
<1>2. DOMAIN s = 1 .. Len(s) /\ \A i \in 1 .. Len(s) : s[i] \in Messages
  BY LenProperties, ElementOfSeq
<1> QED
  BY <1>1, <1>2 DEF ToSet

\* The empty queue.
LEMMA EmptyQueue == <<>> \in Seq(Messages) /\ Len(<<>>) = 0 /\ ToSet(<<>>) = {} /\ IsInjective(<<>>)
<1>1. <<>> \in Seq(Messages) /\ Len(<<>>) = 0
  BY EmptySeq
<1>2. DOMAIN <<>> = {}
  BY <1>1, LenProperties, SMT
<1> QED
  BY <1>1, <1>2 DEF ToSet, IsInjective

-----------------------------------------------------------------------------
(* The shape of the state.                                                 *)

\* The server starts without queues.
LEMMA InitQueueShape == Init => QueueShape
<1> SUFFICES ASSUME Init PROVE QueueShape
  OBVIOUS
<1>1. Idle \in TaskStates
  BY EmptyQueue DEF Idle, TaskStates, TaskRecords, Places
<1> QED
  BY <1>1, EmptyQueue, QueueBounds DEF Init, QueueShape

\* A task that moves, and keeps to what its place means, leaves the other tasks
\* where they are.
LEMMA TaskMoves ==
    ASSUME task \in [Tasks -> TaskStates], NEW t \in Tasks, NEW y \in TaskStates,
           task' = [task EXCEPT ![t] = y]
    PROVE  /\ task' \in [Tasks -> TaskStates]
           /\ task'[t] = y
           /\ \A u \in Tasks \ {t} : task'[u] = task[u]
OBVIOUS

-----------------------------------------------------------------------------
(* The five effects a step can have on the queues.                         *)

OthersStay(t) == \A u \in Tasks \ {t} : task'[u] = task[u]

\* A sender takes a number that is not in use, and may be to queue the message.
Takes(s, m) ==
    /\ OthersStay(s)
    /\ task'[s] = task[s] \/ (task'[s].pc = "push" /\ task'[s].msgs = <<m>>)
    /\ Unused(m)
    /\ accepted' = [accepted EXCEPT ![m] = None]
    /\ passed \ {m} \subseteq passed'
    /\ UNCHANGED <<queue, raced>>

\* A message is pushed onto its receiver's queue.
Pushes(s, id, m) ==
    /\ task[s].pc = "push" /\ task[s].msgs = <<m>> /\ task[s].id = id
    /\ OthersStay(s) /\ task'[s].pc = "idle"
    /\ queue' = [queue EXCEPT ![id] = @ \o <<m>>]
    /\ accepted' = [accepted EXCEPT ![m] = id]
    /\ raced' = IF Clearing(id) # {} THEN raced \cup {id} ELSE raced
    /\ UNCHANGED passed

\* A task that is to clear a queue clears it.
Clears(t, id) ==
    /\ task[t].pc = "clear" /\ task[t].id = id
    /\ OthersStay(t) /\ task'[t].pc \notin {"push", "clear"}
    /\ queue' = [queue EXCEPT ![id] = <<>>]
    /\ UNCHANGED historyVars

\* A task is to clear a queue: it has passed on all of it, or the queue is raced.
StartsToClear(t) ==
    /\ OthersStay(t)
    /\ task'[t].pc = "clear"
    /\ passed \subseteq passed' /\ raced \subseteq raced'
    /\ task'[t].id \notin raced' => ToSet(queue[task'[t].id]) \subseteq passed'
    /\ UNCHANGED <<queue, accepted>>

\* Nothing happens to a queue, and no task is newly to push or to clear.
LeavesQueues ==
    /\ \A t \in Tasks : task'[t] = task[t] \/ task'[t].pc \notin {"push", "clear"}
    /\ passed \subseteq passed'
    /\ UNCHANGED <<queue, accepted, raced>>

QueueEffect ==
    \/ \E s \in Tasks, m \in Messages : Takes(s, m)
    \/ \E s \in Tasks, id \in Ids, m \in Messages : Pushes(s, id, m)
    \/ \E t \in Tasks, id \in Ids : Clears(t, id)
    \/ \E t \in Tasks : StartsToClear(t)
    \/ LeavesQueues

\* Every step keeps the shape and has one of the five effects.
LEMMA QueueSteps ==
    ASSUME QueueShape, [Next]_vars
    PROVE  QueueShape' /\ QueueEffect
<1> DEFINE Goal == QueueShape' /\ QueueEffect
<1> SUFFICES Goal
  OBVIOUS
<1> USE QueueBounds
<1> HIDE DEF Goal
<1>a. /\ Conns \subseteq Tasks /\ Senders \subseteq Tasks
      /\ Expirer \in Tasks /\ Evictor \in Tasks
  BY DEF Tasks
<1>b. \A t \in Tasks : task[t] \in TaskStates
  BY DEF QueueShape
<1>c. \A x \in TaskStates : x \in TaskRecords /\ x.id \in Ids \cup {None}
  BY DEF TaskStates, TaskRecords
<1>rest. ASSUME NEW t \in Tasks, NEW y \in TaskStates, task' = [task EXCEPT ![t] = y],
                y.pc \notin {"push", "clear"},
                UNCHANGED <<queue, accepted, raced>>, passed \subseteq passed',
                listed' \subseteq Ids, wsSenders' \in [Ids -> Conns \cup {None}],
                stamp' \in [Ids -> {"none", "fresh", "old"}], errors' \in 0 .. MaxErrors
         PROVE  Goal
  <2>1. /\ task' \in [Tasks -> TaskStates]
        /\ \A u \in Tasks : task'[u] = task[u] \/ task'[u].pc \notin {"push", "clear"}
    BY <1>rest, TaskMoves DEF QueueShape
  <2>2. QueueShape'
    BY <1>rest, <2>1 DEF QueueShape
  <2>3. LeavesQueues
    BY <1>rest, <2>1 DEF LeavesQueues, QueueShape
  <2> QED
    BY <2>2, <2>3 DEF Goal, QueueEffect
<1>start. ASSUME NEW t \in Tasks, NEW y \in TaskStates, task' = [task EXCEPT ![t] = y],
                 y.pc = "clear",
                 passed \subseteq passed', raced \subseteq raced',
                 y.id \notin raced' => ToSet(queue[y.id]) \subseteq passed',
                 UNCHANGED <<queue, listed, accepted>>, stamp' \in [Ids -> {"none", "fresh", "old"}],
                 wsSenders' \in [Ids -> Conns \cup {None}], errors' \in 0 .. MaxErrors
          PROVE  Goal
  <2>1. task' \in [Tasks -> TaskStates] /\ task'[t] = y /\ OthersStay(t)
    BY <1>start, TaskMoves DEF QueueShape, OthersStay
  <2>2. QueueShape'
    BY <1>start, <2>1 DEF QueueShape
  <2>3. StartsToClear(t)
    BY <1>start, <2>1 DEF StartsToClear
  <2> QED
    BY <2>2, <2>3 DEF Goal, QueueEffect
<1>idle. Idle \in TaskStates /\ Idle.pc = "idle"
  BY EmptyQueue DEF Idle, TaskStates, TaskRecords, Places
<1>fail. ASSUME RedisFails PROVE errors' \in 0 .. MaxErrors
  BY <1>fail DEF RedisFails, QueueShape
<1>1. ASSUME NEW s \in Senders, NEW id \in Ids, NEW m \in Messages, Transmit(s, id, m)
      PROVE  Goal
  <2> PICK x \in TaskStates : x = task[s]
    BY <1>a, <1>b
  <2>1. /\ Unused(m) /\ accepted' = [accepted EXCEPT ![m] = None]
        /\ passed \ {m} \subseteq passed'
        /\ UNCHANGED <<wsSenders, redisVars, raced, errors>>
    BY <1>1 DEF Transmit
  <2>2. accepted' \in [Messages -> Ids \cup {None}]
    BY <2>1 DEF QueueShape
  <2>3. ASSUME task' \in [Tasks -> TaskStates], OthersStay(s),
               task'[s] = task[s] \/ (task'[s].pc = "push" /\ task'[s].msgs = <<m>>)
        PROVE  Goal
    <3>1. QueueShape'
      BY <2>1, <2>2, <2>3 DEF QueueShape, redisVars
    <3>2. Takes(s, m)
      BY <2>1, <2>3 DEF Takes, redisVars
    <3> QED
      BY <3>1, <3>2, <1>a DEF Goal, QueueEffect
  <2>4. CASE UNCHANGED task
    BY <2>3, <2>4 DEF QueueShape, OthersStay
  <2>5. CASE ~UNCHANGED task
    <3> PICK q : q = <<m>>
      OBVIOUS
    <3>0. q \in Seq(Messages)
      OBVIOUS
    <3> DEFINE y == [x EXCEPT !.pc = "push", !.id = id, !.msgs = q]
    <3>1. y \in TaskStates /\ y.pc = "push" /\ y.msgs = <<m>>
      <4>1. y \in TaskRecords /\ y.pc = "push" /\ y.id = id /\ y.msgs = q
        BY <1>c, <3>0 DEF TaskRecords, Places
      <4> QED
        BY <4>1 DEF TaskStates
    <3>2. task' = [task EXCEPT ![s] = y]
      BY <1>1, <2>5, <1>a, <1>b DEF Transmit, QueueShape
    <3> HIDE DEF y
    <3>3. task' \in [Tasks -> TaskStates] /\ task'[s] = y /\ OthersStay(s)
      BY <3>1, <3>2, <1>a, TaskMoves DEF QueueShape, OthersStay
    <3> QED
      BY <2>3, <3>1, <3>3
  <2> QED
    BY <2>4, <2>5
<1>2. ASSUME NEW s \in Senders, Push(s)
      PROVE  Goal
  <2> PICK x \in TaskStates : x = task[s]
    BY <1>a, <1>b
  <2>1. x.pc = "push" /\ x.id \in Ids /\ task' = [task EXCEPT ![s] = Idle]
        /\ UNCHANGED <<wsSenders, passed>>
    BY <1>2 DEF Push, TaskStates
  <2> PICK m \in Messages : x.msgs = <<m>>
    BY <2>1 DEF TaskStates
  <2> PICK id \in Ids : id = x.id
    BY <2>1
  <2>2. task[s].msgs = <<m>> /\ task[s].id = id /\ <<m>>[1] = m
    BY <2>1
  <2>3. task' \in [Tasks -> TaskStates] /\ task'[s].pc = "idle" /\ OthersStay(s)
    BY <2>1, <1>a, <1>idle, TaskMoves DEF QueueShape, OthersStay
  <2> PICK n \in 0 .. 3 : Carried(n) /\ PushCommands(id, <<m>>, n)
    BY <1>2, <2>2 DEF Push
  <2>4. errors' \in 0 .. MaxErrors
    BY <1>fail DEF Carried, QueueShape
  <2>5. stamp' \in [Ids -> {"none", "fresh", "old"}] /\ listed' \subseteq Ids
    <3>1. /\ stamp' = stamp \/ stamp' = [stamp EXCEPT ![id] = "fresh"]
          /\ listed' = listed \/ listed' = listed \cup {id}
      BY DEF PushCommands
    <3> QED
      BY <3>1 DEF QueueShape
  <2>6. CASE n = 0
    <3>1. UNCHANGED <<queue, accepted, raced>>
      BY <2>6 DEF PushCommands
    <3> QED
      BY <2>1, <2>4, <2>5, <3>1, <1>rest, <1>idle, <1>a DEF QueueShape
  <2>7. CASE n \in 1 .. 3
    <3>0. n >= 1
      BY <2>7
    <3>1. /\ queue' = [queue EXCEPT ![id] = @ \o <<m>>]
          /\ accepted' = [accepted EXCEPT ![m] = id]
          /\ raced' = IF Clearing(id) # {} THEN raced \cup {id} ELSE raced
      BY <2>2, <3>0 DEF PushCommands
    <3>2. queue[id] \o <<m>> \in Seq(Messages)
      BY PushedQueue DEF QueueShape
    <3>3. queue' \in [Ids -> Seq(Messages)] /\ accepted' \in [Messages -> Ids \cup {None}]
      BY <3>1, <3>2 DEF QueueShape
    <3>4. QueueShape'
      BY <2>1, <2>3, <2>4, <2>5, <3>3 DEF QueueShape
    <3>5. Pushes(s, id, m)
      BY <2>1, <2>2, <2>3, <3>1 DEF Pushes
    <3> QED
      BY <3>4, <3>5, <1>a DEF Goal, QueueEffect
  <2> QED
    BY <2>6, <2>7
<1>3. ASSUME NEW t \in Tasks, StampRead(t)
      PROVE  Goal
  <2> PICK x \in TaskStates : x = task[t]
    BY <1>b
  <2>1. x.pc = "stamp" /\ x.id \in Ids
        /\ UNCHANGED <<wsSenders, queue, listed, accepted, passed>>
    BY <1>3 DEF StampRead, TaskStates
  <2>2. ASSUME NEW pc \in {"read", "clear", "open"}, task' = [task EXCEPT ![t].pc = pc]
        PROVE  \E y \in TaskStates : task' = [task EXCEPT ![t] = y] /\ y.pc = pc /\ y.id = x.id
    <3> DEFINE y == [x EXCEPT !.pc = pc]
    <3>1. y \in TaskRecords /\ y.pc = pc /\ y.id = x.id
      BY <1>c DEF TaskRecords, Places
    <3>2. y \in TaskStates
      BY <2>1, <3>1 DEF TaskStates
    <3>3. task' = [task EXCEPT ![t] = y]
      BY <2>2 DEF QueueShape
    <3> QED
      BY <3>1, <3>2, <3>3
  <2>3. CASE UNCHANGED <<errors, raced>>
    <3>1. stamp' = [stamp EXCEPT ![x.id] = "fresh"] /\ task' = [task EXCEPT ![t].pc = "read"]
      BY <1>3, <2>3 DEF StampRead, RedisFails, QueueShape
    <3> PICK y \in TaskStates : task' = [task EXCEPT ![t] = y] /\ y.pc = "read"
      BY <2>2, <3>1
    <3> QED
      BY <1>rest, <2>1, <2>3, <3>1 DEF QueueShape
  <2>4. CASE ~UNCHANGED <<errors, raced>>
    <3>1. /\ RedisFails /\ stamp' \in {stamp, [stamp EXCEPT ![x.id] = "fresh"]}
          /\ task' = [task EXCEPT ![t].pc = IF t = Expirer THEN "clear" ELSE "open"]
          /\ raced' = IF t = Expirer THEN raced \cup {x.id} ELSE raced
      BY <1>3, <2>4 DEF StampRead
    <3>0. stamp' \in [Ids -> {"none", "fresh", "old"}]
      BY <2>1, <3>1 DEF QueueShape
    <3>2. CASE t = Expirer
      <4> PICK y \in TaskStates : task' = [task EXCEPT ![t] = y] /\ y.pc = "clear" /\ y.id = x.id
        BY <2>2, <3>1, <3>2
      <4>1. raced' = raced \cup {x.id}
        BY <3>1, <3>2
      <4> QED
        BY <1>start, <1>fail, <2>1, <3>0, <3>1, <4>1 DEF QueueShape
    <3>3. CASE t # Expirer
      <4> PICK y \in TaskStates : task' = [task EXCEPT ![t] = y] /\ y.pc = "open"
        BY <2>2, <3>1, <3>3
      <4>1. UNCHANGED raced
        BY <3>1, <3>3
      <4> QED
        BY <1>rest, <1>fail, <2>1, <3>0, <3>1, <4>1 DEF QueueShape
    <3> QED
      BY <3>2, <3>3
  <2> QED
    BY <2>3, <2>4
<1>4. ASSUME NEW c \in Conns, ReadAndDeliver(c)
      PROVE  Goal
  <2> PICK x \in TaskStates : x = task[c]
    BY <1>a, <1>b
  <2>1. x.pc = "read" /\ x.id \in Ids /\ UNCHANGED <<wsSenders, redisVars, accepted>>
    BY <1>4 DEF ReadAndDeliver, TaskStates
  <2>2. ASSUME NEW pc \in {"clear", "open"}, task' = [task EXCEPT ![c].pc = pc]
        PROVE  \E y \in TaskStates : task' = [task EXCEPT ![c] = y] /\ y.pc = pc /\ y.id = x.id
    <3> DEFINE y == [x EXCEPT !.pc = pc]
    <3>1. y \in TaskRecords /\ y.pc = pc /\ y.id = x.id
      BY <1>c DEF TaskRecords, Places
    <3>2. y \in TaskStates
      BY <2>1, <3>1 DEF TaskStates
    <3>3. task' = [task EXCEPT ![c] = y]
      BY <2>2, <1>a DEF QueueShape
    <3> QED
      BY <3>1, <3>2, <3>3
  <2>3. CASE task' = [task EXCEPT ![c].pc = "open"] /\ UNCHANGED <<passed, raced>>
             /\ (errors' = errors \/ RedisFails)
    <3> PICK y \in TaskStates : task' = [task EXCEPT ![c] = y] /\ y.pc = "open"
      BY <2>2, <2>3
    <3>1. errors' \in 0 .. MaxErrors
      BY <1>fail, <2>3 DEF QueueShape
    <3> QED
      BY <1>rest, <1>a, <2>1, <2>3, <3>1 DEF QueueShape, redisVars
  <2>4. CASE ~(task' = [task EXCEPT ![c].pc = "open"] /\ UNCHANGED <<passed, raced>>
               /\ (errors' = errors \/ RedisFails))
    <3>1. /\ \E n \in 0 .. Len(queue[x.id]) :
                /\ passed' = passed \cup ToSet(SubSeq(queue[x.id], 1, n))
                /\ raced' = IF n < Len(queue[x.id]) THEN raced \cup {x.id} ELSE raced
          /\ task' = [task EXCEPT ![c].pc = "clear"]
          /\ UNCHANGED errors
      BY <1>4, <2>4 DEF ReadAndDeliver
    <3> PICK n \in 0 .. Len(queue[x.id]) :
                /\ passed' = passed \cup ToSet(SubSeq(queue[x.id], 1, n))
                /\ raced' = IF n < Len(queue[x.id]) THEN raced \cup {x.id} ELSE raced
      BY <3>1
    <3> PICK y \in TaskStates : task' = [task EXCEPT ![c] = y] /\ y.pc = "clear" /\ y.id = x.id
      BY <2>2, <3>1
    <3>2. queue[x.id] \in Seq(Messages) /\ Len(queue[x.id]) \in Nat
      BY <2>1, LenProperties DEF QueueShape
    <3>3. CASE n < Len(queue[x.id])
      <4>1. y.id \in raced' /\ raced \subseteq raced'
        BY <3>3
      <4> QED
        BY <1>start, <1>a, <2>1, <3>1, <4>1 DEF QueueShape, redisVars
    <3>4. CASE n = Len(queue[x.id])
      <4>1. ToSet(queue[x.id]) \subseteq passed' /\ raced' = raced
        BY <3>2, <3>4, QueueElements
      <4> QED
        BY <1>start, <1>a, <2>1, <3>1, <4>1 DEF QueueShape, redisVars
    <3> QED
      BY <3>2, <3>3, <3>4
  <2> QED
    BY <2>3, <2>4
<1>5. ASSUME ReadAndExpire
      PROVE  Goal
  <2> PICK x \in TaskStates : x = task[Expirer]
    BY <1>a, <1>b
  <2>1. x.pc = "read" /\ x.id \in Ids /\ UNCHANGED <<wsSenders, redisVars, accepted>>
    BY <1>5 DEF ReadAndExpire, TaskStates
  <2> DEFINE y == [x EXCEPT !.pc = "clear"]
  <2>2. y \in TaskRecords /\ y.pc = "clear" /\ y.id = x.id
    BY <1>c DEF TaskRecords, Places
  <2>3. y \in TaskStates
    BY <2>1, <2>2 DEF TaskStates
  <2>4. task' = [task EXCEPT ![Expirer] = y]
    BY <1>5, <1>a DEF ReadAndExpire, QueueShape
  <2> HIDE DEF y
  <2>5. /\ errors' \in 0 .. MaxErrors
        /\ passed \subseteq passed' /\ raced \subseteq raced'
        /\ y.id \notin raced' => ToSet(queue[y.id]) \subseteq passed'
    BY <1>5, <1>fail, <2>2 DEF ReadAndExpire, QueueShape
  <2> QED
    BY <1>start, <1>a, <2>1, <2>2, <2>3, <2>4, <2>5 DEF QueueShape, redisVars
<1>6. ASSUME NEW t \in Conns \cup {Expirer, Evictor}, Clear(t)
      PROVE  Goal
  <2>0. t \in Tasks
    BY <1>a
  <2> PICK x \in TaskStates : x = task[t]
    BY <1>b, <2>0
  <2>1. x.pc = "clear" /\ x.id \in Ids /\ UNCHANGED <<wsSenders, historyVars>>
    BY <1>6 DEF Clear, TaskStates
  <2>2. \E y \in TaskStates : task' = [task EXCEPT ![t] = y] /\ y.pc \notin {"push", "clear"}
    <3>1. CASE t \in Conns
      <4> DEFINE y == [x EXCEPT !.pc = "open"]
      <4>1. y \in TaskRecords /\ y.pc = "open" /\ y.id = x.id
        BY <1>c DEF TaskRecords, Places
      <4>2. y \in TaskStates
        BY <2>1, <4>1 DEF TaskStates
      <4>3. task' = [task EXCEPT ![t] = y]
        BY <1>6, <3>1, QueueSets, <2>0 DEF Clear, QueueShape
      <4> QED
        BY <4>1, <4>2, <4>3
    <3>2. CASE t = Expirer
      <4> DEFINE y == [x EXCEPT !.pc = "expire", !.id = None]
      <4>1. y \in TaskRecords /\ y.pc = "expire"
        BY <1>c DEF TaskRecords, Places
      <4>2. y \in TaskStates
        BY <2>1, <4>1 DEF TaskStates
      <4>3. task' = [task EXCEPT ![t] = y]
        BY <1>6, <3>2, QueueSets, <2>0 DEF Clear, QueueShape
      <4> QED
        BY <4>1, <4>2, <4>3
    <3>3. CASE t = Evictor
      <4>1. task' = [task EXCEPT ![t] = Idle]
        BY <1>6, <3>3, QueueSets, <2>0 DEF Clear
      <4> QED
        BY <4>1, <1>idle
    <3> QED
      BY <3>1, <3>2, <3>3
  <2> PICK y \in TaskStates : task' = [task EXCEPT ![t] = y] /\ y.pc \notin {"push", "clear"}
    BY <2>2
  <2> PICK id \in Ids : id = x.id
    BY <2>1
  <2> PICK n \in 0 .. 3 : Carried(n) /\ ClearCommands(id, n)
    BY <1>6 DEF Clear
  <2>3. errors' \in 0 .. MaxErrors
    BY <1>fail DEF Carried, QueueShape
  <2>4. stamp' \in [Ids -> {"none", "fresh", "old"}] /\ listed' \subseteq Ids
    <3>1. /\ stamp' = stamp \/ stamp' = [stamp EXCEPT ![id] = "none"]
          /\ listed' = listed \/ listed' = listed \ {id}
      BY DEF ClearCommands
    <3> QED
      BY <3>1 DEF QueueShape
  <2>5. CASE n = 0
    <3>1. UNCHANGED queue
      BY <2>5 DEF ClearCommands
    <3> QED
      BY <1>rest, <2>0, <2>1, <2>3, <2>4, <3>1 DEF QueueShape, historyVars
  <2>6. CASE n \in 1 .. 3
    <3>0. n >= 1
      BY <2>6
    <3>1. queue' = [queue EXCEPT ![id] = <<>>]
      BY <3>0 DEF ClearCommands
    <3>2. queue' \in [Ids -> Seq(Messages)]
      BY <3>1, EmptyQueue DEF QueueShape
    <3>3. task' \in [Tasks -> TaskStates] /\ task'[t] = y /\ OthersStay(t)
      BY <2>0, TaskMoves DEF QueueShape, OthersStay
    <3>4. QueueShape'
      BY <2>1, <2>3, <2>4, <3>2, <3>3 DEF QueueShape, historyVars
    <3>5. Clears(t, id)
      BY <2>1, <3>1, <3>3 DEF Clears
    <3> QED
      BY <3>4, <3>5, <2>0 DEF Goal, QueueEffect
  <2> QED
    BY <2>5, <2>6
<1>7. ASSUME NEW c \in Conns, NEW id \in Ids, Attach(c, id)
      PROVE  Goal
  <2> PICK x \in TaskStates : x = task[c]
    BY <1>a, <1>b
  <2> DEFINE y == [x EXCEPT !.pc = "stamp", !.id = id]
  <2>1. y \in TaskRecords /\ y.pc = "stamp" /\ y.id = id
    BY <1>c DEF TaskRecords, Places
  <2>2. y \in TaskStates
    BY <2>1 DEF TaskStates
  <2>3. task' = [task EXCEPT ![c] = y] /\ wsSenders' \in [Ids -> Conns \cup {None}]
        /\ UNCHANGED <<redisVars, historyVars, errors>>
    BY <1>7, <1>a DEF Attach, QueueShape
  <2> HIDE DEF y
  <2> QED
    BY <1>rest, <1>a, <2>1, <2>2, <2>3 DEF QueueShape, redisVars, historyVars
<1>8. ASSUME NEW c \in Conns, Close(c)
      PROVE  Goal
  <2>1. task' = [task EXCEPT ![c] = Idle] /\ wsSenders' \in [Ids -> Conns \cup {None}]
        /\ UNCHANGED <<redisVars, historyVars, errors>>
    BY <1>8 DEF Close, QueueShape
  <2> QED
    BY <1>rest, <1>idle, <1>a, <2>1 DEF QueueShape, redisVars, historyVars
<1>9. ASSUME NEW id \in Ids, Evict(id)
      PROVE  Goal
  <2> PICK x \in TaskStates : x = task[Evictor]
    BY <1>a, <1>b
  <2> DEFINE y == [x EXCEPT !.pc = "clear", !.id = id]
  <2>1. y \in TaskRecords /\ y.pc = "clear" /\ y.id = id
    BY <1>c DEF TaskRecords, Places
  <2>2. y \in TaskStates
    BY <2>1 DEF TaskStates
  <2>3. task' = [task EXCEPT ![Evictor] = y] /\ wsSenders' \in [Ids -> Conns \cup {None}]
        /\ raced' = raced \cup {id}
        /\ UNCHANGED <<redisVars, accepted, passed, errors>>
    BY <1>9, <1>a DEF Evict, QueueShape
  <2> HIDE DEF y
  <2> QED
    BY <1>start, <1>a, <2>1, <2>2, <2>3 DEF QueueShape, redisVars
<1>10. ASSUME CollectQueues
       PROVE  Goal
  <2> PICK x \in TaskStates : x = task[Expirer]
    BY <1>a, <1>b
  <2> PICK S \in SUBSET Ids : S = listed
    BY DEF QueueShape
  <2> DEFINE y == [x EXCEPT !.pc = "expire", !.todo = S]
  <2>1. y \in TaskRecords /\ y.pc = "expire"
    BY <1>c DEF TaskRecords, Places
  <2>2. y \in TaskStates
    BY <2>1 DEF TaskStates
  <2>3. task' = [task EXCEPT ![Expirer] = y] /\ UNCHANGED <<wsSenders, redisVars, historyVars, errors>>
    BY <1>10, <1>a DEF CollectQueues, QueueShape
  <2> HIDE DEF y
  <2> QED
    BY <1>rest, <1>a, <2>1, <2>2, <2>3 DEF QueueShape, redisVars, historyVars
<1>11. ASSUME NEW id \in Ids, CheckStamp(id)
       PROVE  Goal
  <2> PICK x \in TaskStates : x = task[Expirer]
    BY <1>a, <1>b
  <2>0. x \in TaskRecords /\ x.todo \in SUBSET Ids /\ x.pc = "expire"
    BY <1>c, <1>11 DEF CheckStamp, TaskRecords
  <2> PICK S \in SUBSET Ids : S = x.todo \ {id}
    BY <2>0
  <2>1. UNCHANGED <<wsSenders, redisVars, historyVars>> /\ (errors' = errors \/ RedisFails)
    BY <1>11 DEF CheckStamp
  <2>2. errors' \in 0 .. MaxErrors
    BY <1>fail, <2>1 DEF QueueShape
  <2>3. CASE task' = [task EXCEPT ![Expirer].todo = @ \ {id}]
    <3> DEFINE y == [x EXCEPT !.todo = S]
    <3>1. y \in TaskRecords /\ y.pc = "expire"
      BY <2>0 DEF TaskRecords, Places
    <3>2. y \in TaskStates
      BY <3>1 DEF TaskStates
    <3>3. task' = [task EXCEPT ![Expirer] = y]
      BY <2>3, <1>a DEF QueueShape
    <3> HIDE DEF y
    <3> QED
      BY <1>rest, <1>a, <2>1, <2>2, <3>1, <3>2, <3>3 DEF QueueShape, redisVars, historyVars
  <2>4. CASE task' = [task EXCEPT ![Expirer].todo = @ \ {id}, ![Expirer].pc = "stamp",
                                  ![Expirer].id = id]
    <3> DEFINE y == [x EXCEPT !.todo = S, !.pc = "stamp", !.id = id]
    <3>1. y \in TaskRecords /\ y.pc = "stamp" /\ y.id = id
      BY <2>0 DEF TaskRecords, Places
    <3>2. y \in TaskStates
      BY <3>1 DEF TaskStates
    <3>3. task' = [task EXCEPT ![Expirer] = y]
      BY <2>4, <1>a DEF QueueShape
    <3> HIDE DEF y
    <3> QED
      BY <1>rest, <1>a, <2>1, <2>2, <3>1, <3>2, <3>3 DEF QueueShape, redisVars, historyVars
  <2> QED
    BY <1>11, <2>3, <2>4 DEF CheckStamp
<1>12. ASSUME ExpiryDone
       PROVE  Goal
  BY <1>12, <1>rest, <1>idle, <1>a DEF ExpiryDone, QueueShape, redisVars, historyVars
<1>13. ASSUME NEW id \in Ids, TimePasses(id)
       PROVE  Goal
  <2>1. stamp' = [stamp EXCEPT ![id] = "old"]
        /\ UNCHANGED <<wsSenders, queue, listed, task, historyVars, errors>>
    BY <1>13 DEF TimePasses
  <2>2. QueueShape' /\ LeavesQueues
    BY <2>1 DEF QueueShape, LeavesQueues, historyVars
  <2> QED
    BY <2>2 DEF Goal, QueueEffect
<1>14. ASSUME NEW id \in Ids, PushMore(id)
       PROVE  Goal
  <2>1. stamp' = [stamp EXCEPT ![id] = "fresh"] /\ listed' = listed \cup {id}
        /\ UNCHANGED <<wsSenders, queue, task, historyVars, errors>>
    BY <1>14 DEF PushMore
  <2>2. QueueShape' /\ LeavesQueues
    BY <2>1 DEF QueueShape, LeavesQueues, historyVars
  <2> QED
    BY <2>2 DEF Goal, QueueEffect
<1>15. ASSUME UNCHANGED vars
       PROVE  Goal
  <2>1. QueueShape' /\ LeavesQueues
    BY <1>15 DEF vars, redisVars, historyVars, QueueShape, LeavesQueues
  <2> QED
    BY <2>1 DEF Goal, QueueEffect
<1> QED
  <2>1. ASSUME NEW c \in Conns, ReceiverSteps(c) PROVE Goal
    BY <2>1, <1>a, <1>3, <1>4, <1>6 DEF ReceiverSteps
  <2>2. ASSUME ExpirerSteps PROVE Goal
    BY <2>2, <1>a, <1>10, <1>11, <1>12, <1>3, <1>5, <1>6 DEF ExpirerSteps
  <2> QED
    BY <2>1, <2>2, <1>1, <1>2, <1>6, <1>7, <1>8, <1>9, <1>13, <1>15, <1>14 DEF Next

\* Every reachable state has the shape.
LEMMA AlwaysQueueShape == Spec => []QueueShape
<1>1. QueueShape /\ [Next]_vars => QueueShape'
  BY QueueSteps
<1> QED
  BY InitQueueShape, <1>1, PTL DEF Spec

-----------------------------------------------------------------------------
(* A message is queued once.                                               *)

\* Nothing was sent.
LEMMA InitSentOnce == Init => SentOnce
<1> SUFFICES ASSUME Init PROVE SentOnce
  OBVIOUS
<1>1. \A t \in Tasks : task[t].pc = "idle"
  BY DEF Init, Idle
<1>2. \A m \in Messages : accepted[m] = None
  BY DEF Init
<1>3. \A id \in Ids : queue[id] = <<>> /\ Len(queue[id]) = 0
  BY EmptyQueue DEF Init
<1>4. \A id \in Ids : IsInjective(queue[id])
  BY <1>3, EmptyQueue, Zenon
<1> QED
  BY <1>1, <1>2, <1>3, <1>4 DEF SentOnce

\* A message's number was not in use, one sender has it, and pushing it ends that.
LEMMA NextSentOnce ==
    ASSUME QueueShape, SentOnce, [Next]_vars
    PROVE  SentOnce'
<1> DEFINE Goal == SentOnce'
<1> SUFFICES Goal
  OBVIOUS
<1> HIDE DEF Goal
<1>a. QueueShape' /\ QueueEffect
  BY QueueSteps
<1>b. /\ \A t \in Tasks : task[t].pc = "push" => \E m \in Messages : task[t].msgs = <<m>>
      /\ \A t \in Tasks : task'[t].pc = "push" => \E m \in Messages : task'[t].msgs = <<m>>
      /\ \A id \in Ids : \A i \in 1 .. Len(queue[id]) : queue[id][i] \in Messages
  <2>1. \A t \in Tasks : task[t] \in TaskStates /\ task'[t] \in TaskStates
    BY <1>a DEF QueueShape
  <2>2. \A t \in Tasks : /\ task[t].pc = "push" => \E m \in Messages : task[t].msgs = <<m>>
                         /\ task'[t].pc = "push" => \E m \in Messages : task'[t].msgs = <<m>>
    BY <2>1 DEF TaskStates
  <2>3. \A id \in Ids : \A i \in 1 .. Len(queue[id]) : queue[id][i] \in Messages
    BY ElementOfSeq DEF QueueShape
  <2> QED
    BY <2>2, <2>3
<1>quiet. ASSUME \A t \in Tasks : task'[t].pc = "push" => task'[t] = task[t],
                 UNCHANGED accepted,
                 \A id \in Ids : queue'[id] = queue[id] \/ queue'[id] = <<>>
          PROVE  Goal
  <2>1. \A t \in Tasks : task'[t].pc = "push" => accepted'[task'[t].msgs[1]] = None
    BY <1>quiet DEF SentOnce
  <2>2. \A t, u \in Tasks :
          task'[t].pc = "push" /\ task'[u].pc = "push" /\ task'[t].msgs[1] = task'[u].msgs[1] => t = u
    BY <1>quiet, Zenon DEF SentOnce
  <2>3. \A id \in Ids : \A i \in 1 .. Len(queue'[id]) : accepted'[queue'[id][i]] = id
    BY <1>quiet, EmptyQueue DEF SentOnce
  <2>4. \A id \in Ids : IsInjective(queue'[id])
    BY <1>quiet, EmptyQueue, Zenon DEF SentOnce
  <2> QED
    BY <2>1, <2>2, <2>3, <2>4 DEF Goal, SentOnce
<1>1. CASE LeavesQueues
  BY <1>1, <1>quiet DEF LeavesQueues
<1>2. ASSUME NEW t \in Tasks, StartsToClear(t)
      PROVE  Goal
  BY <1>2, <1>quiet, <1>b DEF StartsToClear, OthersStay
<1>3. ASSUME NEW t \in Tasks, NEW id \in Ids, Clears(t, id)
      PROVE  Goal
  <2>1. \A j \in Ids : queue'[j] = queue[j] \/ queue'[j] = <<>>
    BY <1>3 DEF Clears, QueueShape
  <2>2. UNCHANGED accepted
    BY <1>3 DEF Clears, historyVars
  <2> QED
    BY <1>3, <1>quiet, <1>b, <2>1, <2>2 DEF Clears, OthersStay
<1>4. ASSUME NEW s \in Tasks, NEW m \in Messages, Takes(s, m)
      PROVE  Goal
  <2>1. /\ task'[s] = task[s] \/ (task'[s].pc = "push" /\ task'[s].msgs[1] = m)
        /\ UNCHANGED queue
        /\ \A t \in Tasks \ {s} : task'[t] = task[t]
    BY <1>4 DEF Takes, OthersStay
  <2>2. accepted'[m] = None /\ \A k \in Messages \ {m} : accepted'[k] = accepted[k]
    BY <1>4 DEF Takes, QueueShape
  <2>3. \A t \in Tasks : task[t].pc = "push" => task[t].msgs[1] \in Messages \ {m}
    <3>1. \A t \in Tasks : task[t].pc = "push" => task[t].msgs # <<m>>
      BY <1>4 DEF Takes, Unused
    <3> QED
      BY <1>b, <3>1
  <2>4. \A id \in Ids : \A i \in 1 .. Len(queue[id]) : queue[id][i] \in Messages \ {m}
    <3>1. \A id \in Ids : m \notin ToSet(queue[id]) /\ queue[id] \in Seq(Messages)
      BY <1>4 DEF Takes, Unused, QueueShape
    <3> QED
      BY <1>b, <3>1, QueueElements
  <2>5. \A t \in Tasks : task'[t].pc = "push" => accepted'[task'[t].msgs[1]] = None
    <3> SUFFICES ASSUME NEW t \in Tasks, task'[t].pc = "push"
                 PROVE  accepted'[task'[t].msgs[1]] = None
      OBVIOUS
    <3>1. CASE task'[t] = task[t]
      BY <3>1, <2>2, <2>3 DEF SentOnce
    <3>2. CASE task'[t] # task[t]
      BY <3>2, <2>1, <2>2
    <3> QED
      BY <3>1, <3>2
  <2>6. \A t, u \in Tasks :
          task'[t].pc = "push" /\ task'[u].pc = "push" /\ task'[t].msgs[1] = task'[u].msgs[1] => t = u
    <3>1. \A t, u \in Tasks :
             task[t].pc = "push" /\ task[u].pc = "push" /\ task[t].msgs[1] = task[u].msgs[1] => t = u
      BY DEF SentOnce
    <3> QED
      BY <2>1, <2>3, <3>1
  <2>7. \A id \in Ids : \A i \in 1 .. Len(queue'[id]) : accepted'[queue'[id][i]] = id
    BY <2>1, <2>2, <2>4 DEF SentOnce
  <2>8. \A id \in Ids : IsInjective(queue'[id])
    BY <2>1 DEF SentOnce
  <2> QED
    BY <2>5, <2>6, <2>7, <2>8 DEF Goal, SentOnce
<1>5. ASSUME NEW s \in Tasks, NEW id \in Ids, NEW m \in Messages, Pushes(s, id, m)
      PROVE  Goal
  <2> PICK p : p = queue[id] \o <<m>>
    OBVIOUS
  <2>1. /\ task[s].pc = "push" /\ task[s].msgs[1] = m
        /\ task'[s].pc = "idle" /\ \A t \in Tasks \ {s} : task'[t] = task[t]
        /\ queue' = [queue EXCEPT ![id] = p]
        /\ accepted' = [accepted EXCEPT ![m] = id]
    BY <1>5 DEF Pushes, OthersStay, QueueShape
  <2>2. accepted[m] = None /\ id # None
    BY <2>1, QueueSets DEF SentOnce
  <2>3. /\ queue'[id] = p /\ \A j \in Ids \ {id} : queue'[j] = queue[j]
        /\ accepted'[m] = id /\ \A k \in Messages \ {m} : accepted'[k] = accepted[k]
        /\ queue[id] \in Seq(Messages)
    BY <2>1 DEF QueueShape
  <2>4. \A j \in Ids : \A i \in 1 .. Len(queue[j]) : queue[j][i] # m
    BY <2>2, <1>b, QueueSets DEF SentOnce
  <2>5. m \notin ToSet(queue[id])
    BY <2>3, <2>4, QueueElements
  <2>6. /\ Len(p) = Len(queue[id]) + 1 /\ Len(queue[id]) \in Nat
        /\ \A i \in 1 .. Len(queue[id]) : p[i] = queue[id][i]
        /\ p[Len(queue[id]) + 1] = m
    BY <2>3, PushedQueue, LenProperties
  <2>7. IsInjective(p)
    BY <2>3, <2>5, PushedQueue DEF SentOnce
  <2>9. \A t \in Tasks : task'[t].pc = "push" => task'[t].msgs[1] # m
    BY <2>1 DEF SentOnce
  <2>10. \A t \in Tasks : task'[t].pc = "push" => accepted'[task'[t].msgs[1]] = None
    <3> SUFFICES ASSUME NEW t \in Tasks, task'[t].pc = "push"
                 PROVE  accepted'[task'[t].msgs[1]] = None
      OBVIOUS
    <3>1. task'[t] = task[t] /\ accepted[task[t].msgs[1]] = None
      BY <2>1 DEF SentOnce
    <3>2. task[t].msgs[1] \in Messages \ {m}
      BY <1>b, <2>9, <3>1
    <3> QED
      BY <2>1, <2>3, <3>1, <3>2
  <2>11. \A t, u \in Tasks :
          task'[t].pc = "push" /\ task'[u].pc = "push" /\ task'[t].msgs[1] = task'[u].msgs[1] => t = u
    <3>1. \A t \in Tasks : task'[t].pc = "push" => task'[t] = task[t]
      BY <2>1
    <3> QED
      BY <3>1, Zenon DEF SentOnce
  <2>12. \A j \in Ids : \A i \in 1 .. Len(queue'[j]) : accepted'[queue'[j][i]] = j
    <3>1. ASSUME NEW j \in Ids, j # id, NEW i \in 1 .. Len(queue'[j])
          PROVE  accepted'[queue'[j][i]] = j
      <4>1. queue'[j] = queue[j] /\ queue[j][i] \in Messages \ {m}
        BY <3>1, <2>3, <2>4, <1>b
      <4> QED
        BY <3>1, <4>1, <2>3 DEF SentOnce
    <3>2. ASSUME NEW i \in 1 .. Len(p)
          PROVE  accepted'[p[i]] = id
      <4>1. CASE i \in 1 .. Len(queue[id])
        <5>1. p[i] = queue[id][i] /\ queue[id][i] \in Messages \ {m}
          BY <4>1, <2>4, <2>6, <1>b
        <5> QED
          BY <4>1, <5>1, <2>3 DEF SentOnce
      <4>2. CASE i = Len(queue[id]) + 1
        BY <4>2, <2>3, <2>6
      <4> QED
        BY <4>1, <4>2, <2>6
    <3> QED
      BY <3>1, <3>2, <2>3
  <2>13. \A j \in Ids : IsInjective(queue'[j])
    BY <2>3, <2>7 DEF SentOnce
  <2> QED
    BY <2>10, <2>11, <2>12, <2>13 DEF Goal, SentOnce
<1> QED
  BY <1>a, <1>1, <1>2, <1>3, <1>4, <1>5 DEF QueueEffect

-----------------------------------------------------------------------------
(* What was queued is passed on before it is cleared.                      *)

\* Nothing was queued and nobody clears.
LEMMA InitLost == Init => ClearsWhatWasRead /\ NothingLost
<1> SUFFICES ASSUME Init PROVE ClearsWhatWasRead /\ NothingLost
  OBVIOUS
<1>1. \A t \in Tasks : task[t].pc = "idle"
  BY DEF Init, Idle
<1>2. \A m \in Messages : accepted[m] = None
  BY DEF Init
<1> QED
  BY <1>1, <1>2 DEF ClearsWhatWasRead, NothingLost

\* A push into a queue that someone is about to clear races; any other push is
\* seen by the next reader, and a clearing takes only what its reader passed on.
LEMMA NextLost ==
    ASSUME QueueShape, ClearsWhatWasRead, NothingLost, [Next]_vars
    PROVE  ClearsWhatWasRead' /\ NothingLost'
<1> DEFINE Goal == ClearsWhatWasRead' /\ NothingLost'
<1> SUFFICES Goal
  OBVIOUS
<1> HIDE DEF Goal
<1>a. QueueShape' /\ QueueEffect
  BY QueueSteps
<1>quiet. ASSUME UNCHANGED <<queue, accepted>>,
                 passed \subseteq passed', raced \subseteq raced',
                 \A t \in Tasks :
                    task'[t].pc = "clear" =>
                       \/ task'[t] = task[t]
                       \/ task'[t].id \in raced'
                       \/ ToSet(queue[task'[t].id]) \subseteq passed'
          PROVE  Goal
  <2>1. ClearsWhatWasRead'
    <3> SUFFICES ASSUME NEW t \in Tasks, task'[t].pc = "clear", task'[t].id \notin raced'
                 PROVE  ToSet(queue[task'[t].id]) \subseteq passed'
      BY <1>quiet DEF ClearsWhatWasRead
    <3>1. CASE task'[t] = task[t]
      <4>1. task[t].pc = "clear" /\ task[t].id \notin raced
        BY <1>quiet, <3>1
      <4>2. ToSet(queue[task[t].id]) \subseteq passed
        BY <4>1 DEF ClearsWhatWasRead
      <4> QED
        BY <1>quiet, <3>1, <4>2
    <3> QED
      BY <1>quiet, <3>1
  <2>2. NothingLost'
    BY <1>quiet DEF NothingLost
  <2> QED
    BY <2>1, <2>2 DEF Goal
<1>1. CASE LeavesQueues
  BY <1>1, <1>quiet DEF LeavesQueues
<1>2. ASSUME NEW t \in Tasks, StartsToClear(t)
      PROVE  Goal
  BY <1>2, <1>quiet DEF StartsToClear, OthersStay
<1>3. ASSUME NEW s \in Tasks, NEW m \in Messages, Takes(s, m)
      PROVE  Goal
  <2>1. /\ UNCHANGED <<queue, raced>> /\ passed \ {m} \subseteq passed'
        /\ \A t \in Tasks : task'[t].pc = "clear" => task'[t] = task[t]
        /\ \A id \in Ids : m \notin ToSet(queue[id])
    BY <1>3 DEF Takes, Unused, OthersStay
  <2>2. accepted'[m] = None /\ \A k \in Messages \ {m} : accepted'[k] = accepted[k]
    BY <1>3 DEF Takes, QueueShape
  <2>3. ClearsWhatWasRead'
    <3> SUFFICES ASSUME NEW t \in Tasks, task'[t].pc = "clear", task'[t].id \notin raced'
                 PROVE  ToSet(queue'[task'[t].id]) \subseteq passed'
      BY DEF ClearsWhatWasRead
    <3>1. task'[t] = task[t] /\ task[t].pc = "clear" /\ task[t].id \notin raced
      BY <2>1
    <3>2. task[t].id \in Ids
      BY <3>1 DEF QueueShape, TaskStates
    <3> QED
      BY <2>1, <3>1, <3>2 DEF ClearsWhatWasRead
  <2>4. NothingLost'
    <3> SUFFICES ASSUME NEW k \in Messages, accepted'[k] # None, accepted'[k] \notin raced'
                 PROVE  k \in ToSet(queue'[accepted'[k]]) \cup passed'
      BY DEF NothingLost
    <3>1. k # m /\ accepted'[k] = accepted[k] /\ accepted[k] \notin raced
      BY <2>1, <2>2
    <3> QED
      BY <2>1, <3>1 DEF NothingLost
  <2> QED
    BY <2>3, <2>4 DEF Goal
<1>4. ASSUME NEW s \in Tasks, NEW id \in Ids, NEW m \in Messages, Pushes(s, id, m)
      PROVE  Goal
  <2> PICK p : p = queue[id] \o <<m>>
    OBVIOUS
  <2>1. /\ \A t \in Tasks : task'[t].pc = "clear" => task'[t] = task[t]
        /\ queue' = [queue EXCEPT ![id] = p]
        /\ accepted' = [accepted EXCEPT ![m] = id]
        /\ raced \subseteq raced'
        /\ Clearing(id) # {} => id \in raced'
        /\ UNCHANGED passed
    BY <1>4 DEF Pushes, OthersStay, QueueShape
  <2>2. /\ queue'[id] = p /\ \A j \in Ids \ {id} : queue'[j] = queue[j]
        /\ accepted'[m] = id /\ \A k \in Messages \ {m} : accepted'[k] = accepted[k]
    BY <2>1 DEF QueueShape
  <2>3. ToSet(p) = ToSet(queue[id]) \cup {m}
    BY PushedQueue DEF QueueShape
  <2>4. \A j \in Ids : ToSet(queue[j]) \subseteq ToSet(queue'[j])
    BY <2>2, <2>3
  <2>5. ClearsWhatWasRead'
    <3> SUFFICES ASSUME NEW t \in Tasks, task'[t].pc = "clear", task'[t].id \notin raced'
                 PROVE  ToSet(queue'[task'[t].id]) \subseteq passed'
      BY DEF ClearsWhatWasRead
    <3>1. task'[t] = task[t] /\ task[t].pc = "clear" /\ task[t].id \notin raced
      BY <2>1
    <3>2. task[t].id \in Ids
      BY <3>1 DEF QueueShape, TaskStates
    <3>3. task[t].id # id
      BY <2>1, <3>1 DEF Clearing
    <3> QED
      BY <2>1, <2>2, <3>1, <3>2, <3>3 DEF ClearsWhatWasRead
  <2>6. NothingLost'
    <3> SUFFICES ASSUME NEW k \in Messages, accepted'[k] # None, accepted'[k] \notin raced'
                 PROVE  k \in ToSet(queue'[accepted'[k]]) \cup passed'
      BY DEF NothingLost
    <3>1. CASE k = m
      BY <3>1, <2>2, <2>3
    <3>2. CASE k # m
      <4>1. accepted'[k] = accepted[k] /\ accepted[k] \in Ids /\ accepted[k] \notin raced
        BY <3>2, <2>1, <2>2 DEF QueueShape
      <4> QED
        BY <4>1, <2>1, <2>4 DEF NothingLost
    <3> QED
      BY <3>1, <3>2
  <2> QED
    BY <2>5, <2>6 DEF Goal
<1>5. ASSUME NEW c \in Tasks, NEW id \in Ids, Clears(c, id)
      PROVE  Goal
  <2>1. /\ \A t \in Tasks : task'[t].pc = "clear" => task'[t] = task[t]
        /\ queue'[id] = <<>> /\ \A j \in Ids \ {id} : queue'[j] = queue[j]
        /\ UNCHANGED <<accepted, raced, passed>>
        /\ task[c].pc = "clear" /\ task[c].id = id
    BY <1>5 DEF Clears, OthersStay, QueueShape, historyVars
  <2>2. ToSet(queue'[id]) = {}
    BY <2>1, EmptyQueue
  <2>3. id \notin raced => ToSet(queue[id]) \subseteq passed
    BY <2>1 DEF ClearsWhatWasRead
  <2>4. ClearsWhatWasRead'
    <3> SUFFICES ASSUME NEW t \in Tasks, task'[t].pc = "clear", task'[t].id \notin raced'
                 PROVE  ToSet(queue'[task'[t].id]) \subseteq passed'
      BY DEF ClearsWhatWasRead
    <3>1. task'[t] = task[t] /\ task[t].pc = "clear" /\ task[t].id \notin raced
      BY <2>1
    <3>2. task[t].id \in Ids
      BY <3>1 DEF QueueShape, TaskStates
    <3> QED
      BY <2>1, <2>2, <3>1, <3>2 DEF ClearsWhatWasRead
  <2>5. NothingLost'
    <3> SUFFICES ASSUME NEW k \in Messages, accepted[k] # None, accepted[k] \notin raced
                 PROVE  k \in ToSet(queue'[accepted[k]]) \cup passed
      BY <2>1 DEF NothingLost
    <3>1. accepted[k] \in Ids
      BY DEF QueueShape
    <3> QED
      BY <2>1, <2>3, <3>1 DEF NothingLost
  <2> QED
    BY <2>4, <2>5 DEF Goal
<1> QED
  BY <1>a, <1>1, <1>2, <1>3, <1>4, <1>5 DEF QueueEffect

-----------------------------------------------------------------------------
(* The theorems.                                                           *)

\* The Redis keys and the tasks keep their types and no message is twice in a
\* queue, however senders, receivers, the expirer and the evictor interleave.
THEOREM QueueTypeCorrect == Spec => []QueueTypeOK
<1>1. QueueShape /\ SentOnce => QueueTypeOK
  <2> SUFFICES ASSUME QueueShape, SentOnce
               PROVE  QueueTypeOK
    OBVIOUS
  <2>1. \A id \in Ids : ToSet(queue[id]) \subseteq Messages /\ IsInjective(queue[id])
    BY QueueElements DEF QueueShape, SentOnce
  <2>2. \A t \in Tasks :
          /\ task[t].pc \in {"idle", "push", "stamp", "read", "clear", "open", "expire"}
          /\ task[t].pc \notin {"idle", "expire"} => task[t].id \in Ids
    <3>1. \A t \in Tasks : task[t] \in TaskStates
      BY DEF QueueShape
    <3> QED
      BY <3>1 DEF TaskStates, TaskRecords, Places
  <2> QED
    BY <2>1, <2>2 DEF QueueShape, QueueTypeOK
<1>2. QueueShape /\ SentOnce /\ [Next]_vars => SentOnce'
  BY NextSentOnce
<1> QED
  BY AlwaysQueueShape, InitSentOnce, <1>1, <1>2, PTL DEF Spec

\* A queued message is still there, was delivered or was reported expired,
\* unless its queue was cleared other than as it was read.
THEOREM NothingIsLost == Spec => []NothingLost
<1>1. QueueShape /\ ClearsWhatWasRead /\ NothingLost /\ [Next]_vars => ClearsWhatWasRead' /\ NothingLost'
  BY NextLost
<1> QED
  BY AlwaysQueueShape, InitLost, <1>1, PTL DEF Spec
=============================================================================
