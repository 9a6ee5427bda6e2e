----------------------------- MODULE RoomsProofs -----------------------------
(***************************************************************************)
(* Theorems about the rooms of Rooms, for any number of sockets, peers and *)
(* rooms and any limits, with and without a session TTL.                   *)
(***************************************************************************)
EXTENDS Rooms, TLAPS

-----------------------------------------------------------------------------
(* The inductive invariants.                                               *)

JoinPcs == {"joinTotal", "joinSize", "joinEnter", "joinIndex"}
Leaving == {"leaveNext"} \cup LeavePcs

TaskRecords ==
    [pc : RoomPcs, id : Ids \cup {None}, room : RoomKeys \cup {None}, todo : SUBSET RoomKeys,
     back : {"open", "rmRegistry", "expire", None}, list : SUBSET (RoomKeys \cup Ids)]

\* What a task knows at each place of its code.
TaskStates ==
    {x \in TaskRecords :
        /\ x.pc \notin {"off", "sleep", "expire"} => x.id \in Ids
        /\ x.pc = "off" => x.id = None
        /\ x.pc \in JoinPcs \cup LeavePcs => x.room \in RoomKeys
        /\ x.pc \in Leaving => x.back \in {"open", "rmRegistry", "expire"}
        /\ x.pc = "restore" => x.list \subseteq RoomKeys}

RoomMaps ==
    /\ rooms \in [RoomKeys -> (SUBSET Ids) \cup {None}]
    /\ clientRooms \in [Ids -> SUBSET RoomKeys]
    /\ pending \in [Ids -> [rooms : SUBSET RoomKeys, expired : BOOLEAN] \cup {None}]
    /\ registry \subseteq Ids /\ shared \subseteq Ids
    /\ wsSenders \in [Ids -> Conns \cup {None}]
    /\ presence \in [RoomKeys -> [Ids -> {"member", "stray", None}]]

RoomsShape == RoomMaps /\ task \in [Tasks -> TaskStates]

\* Without a session TTL nothing is pending and nothing is restored.
NoTtl ==
    ~SessionTtlOn =>
        /\ \A id \in Ids : pending[id] = None
        /\ task[CheckBroken].pc = "sleep"
        /\ \A c \in Conns :
              /\ task[c].pc \notin {"restore", "pend", "sleep", "expire"}
              /\ task[c].pc \in Leaving => task[c].back # "expire"

HasNoRoom(id) == clientRooms[id] = {} /\ \A r \in RoomKeys : id \notin Members(r)

\* What the only task of an id has stored, and where the id's rooms are listed.
KeepsRooms(id, c) ==
    /\ task[c].pc \in {"register", "unpend", "attach", "rmRegistry"} => HasNoRoom(id)
    /\ \/ task[c].pc \in {"open"} \cup JoinPcs
       \/ task[c].pc \in Leaving /\ task[c].back = "open"
       => wsSenders[id] = c
    /\ task[c].pc \in Leaving /\ task[c].back = "rmRegistry" => clientRooms[id] = {}
    /\ task[c].pc \in LeavePcs => id \notin Members(task[c].room)
    /\ \A r \in RoomKeys : id \in Members(r) =>
          \/ r \in clientRooms[id]
          \/ task[c].pc = "joinIndex" /\ task[c].room = r
          \/ task[c].pc \in Leaving /\ r \in task[c].todo

OneTask(id) ==
    /\ (\A c \in Conns : task[c].id # id) => HasNoRoom(id)
    /\ \A c \in Conns : task[c].id = id =>
          /\ \A d \in Conns : task[d].id = id => d = c
          /\ KeepsRooms(id, c)

SessionInv == ~SessionTtlOn => \A id \in Ids \ shared : OneTask(id)

-----------------------------------------------------------------------------
(* The shape of the state.                                                 *)

\* The server starts without sessions and without rooms.
LEMMA InitRoomsShape == Init => RoomsShape /\ NoTtl /\ SessionInv
<1> SUFFICES ASSUME Init PROVE RoomsShape /\ NoTtl /\ SessionInv
  OBVIOUS
<1>1. RoomMaps
  BY DEF Init, RoomMaps, NoPresence
<1>2. \A place \in {"sleep", "off"} : Idle(place) \in TaskStates
  BY DEF Idle, TaskStates, TaskRecords, RoomPcs, JoinPcs, LeavePcs, Leaving
<1>3. task \in [Tasks -> TaskStates]
  BY <1>2 DEF Init
<1>4. \A c \in Conns : task[c].pc = "off" /\ task[c].id = None
  BY RoomsDistinct DEF Init, Idle, Tasks
<1>5. NoTtl
  BY <1>4 DEF Init, NoTtl, Tasks, Idle, Leaving, LeavePcs
<1>6. \A id \in Ids : HasNoRoom(id)
  BY DEF Init, HasNoRoom, Members
<1>7. SessionInv
  BY <1>4, <1>6, RoomsDistinct DEF SessionInv, OneTask
<1> QED
  BY <1>1, <1>3, <1>5, <1>7 DEF RoomsShape

\* The members of a room are peers.
LEMMA MembersArePeers ==
    ASSUME RoomMaps, NEW r \in RoomKeys
    PROVE  Members(r) \subseteq Ids /\ (rooms[r] # None => rooms[r] = Members(r))
BY DEF RoomMaps, Members

\* The members after a room's entry is written or removed.
LEMMA MembersWritten ==
    ASSUME RoomMaps, NEW r \in RoomKeys, NEW S,
           S \in SUBSET Ids \/ S = None, rooms' = [rooms EXCEPT ![r] = S]
    PROVE  /\ Members(r)' = IF S = None THEN {} ELSE S
           /\ S \in SUBSET Ids => Members(r)' = S
           /\ \A s \in RoomKeys \ {r} : Members(s)' = Members(s)
<1>1. rooms'[r] = S /\ \A s \in RoomKeys \ {r} : rooms'[s] = rooms[s]
  BY DEF RoomMaps
<1>2. S \in SUBSET Ids => S # None
  BY RoomsDistinct
<1> QED
  BY <1>1, <1>2 DEF Members

\* What a task knows, taken apart.
LEMMA TaskKnows ==
    ASSUME RoomsShape, NEW t \in Tasks
    PROVE  /\ task[t] \in TaskStates /\ task[t] \in TaskRecords
           /\ task[t].pc \in RoomPcs
           /\ task[t].pc \notin {"off", "sleep", "expire"} => task[t].id \in Ids
           /\ task[t].pc = "off" => task[t].id = None
           /\ task[t].pc \in JoinPcs \cup LeavePcs => task[t].room \in RoomKeys
           /\ task[t].pc \in Leaving => task[t].back \in {"open", "rmRegistry", "expire"}
           /\ task[t].pc = "restore" => task[t].list \subseteq RoomKeys
           /\ task[t].todo \subseteq RoomKeys
<1>1. task[t] \in TaskStates
  BY DEF RoomsShape
<1> QED
  BY <1>1 DEF TaskStates, TaskRecords

\* The maps keep their types.
LEMMA NextRoomMaps ==
    ASSUME RoomsShape, [Next]_vars
    PROVE  RoomMaps'
<1> USE DEF RoomMaps
<1>0. RoomMaps
  BY DEF RoomsShape
<1>a. /\ Conns \subseteq Tasks /\ CheckBroken \in Tasks
      /\ \A r \in RoomKeys : Members(r) \subseteq Ids
  BY <1>0, MembersArePeers DEF Tasks
<1>t. ASSUME NEW t \in Tasks, task[t].pc \notin {"off", "sleep", "expire"}
      PROVE  task[t].id \in Ids
  BY <1>t, TaskKnows
<1>r. ASSUME NEW t \in Tasks, task[t].pc \in JoinPcs \cup LeavePcs
      PROVE  task[t].room \in RoomKeys
  BY <1>r, TaskKnows
<1>none. NoPresence \in [Ids -> {"member", "stray", None}]
  BY DEF NoPresence
<1>1. ASSUME NEW c \in Conns, PeerSteps(c)
      PROVE  RoomMaps'
  <2>1. CASE \E id \in Ids : Connect(c, id)
    BY <2>1, <1>0 DEF Connect, roomVars, sessionVars
  <2>2. ASSUME NEW r \in RoomKeys, PresenceUpdate(c, r)
        PROVE  RoomMaps'
    <3> PICK id : id = task[c].id
      OBVIOUS
    <3>1. id \in Ids
      BY <2>2, <1>a, <1>t DEF PresenceUpdate
    <3> PICK v \in {"member", "stray"} : v = IF id \in Members(r) THEN "member" ELSE "stray"
      OBVIOUS
    <3>2. presence' = [presence EXCEPT ![r][id] = v] /\ UNCHANGED <<roomVars, sessionVars, shared>>
      BY <2>2 DEF PresenceUpdate
    <3> QED
      BY <3>1, <3>2, <1>0 DEF roomVars, sessionVars
  <2>3. CASE \E r \in RoomKeys : JoinCheckClient(c, r) \/ RoomLeave(c, r)
    BY <2>3, <1>0 DEF JoinCheckClient, RoomLeave, roomVars, sessionVars
  <2>4. CASE Close(c)
    BY <2>4, <1>0 DEF Close, roomVars
  <2> QED
    BY <1>1, <2>1, <2>2, <2>3, <2>4 DEF PeerSteps
<1>2. ASSUME NEW t \in Tasks, LeaveSteps(t)
      PROVE  RoomMaps'
  <2>1. ASSUME NEW r \in RoomKeys, LeaveMembers(t, r)
        PROVE  RoomMaps'
    <3>1. rooms[r] # None => rooms[r] \ {task[t].id} \subseteq Ids
      BY <1>0
    <3> QED
      BY <2>1, <3>1, <1>0 DEF LeaveMembers, sessionVars
  <2>2. CASE LeavePresence(t)
    <3>1. task[t].id \in Ids /\ task[t].room \in RoomKeys
      BY <2>2, <1>t, <1>r DEF LeavePresence, LeavePcs
    <3> PICK id \in Ids, r \in RoomKeys : id = task[t].id /\ r = task[t].room
      BY <3>1
    <3>2. presence' = [presence EXCEPT ![r][id] = None] /\ UNCHANGED <<roomVars, sessionVars, shared>>
      BY <2>2 DEF LeavePresence
    <3> QED
      BY <3>2, <1>0 DEF roomVars, sessionVars
  <2>3. CASE DropRoom(t)
    BY <2>3, <1>0 DEF DropRoom, sessionVars
  <2>4. CASE DropPresence(t)
    BY <2>4, <1>0, <1>none DEF DropPresence, roomVars, sessionVars
  <2>5. CASE LeaveIndex(t)
    BY <2>5, <1>0 DEF LeaveIndex, sessionVars
  <2>6. CASE LeaveDone(t)
    BY <2>6, <1>0 DEF LeaveDone, roomVars, sessionVars
  <2> QED
    BY <1>2, <2>1, <2>2, <2>3, <2>4, <2>5, <2>6 DEF LeaveSteps
<1>3. ASSUME NEW c \in Conns, SocketSteps(c)
      PROVE  RoomMaps'
  <2>1. CASE Register(c)
    BY <2>1, <1>0, <1>a, <1>t DEF Register, roomVars
  <2>2. CASE CancelRemoval(c)
    BY <2>2, <1>0 DEF CancelRemoval, sessionVars
  <2>3. ASSUME NEW r \in RoomKeys, RestoreRoom(c, r)
        PROVE  RoomMaps'
    BY <2>3, <1>0, <1>a, <1>t DEF RestoreRoom, sessionVars
  <2>4. CASE RestoreIndex(c)
    <3>1. task[c].list \in SUBSET RoomKeys
      BY <2>4, <1>a, TaskKnows DEF RestoreIndex
    <3> QED
      BY <2>4, <3>1, <1>0 DEF RestoreIndex, sessionVars
  <2>5. CASE Attach(c)
    BY <2>5, <1>0 DEF Attach, roomVars
  <2>6. CASE TakeIndex(c)
    <3>1. /\ clientRooms' = [clientRooms EXCEPT ![task[c].id] = {}]
          /\ UNCHANGED <<rooms, pending, wsSenders, registry, presence, shared>>
      BY <2>6, Zenon DEF TakeIndex, sessionVars
    <3> QED
      BY <3>1, <1>0
  <2>7. CASE ScheduleRemoval(c)
    <3>1. task[c].todo \in SUBSET RoomKeys
      BY <1>a, TaskKnows
    <3>2. [rooms |-> task[c].todo, expired |-> FALSE] \in [rooms : SUBSET RoomKeys, expired : BOOLEAN]
      BY <3>1
    <3> QED
      BY <2>7, <3>2, <1>0 DEF ScheduleRemoval, sessionVars
  <2>8. CASE RemoveRegistry(c)
    BY <2>8, <1>0 DEF RemoveRegistry, roomVars
  <2>9. CASE JoinCheckTotal(c) \/ JoinCheckSize(c)
    BY <2>9, <1>0 DEF JoinCheckTotal, JoinCheckSize, roomVars, sessionVars
  <2>10. CASE JoinEnter(c)
    <3>1. task[c].id \in Ids /\ task[c].room \in RoomKeys
      BY <2>10, <1>a, <1>t, <1>r DEF JoinEnter, JoinPcs
    <3> QED
      BY <2>10, <3>1, <1>0, <1>a DEF JoinEnter, sessionVars
  <2>11. CASE JoinIndex(c)
    <3>1. task[c].id \in Ids /\ task[c].room \in RoomKeys
      BY <2>11, <1>a, <1>t, <1>r DEF JoinIndex, JoinPcs
    <3> QED
      BY <2>11, <3>1, <1>0 DEF JoinIndex, sessionVars
  <2> QED
    BY <1>3, <1>2, <1>a, <2>1, <2>2, <2>3, <2>4, <2>5, <2>6, <2>7, <2>8, <2>9, <2>10, <2>11 DEF SocketSteps
<1>4. ASSUME CleanupSteps
      PROVE  RoomMaps'
  <2>1. CASE CollectExpired
    BY <2>1, <1>0 DEF CollectExpired, roomVars, sessionVars
  <2>2. ASSUME NEW id \in Ids, ExpireSession(id)
        PROVE  RoomMaps'
    BY <2>2, <1>0 DEF ExpireSession, sessionVars
  <2>3. CASE ExpiryDone
    BY <2>3, <1>0 DEF ExpiryDone, roomVars, sessionVars
  <2> QED
    BY <1>4, <1>2, <1>a, <2>1, <2>2, <2>3 DEF CleanupSteps
<1>5. ASSUME NEW id \in Ids, Evict(id)
      PROVE  RoomMaps'
  BY <1>5, <1>0 DEF Evict, roomVars
<1>6. ASSUME NEW id \in Ids, TtlExpires(id)
      PROVE  RoomMaps'
  <2> PICK p \in [rooms : SUBSET RoomKeys, expired : BOOLEAN] : p = pending[id]
    BY <1>6, <1>0 DEF TtlExpires
  <2> DEFINE q == [p EXCEPT !.expired = TRUE]
  <2>1. q \in [rooms : SUBSET RoomKeys, expired : BOOLEAN]
    OBVIOUS
  <2>2. pending' = [pending EXCEPT ![id] = q]
    BY <1>6, <1>0 DEF TtlExpires
  <2> HIDE DEF q
  <2> QED
    BY <1>6, <2>1, <2>2, <1>0 DEF TtlExpires, sessionVars
<1>7. CASE UNCHANGED vars
  BY <1>7, <1>0 DEF vars
<1> QED
  BY <1>1, <1>3, <1>4, <1>5, <1>6, <1>7 DEF Next

-----------------------------------------------------------------------------
(* How a step moves the tasks.                                             *)

\* One task moves; where to, and with what.
OthersStay(t) == \A u \in Tasks \ {t} : task'[u] = task[u]

To(t, pc, id, room, todo, back) ==
    /\ OthersStay(t)
    /\ task'[t].pc = pc /\ task'[t].id = id /\ task'[t].room = room
    /\ task'[t].todo = todo /\ task'[t].back = back

GoesTo(t, pc) == To(t, pc, task[t].id, task[t].room, task[t].todo, task[t].back)

\* A refused join and the end of a join go back to the read loop.
Reopens(t) == To(t, "open", task[t].id, None, task[t].todo, task[t].back)

LeaveMoves(t) ==
    \/ \E r \in RoomKeys :
          /\ LeaveMembers(t, r)
          /\ \/ rooms[r] = None /\ To(t, "leaveNext", task[t].id, task[t].room, task[t].todo \ {r}, task[t].back)
             \/ /\ rooms[r] # None
                /\ To(t, IF rooms'[r] = {} THEN "rmPresenceEmpty" ELSE "rmPresence",
                      task[t].id, r, task[t].todo \ {r}, task[t].back)
    \/ LeavePresence(t) /\ GoesTo(t, IF task[t].pc = "rmPresence" THEN "leaveIndex" ELSE "dropRoom")
    \/ DropRoom(t) /\ GoesTo(t, "dropPresence")
    \/ DropPresence(t) /\ GoesTo(t, "leaveIndex")
    \/ LeaveIndex(t) /\ To(t, "leaveNext", task[t].id, None, task[t].todo, task[t].back)
    \/ LeaveDone(t) /\ To(t, task[t].back, task[t].id, task[t].room, task[t].todo, None)

SessionMoves(c) ==
    \/ \E id \in Ids, pc \in {"unpend", "register"} :
          Connect(c, id) /\ To(c, pc, id, task[c].room, task[c].todo, task[c].back)
    \/ Register(c) /\ GoesTo(c, "attach")
    \/ CancelRemoval(c) /\ (GoesTo(c, "attach") \/ (pending[task[c].id] # None /\ OthersStay(c)))
    \/ \E r \in RoomKeys : RestoreRoom(c, r) /\ OthersStay(c)
    \/ RestoreIndex(c) /\ OthersStay(c)
    \/ Attach(c) /\ GoesTo(c, "open")
    \/ Close(c) /\ \/ wsSenders[task[c].id] = c /\ GoesTo(c, "rmRooms")
                   \/ wsSenders[task[c].id] # c /\ To(c, "off", None, None, {}, None)
    \/ /\ TakeIndex(c)
       /\ To(c, CASE clientRooms[task[c].id] = {} -> "rmRegistry"
                  [] SessionTtlOn -> "pend"
                  [] OTHER -> "leaveNext",
             task[c].id, task[c].room, clientRooms[task[c].id], "rmRegistry")
    \/ ScheduleRemoval(c) /\ OthersStay(c)
    \/ RemoveRegistry(c) /\ To(c, "off", None, None, {}, None)

JoinMoves(c) ==
    \/ \E r \in RoomKeys, pc \in {"joinTotal", "joinSize"} :
          JoinCheckClient(c, r) /\ To(c, pc, task[c].id, r, task[c].todo, task[c].back)
    \/ JoinCheckTotal(c) /\ (GoesTo(c, "joinSize") \/ Reopens(c))
    \/ JoinCheckSize(c) /\ (GoesTo(c, "joinEnter") \/ Reopens(c))
    \/ JoinEnter(c) /\ GoesTo(c, "joinIndex")
    \/ JoinIndex(c) /\ Reopens(c)
    \/ \E r \in RoomKeys : RoomLeave(c, r) /\ To(c, "leaveNext", task[c].id, task[c].room, {r}, "open")
    \/ \E r \in RoomKeys : PresenceUpdate(c, r) /\ UNCHANGED task

RoomMoves ==
    \/ \E t \in Tasks : LeaveMoves(t)
    \/ \E c \in Conns : SessionMoves(c) \/ JoinMoves(c)
    \/ CollectExpired /\ OthersStay(CheckBroken)
    \/ \E id \in Ids : ExpireSession(id) /\ OthersStay(CheckBroken)
    \/ ExpiryDone /\ OthersStay(CheckBroken)
    \/ \E id \in Ids : (Evict(id) \/ TtlExpires(id)) /\ UNCHANGED task
    \/ UNCHANGED vars

\* A task that moves to a place, with what that place means, keeps the shape.
LEMMA TaskMoves ==
    ASSUME RoomsShape, NEW t \in Tasks, NEW y \in TaskStates, task' = [task EXCEPT ![t] = y]
    PROVE  /\ task' \in [Tasks -> TaskStates]
           /\ OthersStay(t)
           /\ To(t, y.pc, y.id, y.room, y.todo, y.back)
<1>1. task' \in [Tasks -> TaskStates] /\ OthersStay(t) /\ task'[t] = y
  BY DEF RoomsShape, OthersStay
<1> QED
  BY <1>1 DEF To

\* The same for a move that changes the place only.
LEMMA PlaceMoves ==
    ASSUME RoomsShape, NEW t \in Tasks, NEW pc \in RoomPcs, task' = [task EXCEPT ![t].pc = pc],
           task[t].id \in Ids, pc # "off", pc # "restore",
           pc \in JoinPcs \cup LeavePcs => task[t].room \in RoomKeys,
           pc \in Leaving => task[t].back \in {"open", "rmRegistry", "expire"}
    PROVE  task' \in [Tasks -> TaskStates] /\ GoesTo(t, pc)
<1> PICK x \in TaskStates : x = task[t]
  BY TaskKnows
<1> DEFINE y == [x EXCEPT !.pc = pc]
<1>1. /\ y \in TaskRecords /\ y.pc = pc /\ y.id = x.id /\ y.room = x.room
      /\ y.todo = x.todo /\ y.back = x.back /\ y.list = x.list
  BY DEF TaskStates, TaskRecords
<1>2. y \in TaskStates
  BY <1>1 DEF TaskStates
<1>3. task' = [task EXCEPT ![t] = y]
  BY DEF RoomsShape
<1> HIDE DEF y
<1>4. task' \in [Tasks -> TaskStates] /\ To(t, y.pc, y.id, y.room, y.todo, y.back)
  BY <1>2, <1>3, TaskMoves
<1> QED
  BY <1>1, <1>4 DEF GoesTo

\* The same for the moves that change several things at once.
LEMMA IdMoves ==
    ASSUME RoomsShape, NEW t \in Tasks, NEW pc \in {"unpend", "register"}, NEW id \in Ids,
           task' = [task EXCEPT ![t].pc = pc, ![t].id = id]
    PROVE  /\ task' \in [Tasks -> TaskStates]
           /\ To(t, pc, id, task[t].room, task[t].todo, task[t].back)
<1> PICK x \in TaskStates : x = task[t]
  BY TaskKnows
<1> DEFINE y == [x EXCEPT !.pc = pc, !.id = id]
<1>0. pc \in RoomPcs
  BY DEF RoomPcs
<1>1. /\ y \in TaskRecords /\ y.pc = pc /\ y.id = id /\ y.room = x.room
      /\ y.todo = x.todo /\ y.back = x.back
  BY <1>0 DEF TaskStates, TaskRecords
<1>2. task' = [task EXCEPT ![t] = y]
  BY DEF RoomsShape
<1> HIDE DEF y
<1>3. y \in TaskStates
  BY <1>1 DEF TaskStates, JoinPcs, LeavePcs, Leaving
<1>4. task' \in [Tasks -> TaskStates] /\ To(t, y.pc, y.id, y.room, y.todo, y.back)
  BY <1>2, <1>3, TaskMoves
<1> QED
  BY <1>1, <1>4

\* A join that goes on knows its room.
LEMMA RoomMovesTo ==
    ASSUME RoomsShape, NEW t \in Tasks, NEW pc \in {"joinTotal", "joinSize"}, NEW r \in RoomKeys,
           task[t].id \in Ids, task' = [task EXCEPT ![t].pc = pc, ![t].room = r]
    PROVE  /\ task' \in [Tasks -> TaskStates]
           /\ To(t, pc, task[t].id, r, task[t].todo, task[t].back)
<1> PICK x \in TaskStates : x = task[t]
  BY TaskKnows
<1> DEFINE y == [x EXCEPT !.pc = pc, !.room = r]
<1>0. pc \in RoomPcs
  BY DEF RoomPcs
<1>1. /\ y \in TaskRecords /\ y.pc = pc /\ y.id = x.id /\ y.room = r
      /\ y.todo = x.todo /\ y.back = x.back
  BY <1>0 DEF TaskStates, TaskRecords
<1>2. task' = [task EXCEPT ![t] = y]
  BY DEF RoomsShape
<1> HIDE DEF y
<1>3. y \in TaskStates
  BY <1>1 DEF TaskStates, LeavePcs, Leaving
<1>4. task' \in [Tasks -> TaskStates] /\ To(t, y.pc, y.id, y.room, y.todo, y.back)
  BY <1>2, <1>3, TaskMoves
<1> QED
  BY <1>1, <1>4

\* A removal starts with the rooms to leave and the place to go back to.
LEMMA RemovalMoves ==
    ASSUME RoomsShape, NEW t \in Tasks, NEW pc \in {"rmRegistry", "pend", "leaveNext"},
           NEW S \in SUBSET RoomKeys, NEW b \in {"open", "rmRegistry", "expire"}, task[t].id \in Ids,
           task' = [task EXCEPT ![t].pc = pc, ![t].todo = S, ![t].back = b]
    PROVE  /\ task' \in [Tasks -> TaskStates]
           /\ To(t, pc, task[t].id, task[t].room, S, b)
<1> PICK x \in TaskStates : x = task[t]
  BY TaskKnows
<1> DEFINE z == [x EXCEPT !.pc = pc, !.todo = S]
<1> DEFINE y == [z EXCEPT !.back = b]
<1>0. pc \in RoomPcs
  BY DEF RoomPcs
<1>1. z \in TaskRecords /\ z.pc = pc /\ z.id = x.id /\ z.room = x.room /\ z.todo = S
  BY <1>0 DEF TaskStates, TaskRecords
<1>2. task' = [task EXCEPT ![t] = y]
  BY DEF RoomsShape
<1> HIDE DEF z
<1>3. /\ y \in TaskRecords /\ y.pc = pc /\ y.id = x.id /\ y.room = x.room
      /\ y.todo = S /\ y.back = b
  BY <1>1 DEF TaskRecords
<1> HIDE DEF y
<1>4. y \in TaskStates
  BY <1>3 DEF TaskStates, JoinPcs, LeavePcs
<1>5. task' \in [Tasks -> TaskStates] /\ To(t, y.pc, y.id, y.room, y.todo, y.back)
  BY <1>2, <1>4, TaskMoves
<1> QED
  BY <1>3, <1>5

\* The places of the code differ.
LEMMA Places ==
    /\ JoinPcs \cup Leaving \subseteq RoomPcs
    /\ \A pc \in JoinPcs \cup Leaving : pc \notin {"off", "sleep", "expire", "restore"}
BY DEF JoinPcs, Leaving, LeavePcs, RoomPcs

\* The steps of remove_client_from_room.
LEMMA LeaveStepMoves ==
    ASSUME RoomsShape, NEW t \in Tasks, LeaveSteps(t)
    PROVE  task' \in [Tasks -> TaskStates] /\ LeaveMoves(t)
<1> DEFINE Goal == task' \in [Tasks -> TaskStates] /\ LeaveMoves(t)
<1> SUFFICES Goal
  OBVIOUS
<1> HIDE DEF Goal
<1> PICK x \in TaskStates : x = task[t]
  BY TaskKnows
<1>x. /\ x \in TaskRecords /\ x.todo \subseteq RoomKeys
      /\ task[t].pc \in Leaving => x.id \in Ids /\ x.back \in {"open", "rmRegistry", "expire"}
      /\ task[t].pc \in LeavePcs => x.room \in RoomKeys
  BY TaskKnows, Places
<1>1. ASSUME NEW r \in RoomKeys, LeaveMembers(t, r)
      PROVE  Goal
  <2> PICK S \in SUBSET RoomKeys : S = x.todo \ {r}
    BY <1>x
  <2>0. x.pc = "leaveNext" /\ x.id \in Ids /\ x.back \in {"open", "rmRegistry", "expire"}
    BY <1>1, <1>x DEF LeaveMembers, Leaving
  <2>1. CASE rooms[r] = None
    <3> DEFINE y == [x EXCEPT !.todo = S]
    <3>1. /\ y \in TaskRecords /\ y.pc = "leaveNext" /\ y.id = x.id /\ y.room = x.room
          /\ y.todo = S /\ y.back = x.back
      BY <1>x, <2>0 DEF TaskRecords
    <3>2. y \in TaskStates
      BY <2>0, <3>1 DEF TaskStates, JoinPcs, LeavePcs
    <3>3. task' = [task EXCEPT ![t] = y]
      BY <1>1, <2>1 DEF LeaveMembers, RoomsShape
    <3> HIDE DEF y
    <3>4. task' \in [Tasks -> TaskStates] /\ To(t, y.pc, y.id, y.room, y.todo, y.back)
      BY <3>2, <3>3, TaskMoves
    <3> QED
      BY <1>1, <2>1, <3>1, <3>4 DEF Goal, LeaveMoves
  <2>2. CASE rooms[r] # None
    <3> PICK pc \in {"rmPresenceEmpty", "rmPresence"} :
                pc = IF rooms'[r] = {} THEN "rmPresenceEmpty" ELSE "rmPresence"
      OBVIOUS
    <3> DEFINE y == [x EXCEPT !.todo = S, !.room = r, !.pc = pc]
    <3>0. pc \in RoomPcs
      BY DEF RoomPcs, LeavePcs
    <3>1. /\ y \in TaskRecords /\ y.pc = pc /\ y.id = x.id /\ y.room = r
          /\ y.todo = S /\ y.back = x.back
      <4> DEFINE z == [x EXCEPT !.todo = S, !.room = r]
      <4>1. /\ z \in TaskRecords /\ z.id = x.id /\ z.room = r
            /\ z.todo = S /\ z.back = x.back
        BY <1>x DEF TaskRecords
      <4>2. y = [z EXCEPT !.pc = pc]
        OBVIOUS
      <4> HIDE DEF z, y
      <4> QED
        BY <3>0, <4>1, <4>2 DEF TaskRecords
    <3>3. task' = [task EXCEPT ![t] = y]
      BY <1>1, <2>2 DEF LeaveMembers, RoomsShape
    <3> HIDE DEF y
    <3>2. y \in TaskStates
      BY <2>0, <3>1 DEF TaskStates
    <3>4. task' \in [Tasks -> TaskStates] /\ To(t, y.pc, y.id, y.room, y.todo, y.back)
      BY <3>2, <3>3, TaskMoves
    <3>5. To(t, IF rooms'[r] = {} THEN "rmPresenceEmpty" ELSE "rmPresence",
             task[t].id, r, task[t].todo \ {r}, task[t].back)
      BY <3>1, <3>4
    <3> QED
      BY <1>1, <2>2, <3>4, <3>5 DEF Goal, LeaveMoves
  <2> QED
    BY <2>1, <2>2
<1>2. CASE LeavePresence(t)
  <2> PICK pc \in {"leaveIndex", "dropRoom"} :
              pc = IF task[t].pc = "rmPresence" THEN "leaveIndex" ELSE "dropRoom"
    OBVIOUS
  <2>1. task' = [task EXCEPT ![t].pc = pc] /\ task[t].pc \in LeavePcs
    BY <1>2 DEF LeavePresence, Goto, LeavePcs
  <2>2. task' \in [Tasks -> TaskStates] /\ GoesTo(t, pc)
    BY <1>x, <2>1, PlaceMoves DEF RoomPcs, LeavePcs, Leaving
  <2> QED
    BY <1>2, <2>2 DEF Goal, LeaveMoves
<1>3. CASE DropRoom(t)
  <2>1. task' = [task EXCEPT ![t].pc = "dropPresence"] /\ task[t].pc \in LeavePcs
    BY <1>3 DEF DropRoom, Goto, LeavePcs
  <2>2. task' \in [Tasks -> TaskStates] /\ GoesTo(t, "dropPresence")
    BY <1>x, <2>1, PlaceMoves DEF RoomPcs, LeavePcs, Leaving
  <2> QED
    BY <1>3, <2>2 DEF Goal, LeaveMoves
<1>4. CASE DropPresence(t)
  <2>1. task' = [task EXCEPT ![t].pc = "leaveIndex"] /\ task[t].pc \in LeavePcs
    BY <1>4 DEF DropPresence, Goto, LeavePcs
  <2>2. task' \in [Tasks -> TaskStates] /\ GoesTo(t, "leaveIndex")
    BY <1>x, <2>1, PlaceMoves DEF RoomPcs, LeavePcs, Leaving
  <2> QED
    BY <1>4, <2>2 DEF Goal, LeaveMoves
<1>5. CASE LeaveIndex(t)
  <2>0. x.id \in Ids /\ x.back \in {"open", "rmRegistry", "expire"}
    BY <1>5, <1>x DEF LeaveIndex, Leaving, LeavePcs
  <2> DEFINE y == [x EXCEPT !.pc = "leaveNext", !.room = None]
  <2>1. /\ y \in TaskRecords /\ y.pc = "leaveNext" /\ y.id = x.id /\ y.room = None
        /\ y.todo = x.todo /\ y.back = x.back
    BY <1>x DEF TaskRecords, RoomPcs
  <2>2. y \in TaskStates
    BY <2>0, <2>1 DEF TaskStates, JoinPcs, LeavePcs
  <2>3. task' = [task EXCEPT ![t] = y]
    BY <1>5 DEF LeaveIndex, RoomsShape
  <2> HIDE DEF y
  <2>4. task' \in [Tasks -> TaskStates] /\ To(t, y.pc, y.id, y.room, y.todo, y.back)
    BY <2>2, <2>3, TaskMoves
  <2> QED
    BY <1>5, <2>1, <2>4 DEF Goal, LeaveMoves
<1>6. CASE LeaveDone(t)
  <2>0. x.id \in Ids /\ x.back \in {"open", "rmRegistry", "expire"}
    BY <1>6, <1>x DEF LeaveDone, Leaving
  <2> PICK pc \in {"open", "rmRegistry", "expire"} : pc = x.back
    BY <2>0
  <2> DEFINE y == [x EXCEPT !.pc = pc, !.back = None]
  <2>1. /\ y \in TaskRecords /\ y.pc = pc /\ y.id = x.id /\ y.room = x.room
        /\ y.todo = x.todo /\ y.back = None
    BY <1>x DEF TaskRecords, RoomPcs
  <2>2. y \in TaskStates
    BY <2>0, <2>1 DEF TaskStates, JoinPcs, LeavePcs, Leaving
  <2>3. task' = [task EXCEPT ![t] = y]
    BY <1>6 DEF LeaveDone, RoomsShape
  <2> HIDE DEF y
  <2>4. task' \in [Tasks -> TaskStates] /\ To(t, y.pc, y.id, y.room, y.todo, y.back)
    BY <2>2, <2>3, TaskMoves
  <2> QED
    BY <1>6, <2>1, <2>4 DEF Goal, LeaveMoves
<1> QED
  BY <1>1, <1>2, <1>3, <1>4, <1>5, <1>6 DEF LeaveSteps

\* The steps that begin and end a session.
LEMMA SessionStepMoves ==
    ASSUME RoomsShape, NEW c \in Conns,
           \/ \E id \in Ids : Connect(c, id)
           \/ Register(c) \/ CancelRemoval(c)
           \/ \E r \in RoomKeys : RestoreRoom(c, r)
           \/ RestoreIndex(c) \/ Attach(c) \/ Close(c) \/ TakeIndex(c)
           \/ ScheduleRemoval(c) \/ RemoveRegistry(c)
    PROVE  task' \in [Tasks -> TaskStates] /\ SessionMoves(c)
<1> DEFINE Goal == task' \in [Tasks -> TaskStates] /\ SessionMoves(c)
<1> SUFFICES Goal
  OBVIOUS
<1> HIDE DEF Goal
<1>c. c \in Tasks
  BY DEF Tasks
<1> PICK x \in TaskStates : x = task[c]
  BY <1>c, TaskKnows
<1>x. /\ x \in TaskRecords /\ x.todo \subseteq RoomKeys
      /\ task[c].pc \notin {"off", "sleep", "expire"} => x.id \in Ids
      /\ x.pc = task[c].pc
  BY <1>c, TaskKnows
<1>off. ASSUME task' = [task EXCEPT ![c] = Idle("off")]
        PROVE  task' \in [Tasks -> TaskStates] /\ To(c, "off", None, None, {}, None)
  <2> PICK y : y = Idle("off")
    OBVIOUS
  <2>1. /\ y \in TaskStates /\ y.pc = "off" /\ y.id = None /\ y.room = None
        /\ y.todo = {} /\ y.back = None
    BY DEF Idle, TaskStates, TaskRecords, RoomPcs, JoinPcs, LeavePcs, Leaving
  <2>2. task' = [task EXCEPT ![c] = y]
    BY <1>off
  <2>3. task' \in [Tasks -> TaskStates] /\ To(c, y.pc, y.id, y.room, y.todo, y.back)
    BY <1>c, <2>1, <2>2, TaskMoves
  <2> QED
    BY <2>1, <2>3
<1>1. ASSUME NEW id \in Ids, Connect(c, id)
      PROVE  Goal
  <2> PICK pc \in {"unpend", "register"} : pc = IF Known(id) THEN "unpend" ELSE "register"
    OBVIOUS
  <2>1. task' = [task EXCEPT ![c].pc = pc, ![c].id = id]
    BY <1>1, Zenon DEF Connect
  <2>2. /\ task' \in [Tasks -> TaskStates]
        /\ To(c, pc, id, task[c].room, task[c].todo, task[c].back)
    BY <1>c, <2>1, IdMoves
  <2> QED
    BY <1>1, <2>2 DEF Goal, SessionMoves
<1>2. CASE Register(c)
  <2>1. task' = [task EXCEPT ![c].pc = "attach"] /\ task[c].id \in Ids
    BY <1>2, <1>x DEF Register, Goto
  <2>2. task' \in [Tasks -> TaskStates] /\ GoesTo(c, "attach")
    BY <1>c, <2>1, PlaceMoves DEF RoomPcs, LeavePcs, Leaving, JoinPcs
  <2> QED
    BY <1>2, <2>2 DEF Goal, SessionMoves
<1>3. CASE CancelRemoval(c)
  <2>0. x.id \in Ids
    BY <1>3, <1>x DEF CancelRemoval
  <2>1. CASE pending[task[c].id] = None
    <3>1. task' = [task EXCEPT ![c].pc = "attach"]
      BY <1>3, <2>1 DEF CancelRemoval, Goto
    <3>2. task' \in [Tasks -> TaskStates] /\ GoesTo(c, "attach")
      BY <1>c, <2>0, <3>1, PlaceMoves DEF RoomPcs, LeavePcs, Leaving, JoinPcs
    <3> QED
      BY <1>3, <3>2, Zenon DEF Goal, SessionMoves
  <2>2. CASE pending[task[c].id] # None
    <3>0. pending[x.id].rooms \in SUBSET RoomKeys
      BY <2>0, <2>2 DEF RoomsShape, RoomMaps
    <3> PICK S : S = pending[x.id].rooms
      OBVIOUS
    <3>1. S \in SUBSET RoomKeys
      BY <3>0
    <3> DEFINE z == [x EXCEPT !.pc = "restore", !.todo = S]
    <3> DEFINE y == [z EXCEPT !.list = S]
    <3>2. z \in TaskRecords /\ z.pc = "restore" /\ z.id = x.id
      BY <1>x, <3>1 DEF TaskRecords, RoomPcs
    <3>3. task' = [task EXCEPT ![c] = y]
      BY <1>3, <2>2, <1>c DEF CancelRemoval, RoomsShape
    <3> HIDE DEF z
    <3>4. y \in TaskRecords /\ y.pc = "restore" /\ y.id = x.id /\ y.list = S
      BY <3>1, <3>2 DEF TaskRecords
    <3> HIDE DEF y
    <3>5. y \in TaskStates
      BY <2>0, <3>1, <3>4 DEF TaskStates, JoinPcs, LeavePcs, Leaving
    <3>6. task' \in [Tasks -> TaskStates] /\ OthersStay(c)
      BY <1>c, <3>3, <3>5, TaskMoves
    <3> QED
      BY <1>3, <2>2, <3>6 DEF Goal, SessionMoves
  <2> QED
    BY <2>1, <2>2
<1>4. ASSUME NEW r \in RoomKeys, RestoreRoom(c, r)
      PROVE  Goal
  <2> PICK S \in SUBSET RoomKeys : S = x.todo \ {r}
    BY <1>x
  <2> DEFINE y == [x EXCEPT !.todo = S]
  <2>1. y \in TaskRecords /\ y.pc = x.pc /\ y.id = x.id /\ y.list = x.list
    BY <1>x DEF TaskRecords
  <2>2. task' = [task EXCEPT ![c] = y]
    BY <1>4, <1>c DEF RestoreRoom, RoomsShape
  <2> HIDE DEF y
  <2>3. y \in TaskStates
    BY <1>4, <2>1 DEF RestoreRoom, TaskStates, JoinPcs, LeavePcs, Leaving
  <2>4. task' \in [Tasks -> TaskStates] /\ OthersStay(c)
    BY <1>c, <2>2, <2>3, TaskMoves
  <2> QED
    BY <1>4, <2>4 DEF Goal, SessionMoves
<1>5. CASE RestoreIndex(c)
  <2> DEFINE y == [x EXCEPT !.pc = "attach", !.list = {}]
  <2>1. y \in TaskRecords /\ y.pc = "attach" /\ y.id = x.id
    BY <1>x DEF TaskRecords, RoomPcs
  <2>2. task' = [task EXCEPT ![c] = y]
    BY <1>5, <1>c DEF RestoreIndex, RoomsShape
  <2> HIDE DEF y
  <2>3. y \in TaskStates
    BY <1>5, <1>x, <2>1 DEF RestoreIndex, TaskStates, JoinPcs, LeavePcs, Leaving
  <2>4. task' \in [Tasks -> TaskStates] /\ OthersStay(c)
    BY <1>c, <2>2, <2>3, TaskMoves
  <2> QED
    BY <1>5, <2>4 DEF Goal, SessionMoves
<1>6. CASE Attach(c)
  <2>1. task' = [task EXCEPT ![c].pc = "open"] /\ task[c].id \in Ids
    BY <1>6, <1>x DEF Attach, Goto
  <2>2. task' \in [Tasks -> TaskStates] /\ GoesTo(c, "open")
    BY <1>c, <2>1, PlaceMoves DEF RoomPcs, LeavePcs, Leaving, JoinPcs
  <2> QED
    BY <1>6, <2>2 DEF Goal, SessionMoves
<1>7. CASE Close(c)
  <2>1. CASE wsSenders[task[c].id] = c
    <3>1. task' = [task EXCEPT ![c].pc = "rmRooms"] /\ task[c].id \in Ids
      BY <1>7, <1>x, <2>1 DEF Close, Goto
    <3>2. task' \in [Tasks -> TaskStates] /\ GoesTo(c, "rmRooms")
      BY <1>c, <3>1, PlaceMoves DEF RoomPcs, LeavePcs, Leaving, JoinPcs
    <3> QED
      BY <1>7, <2>1, <3>2 DEF Goal, SessionMoves
  <2>2. CASE wsSenders[task[c].id] # c
    BY <1>7, <1>off, <2>2 DEF Close, Goal, SessionMoves
  <2> QED
    BY <2>1, <2>2
<1>8. CASE TakeIndex(c)
  <2>0. task[c].pc = "rmRooms"
    BY <1>8, Zenon DEF TakeIndex
  <2>1. task[c].id \in Ids
    BY <1>x, <2>0
  <2> PICK mine : mine = clientRooms[task[c].id]
    OBVIOUS
  <2>2. mine \in SUBSET RoomKeys
    BY <2>1 DEF RoomsShape, RoomMaps
  <2>p. PICK pc : pc = CASE mine = {} -> "rmRegistry"
                         [] SessionTtlOn -> "pend"
                         [] OTHER -> "leaveNext"
    OBVIOUS
  <2>3. pc \in {"rmRegistry", "pend", "leaveNext"}
    BY <2>p, RoomsFlags
  <2>4. task' = [task EXCEPT ![c].pc = pc, ![c].todo = mine, ![c].back = "rmRegistry"]
    BY <1>8, <2>p, Zenon DEF TakeIndex
  <2>5. task' \in [Tasks -> TaskStates] /\ To(c, pc, task[c].id, task[c].room, mine, "rmRegistry")
    <3>1. "rmRegistry" \in {"open", "rmRegistry", "expire"}
      OBVIOUS
    <3> QED
      BY <1>c, <2>1, <2>2, <2>3, <2>4, <3>1, RemovalMoves, Zenon
  <2>6. To(c, CASE clientRooms[task[c].id] = {} -> "rmRegistry"
                 [] SessionTtlOn -> "pend"
                 [] OTHER -> "leaveNext",
            task[c].id, task[c].room, clientRooms[task[c].id], "rmRegistry")
    BY <2>5, <2>p, Zenon
  <2> QED
    BY <1>8, <2>5, <2>6, Zenon DEF Goal, SessionMoves
<1>9. CASE ScheduleRemoval(c)
  <2> DEFINE y == [x EXCEPT !.pc = "rmRegistry", !.todo = {}]
  <2>1. y \in TaskRecords /\ y.pc = "rmRegistry" /\ y.id = x.id
    BY <1>x DEF TaskRecords, RoomPcs
  <2>2. task' = [task EXCEPT ![c] = y]
    BY <1>9, <1>c DEF ScheduleRemoval, RoomsShape
  <2> HIDE DEF y
  <2>3. y \in TaskStates
    BY <1>9, <1>x, <2>1 DEF ScheduleRemoval, TaskStates, JoinPcs, LeavePcs, Leaving
  <2>4. task' \in [Tasks -> TaskStates] /\ OthersStay(c)
    BY <1>c, <2>2, <2>3, TaskMoves
  <2> QED
    BY <1>9, <2>4 DEF Goal, SessionMoves
<1>10. CASE RemoveRegistry(c)
  BY <1>10, <1>off DEF RemoveRegistry, Goal, SessionMoves
<1> QED
  BY <1>1, <1>2, <1>3, <1>4, <1>5, <1>6, <1>7, <1>8, <1>9, <1>10

\* The steps of a join, the start of a leave and an update of presence.
LEMMA JoinStepMoves ==
    ASSUME RoomsShape, NEW c \in Conns,
           \/ \E r \in RoomKeys : JoinCheckClient(c, r) \/ PresenceUpdate(c, r) \/ RoomLeave(c, r)
           \/ JoinCheckTotal(c) \/ JoinCheckSize(c) \/ JoinEnter(c) \/ JoinIndex(c)
    PROVE  task' \in [Tasks -> TaskStates] /\ JoinMoves(c)
<1> DEFINE Goal == task' \in [Tasks -> TaskStates] /\ JoinMoves(c)
<1> SUFFICES Goal
  OBVIOUS
<1> HIDE DEF Goal
<1>c. c \in Tasks
  BY DEF Tasks
<1> PICK x \in TaskStates : x = task[c]
  BY <1>c, TaskKnows
<1>x. /\ x \in TaskRecords /\ x.todo \subseteq RoomKeys
      /\ task[c].pc \notin {"off", "sleep", "expire"} => x.id \in Ids
      /\ task[c].pc \in JoinPcs => x.room \in RoomKeys
  BY <1>c, TaskKnows
<1>open. ASSUME task' = [task EXCEPT ![c].pc = "open", ![c].room = None], x.id \in Ids
         PROVE  task' \in [Tasks -> TaskStates] /\ Reopens(c)
  <2> DEFINE y == [x EXCEPT !.pc = "open", !.room = None]
  <2>1. /\ y \in TaskRecords /\ y.pc = "open" /\ y.id = x.id /\ y.room = None
        /\ y.todo = x.todo /\ y.back = x.back
    BY <1>x DEF TaskRecords, RoomPcs
  <2>2. task' = [task EXCEPT ![c] = y]
    BY <1>open, <1>c DEF RoomsShape
  <2> HIDE DEF y
  <2>3. y \in TaskStates
    BY <1>open, <2>1 DEF TaskStates, JoinPcs, LeavePcs, Leaving
  <2>4. task' \in [Tasks -> TaskStates] /\ To(c, y.pc, y.id, y.room, y.todo, y.back)
    BY <1>c, <2>2, <2>3, TaskMoves
  <2> QED
    BY <2>1, <2>4 DEF Reopens
<1>on. ASSUME NEW pc \in JoinPcs, task' = [task EXCEPT ![c].pc = pc], task[c].pc \in JoinPcs
       PROVE  task' \in [Tasks -> TaskStates] /\ GoesTo(c, pc)
  BY <1>on, <1>c, <1>x, PlaceMoves DEF JoinPcs, RoomPcs, Leaving, LeavePcs
<1>1. ASSUME NEW r \in RoomKeys, JoinCheckClient(c, r)
      PROVE  Goal
  <2> PICK pc \in {"joinTotal", "joinSize"} :
              pc = IF r \in clientRooms[task[c].id] THEN "joinSize" ELSE "joinTotal"
    OBVIOUS
  <2>1. task' = [task EXCEPT ![c].pc = pc, ![c].room = r] /\ task[c].pc = "open"
    BY <1>1, Zenon DEF JoinCheckClient
  <2>2. task[c].id \in Ids
    BY <1>x, <2>1
  <2>3. task' \in [Tasks -> TaskStates] /\ To(c, pc, task[c].id, r, task[c].todo, task[c].back)
    BY <1>c, <2>1, <2>2, RoomMovesTo
  <2> QED
    BY <1>1, <2>3 DEF Goal, JoinMoves
<1>2. CASE JoinCheckTotal(c)
  <2>1. task[c].pc \in JoinPcs /\ x.id \in Ids
    BY <1>2, <1>x DEF JoinCheckTotal, JoinPcs
  <2>2. \/ task' = [task EXCEPT ![c].pc = "joinSize"]
        \/ task' = [task EXCEPT ![c].pc = "open", ![c].room = None]
    BY <1>2, Zenon DEF JoinCheckTotal, JoinGoesOn
  <2>3. task' \in [Tasks -> TaskStates] /\ (GoesTo(c, "joinSize") \/ Reopens(c))
    BY <1>open, <1>on, <2>1, <2>2 DEF JoinPcs
  <2> QED
    BY <1>2, <2>3 DEF Goal, JoinMoves
<1>3. CASE JoinCheckSize(c)
  <2>1. task[c].pc \in JoinPcs /\ x.id \in Ids
    BY <1>3, <1>x DEF JoinCheckSize, JoinPcs
  <2>2. \/ task' = [task EXCEPT ![c].pc = "joinEnter"]
        \/ task' = [task EXCEPT ![c].pc = "open", ![c].room = None]
    BY <1>3, Zenon DEF JoinCheckSize, JoinGoesOn
  <2>3. task' \in [Tasks -> TaskStates] /\ (GoesTo(c, "joinEnter") \/ Reopens(c))
    BY <1>open, <1>on, <2>1, <2>2 DEF JoinPcs
  <2> QED
    BY <1>3, <2>3 DEF Goal, JoinMoves
<1>4. CASE JoinEnter(c)
  <2>1. task[c].pc \in JoinPcs /\ task' = [task EXCEPT ![c].pc = "joinIndex"]
    BY <1>4 DEF JoinEnter, JoinPcs, Goto
  <2>2. task' \in [Tasks -> TaskStates] /\ GoesTo(c, "joinIndex")
    BY <1>on, <2>1 DEF JoinPcs
  <2> QED
    BY <1>4, <2>2 DEF Goal, JoinMoves
<1>5. CASE JoinIndex(c)
  <2>1. x.id \in Ids /\ task' = [task EXCEPT ![c].pc = "open", ![c].room = None]
    BY <1>5, <1>x DEF JoinIndex
  <2> QED
    BY <1>5, <1>open, <2>1 DEF Goal, JoinMoves
<1>6. ASSUME NEW r \in RoomKeys, RoomLeave(c, r)
      PROVE  Goal
  <2>1. /\ task' = [task EXCEPT ![c].pc = "leaveNext", ![c].todo = {r}, ![c].back = "open"]
        /\ task[c].pc = "open"
    BY <1>6, Zenon DEF RoomLeave
  <2>2. task[c].id \in Ids
    BY <1>x, <2>1, Zenon
  <2> PICK S \in SUBSET RoomKeys : S = {r}
    OBVIOUS
  <2>3. task' = [task EXCEPT ![c].pc = "leaveNext", ![c].todo = S, ![c].back = "open"]
    BY <2>1, Zenon
  <2>4. task' \in [Tasks -> TaskStates] /\ To(c, "leaveNext", task[c].id, task[c].room, S, "open")
    <3>1. "leaveNext" \in {"rmRegistry", "pend", "leaveNext"} /\ "open" \in {"open", "rmRegistry", "expire"}
      OBVIOUS
    <3> QED
      BY <1>c, <2>2, <2>3, <3>1, RemovalMoves, Zenon
  <2> QED
    BY <1>6, <2>4, Zenon DEF Goal, JoinMoves
<1>7. ASSUME NEW r \in RoomKeys, PresenceUpdate(c, r)
      PROVE  Goal
  BY <1>7 DEF PresenceUpdate, Goal, JoinMoves, RoomsShape
<1> QED
  BY <1>1, <1>2, <1>3, <1>4, <1>5, <1>6, <1>7

\* Every step keeps the shape and moves the tasks as RoomMoves says.
LEMMA RoomSteps ==
    ASSUME RoomsShape, [Next]_vars
    PROVE  RoomsShape' /\ RoomMoves
<1> DEFINE Goal == task' \in [Tasks -> TaskStates] /\ RoomMoves
<1> SUFFICES Goal
  BY NextRoomMaps DEF RoomsShape
<1> HIDE DEF Goal
<1>a. Conns \subseteq Tasks /\ CheckBroken \in Tasks
  BY DEF Tasks
<1>leave. ASSUME NEW t \in Tasks, LeaveSteps(t)
          PROVE  Goal
  BY <1>leave, LeaveStepMoves DEF Goal, RoomMoves
<1>1. ASSUME NEW c \in Conns, PeerSteps(c) \/ SocketSteps(c)
      PROVE  Goal
  <2>1. \/ LeaveSteps(c)
        \/ \/ \E id \in Ids : Connect(c, id)
           \/ Register(c) \/ CancelRemoval(c)
           \/ \E r \in RoomKeys : RestoreRoom(c, r)
           \/ RestoreIndex(c) \/ Attach(c) \/ Close(c) \/ TakeIndex(c)
           \/ ScheduleRemoval(c) \/ RemoveRegistry(c)
        \/ \/ \E r \in RoomKeys : JoinCheckClient(c, r) \/ PresenceUpdate(c, r) \/ RoomLeave(c, r)
           \/ JoinCheckTotal(c) \/ JoinCheckSize(c) \/ JoinEnter(c) \/ JoinIndex(c)
    BY <1>1, Zenon DEF PeerSteps, SocketSteps
  <2> QED
    BY <2>1, <1>a, <1>leave, SessionStepMoves, JoinStepMoves DEF Goal, RoomMoves
<1> PICK x \in TaskStates : x = task[CheckBroken]
  BY <1>a, TaskKnows
<1>x. x \in TaskRecords
  BY DEF TaskStates
<1>2. CASE CollectExpired
  <2>p. PICK S : S = {id \in Ids : pending[id] # None /\ pending[id].expired}
    OBVIOUS
  <2>0. S \in SUBSET (RoomKeys \cup Ids)
    BY <2>p
  <2> DEFINE y == [x EXCEPT !.pc = "expire", !.list = S]
  <2>1. y \in TaskRecords /\ y.pc = "expire"
    BY <1>x, <2>0 DEF TaskRecords, RoomPcs
  <2>2. task' = [task EXCEPT ![CheckBroken] = y]
    BY <1>2, <1>a, <2>p DEF CollectExpired, RoomsShape
  <2> HIDE DEF y
  <2>3. y \in TaskStates
    BY <2>1 DEF TaskStates, JoinPcs, LeavePcs, Leaving
  <2>4. task' \in [Tasks -> TaskStates] /\ OthersStay(CheckBroken)
    BY <1>a, <2>2, <2>3, TaskMoves
  <2> QED
    BY <1>2, <2>4 DEF Goal, RoomMoves
<1>3. ASSUME NEW id \in Ids, ExpireSession(id)
      PROVE  Goal
  <2>p. PICK L \in SUBSET (RoomKeys \cup Ids) : L = x.list \ {id}
    BY <1>x DEF TaskRecords
  <2> DEFINE w == [x EXCEPT !.list = L]
  <2>1. w \in TaskRecords /\ w.pc = "expire"
    BY <1>3, <1>x DEF ExpireSession, TaskRecords
  <2>2. CASE pending[id] = None
    <3>1. task' = [task EXCEPT ![CheckBroken] = w]
      BY <1>3, <2>2, <2>p, <1>a DEF ExpireSession, RoomsShape
    <3> HIDE DEF w
    <3>2. w \in TaskStates
      BY <2>1 DEF TaskStates, JoinPcs, LeavePcs, Leaving
    <3>3. task' \in [Tasks -> TaskStates] /\ OthersStay(CheckBroken)
      BY <1>a, <3>1, <3>2, TaskMoves
    <3> QED
      BY <1>3, <3>3 DEF Goal, RoomMoves
  <2>3. CASE pending[id] # None
    <3>p. PICK S \in SUBSET RoomKeys : S = pending[id].rooms
      BY <2>3 DEF RoomsShape, RoomMaps
    <3>0. task' = [task EXCEPT ![CheckBroken].list = @ \ {id}, ![CheckBroken].id = id,
                               ![CheckBroken].todo = S, ![CheckBroken].back = "expire",
                               ![CheckBroken].pc = "leaveNext"]
      BY <1>3, <2>3, <3>p DEF ExpireSession
    <3> DEFINE z == [w EXCEPT !.id = id, !.todo = S]
    <3> DEFINE y == [z EXCEPT !.back = "expire", !.pc = "leaveNext"]
    <3>1. task' = [task EXCEPT ![CheckBroken] = y]
      BY <3>0, <2>p, <1>a DEF RoomsShape
    <3> HIDE DEF w
    <3>2. z \in TaskRecords /\ z.id = id /\ z.todo = S
      BY <2>1 DEF TaskRecords
    <3> HIDE DEF z
    <3>3. y \in TaskRecords /\ y.id = id /\ y.back = "expire" /\ y.pc = "leaveNext"
      BY <3>2 DEF TaskRecords, RoomPcs
    <3> HIDE DEF y
    <3>4. y \in TaskStates
      BY <3>3 DEF TaskStates, JoinPcs, LeavePcs
    <3>5. task' \in [Tasks -> TaskStates] /\ OthersStay(CheckBroken)
      BY <1>a, <3>1, <3>4, TaskMoves
    <3> QED
      BY <1>3, <3>5 DEF Goal, RoomMoves
  <2> QED
    BY <2>2, <2>3
<1>4. CASE ExpiryDone
  <2> PICK y : y = Idle("sleep")
    OBVIOUS
  <2>1. y \in TaskStates
    BY DEF Idle, TaskStates, TaskRecords, RoomPcs, JoinPcs, LeavePcs, Leaving
  <2>2. task' = [task EXCEPT ![CheckBroken] = y]
    BY <1>4 DEF ExpiryDone
  <2>3. task' \in [Tasks -> TaskStates] /\ OthersStay(CheckBroken)
    BY <1>a, <2>1, <2>2, TaskMoves
  <2> QED
    BY <1>4, <2>3 DEF Goal, RoomMoves
<1>5. ASSUME NEW id \in Ids, Evict(id) \/ TtlExpires(id)
      PROVE  Goal
  BY <1>5 DEF Evict, TtlExpires, Goal, RoomMoves, RoomsShape
<1>6. CASE UNCHANGED vars
  BY <1>6 DEF vars, Goal, RoomMoves, RoomsShape
<1> QED
  BY <1>1, <1>2, <1>3, <1>4, <1>5, <1>6, <1>leave, <1>a DEF Next, CleanupSteps

\* Every reachable state has the shape.
LEMMA AlwaysRoomsShape == Spec => []RoomsShape
<1>1. RoomsShape /\ [Next]_vars => RoomsShape'
  BY RoomSteps
<1>2. Init => RoomsShape
  BY InitRoomsShape
<1> QED
  BY <1>1, <1>2, PTL DEF Spec

-----------------------------------------------------------------------------
(* Empty rooms and the presence of those who left.                         *)

\* What a step does to a room's members and presence, and who is on the way to
\* do more.
RoomAlone ==
    /\ UNCHANGED <<rooms, presence>>
    /\ \A t \in Tasks : task[t].pc \in LeavePcs \ {"leaveIndex"} => task'[t] = task[t]

Enters(r, id) ==
    /\ rooms' = [rooms EXCEPT ![r] = Members(r) \cup {id}]
    /\ UNCHANGED presence
    /\ \A t \in Tasks : task[t].pc \in LeavePcs \ {"leaveIndex"} => task'[t] = task[t]

RoomEffect ==
    \/ RoomAlone
    \/ \E r \in RoomKeys, id \in Ids : Enters(r, id)
    \/ \E c \in Conns, r \in RoomKeys : PresenceUpdate(c, r)
    \/ \E t \in Tasks, r \in RoomKeys :
          /\ LeaveMembers(t, r) /\ rooms[r] # None
          /\ To(t, IF rooms'[r] = {} THEN "rmPresenceEmpty" ELSE "rmPresence",
                task[t].id, r, task[t].todo \ {r}, task[t].back)
    \/ \E t \in Tasks :
          LeavePresence(t) /\ GoesTo(t, IF task[t].pc = "rmPresence" THEN "leaveIndex" ELSE "dropRoom")
    \/ \E t \in Tasks : DropRoom(t) /\ GoesTo(t, "dropPresence")
    \/ \E t \in Tasks : DropPresence(t) /\ GoesTo(t, "leaveIndex")

\* Most steps leave rooms and presence alone.
LEMMA RoomEffects ==
    ASSUME RoomsShape, RoomMoves
    PROVE  RoomEffect
<1> DEFINE Goal == RoomEffect
<1> SUFFICES Goal
  OBVIOUS
<1> HIDE DEF Goal
<1>a. Conns \subseteq Tasks /\ CheckBroken \in Tasks
  BY DEF Tasks
<1>alone. ASSUME NEW t \in Tasks, OthersStay(t), task[t].pc \notin LeavePcs \ {"leaveIndex"},
                 UNCHANGED <<rooms, presence>>
          PROVE  Goal
  BY <1>alone DEF Goal, RoomEffect, RoomAlone, OthersStay
<1>same. ASSUME UNCHANGED <<task, rooms, presence>>
         PROVE  Goal
  BY <1>same DEF Goal, RoomEffect, RoomAlone
<1>to. \A t, pc, id, room, todo, back : To(t, pc, id, room, todo, back) => OthersStay(t)
  BY DEF To
<1>go. \A t, pc : GoesTo(t, pc) => OthersStay(t)
  BY DEF To, GoesTo
<1>re. \A t : Reopens(t) => OthersStay(t)
  BY DEF To, Reopens
<1>1. ASSUME NEW t \in Tasks, LeaveMoves(t)
      PROVE  Goal
  <2>1. ASSUME NEW r \in RoomKeys, LeaveMembers(t, r), rooms[r] = None, OthersStay(t)
        PROVE  Goal
    BY <2>1, <1>alone DEF LeaveMembers, LeavePcs
  <2>2. CASE LeaveIndex(t) /\ OthersStay(t)
    BY <2>2, <1>alone DEF LeaveIndex
  <2>3. CASE LeaveDone(t) /\ OthersStay(t)
    BY <2>3, <1>alone DEF LeaveDone, LeavePcs, roomVars
  <2> QED
    BY <1>1, <1>to, <2>1, <2>2, <2>3 DEF LeaveMoves, Goal, RoomEffect
<1>2. ASSUME NEW c \in Conns, SessionMoves(c)
      PROVE  Goal
  <2>0. OthersStay(c)
    BY <1>2, <1>to, <1>go, Zenon DEF SessionMoves
  <2>1. ASSUME NEW r \in RoomKeys, RestoreRoom(c, r)
        PROVE  Goal
    <3>1. task[c].id \in Ids
      BY <2>1, <1>a, TaskKnows DEF RestoreRoom
    <3>2. Enters(r, task[c].id)
      BY <2>0, <2>1 DEF RestoreRoom, Enters, OthersStay, LeavePcs
    <3> QED
      BY <3>1, <3>2 DEF Goal, RoomEffect
  <2>2. CASE \E id \in Ids : Connect(c, id)
    BY <2>0, <2>2, <1>a, <1>alone DEF Connect, LeavePcs, roomVars
  <2>3. CASE TakeIndex(c)
    <3>1. task[c].pc = "rmRooms" /\ UNCHANGED <<rooms, presence>>
      BY <2>3, Zenon DEF TakeIndex
    <3> QED
      BY <2>0, <3>1, <1>a, <1>alone DEF LeavePcs
  <2>4. CASE Register(c) \/ CancelRemoval(c) \/ RestoreIndex(c) \/ Attach(c)
    BY <2>0, <2>4, <1>a, <1>alone DEF Register, CancelRemoval, RestoreIndex, Attach, LeavePcs, roomVars
  <2>5. CASE Close(c) \/ ScheduleRemoval(c) \/ RemoveRegistry(c)
    BY <2>0, <2>5, <1>a, <1>alone DEF Close, ScheduleRemoval, RemoveRegistry, LeavePcs, roomVars
  <2> QED
    BY <1>2, <2>1, <2>2, <2>3, <2>4, <2>5, Zenon DEF SessionMoves
<1>3. ASSUME NEW c \in Conns, JoinMoves(c)
      PROVE  Goal
  <2>1. ASSUME NEW r \in RoomKeys, PresenceUpdate(c, r)
        PROVE  Goal
    BY <2>1 DEF Goal, RoomEffect
  <2>2. CASE JoinEnter(c) /\ OthersStay(c)
    <3>1. task[c].id \in Ids /\ task[c].room \in RoomKeys
      BY <2>2, <1>a, TaskKnows DEF JoinEnter, JoinPcs
    <3>2. Enters(task[c].room, task[c].id)
      BY <2>2 DEF JoinEnter, Enters, OthersStay, LeavePcs
    <3> QED
      BY <3>1, <3>2 DEF Goal, RoomEffect
  <2>3. ASSUME NEW r \in RoomKeys, JoinCheckClient(c, r) \/ RoomLeave(c, r), OthersStay(c)
        PROVE  Goal
    <3>1. task[c].pc = "open" /\ UNCHANGED <<rooms, presence>>
      BY <2>3, Zenon DEF JoinCheckClient, RoomLeave, roomVars
    <3> QED
      BY <2>3, <3>1, <1>a, <1>alone DEF LeavePcs
  <2>4. CASE (JoinCheckTotal(c) \/ JoinCheckSize(c) \/ JoinIndex(c)) /\ OthersStay(c)
    BY <2>4, <1>a, <1>alone DEF JoinCheckTotal, JoinCheckSize, JoinIndex, LeavePcs, roomVars
  <2> QED
    BY <1>3, <1>to, <1>go, <1>re, <2>1, <2>2, <2>3, <2>4, Zenon DEF JoinMoves
<1>4. CASE CollectExpired /\ OthersStay(CheckBroken)
  BY <1>4, <1>a, <1>alone DEF CollectExpired, LeavePcs, roomVars
<1>5. ASSUME NEW id \in Ids, ExpireSession(id), OthersStay(CheckBroken)
      PROVE  Goal
  <2>1. task[CheckBroken].pc = "expire" /\ UNCHANGED <<rooms, presence>>
    BY <1>5, Zenon DEF ExpireSession
  <2> QED
    BY <1>5, <2>1, <1>a, <1>alone DEF LeavePcs
<1>6. CASE ExpiryDone /\ OthersStay(CheckBroken)
  BY <1>6, <1>a, <1>alone DEF ExpiryDone, LeavePcs, roomVars
<1>7. ASSUME NEW id \in Ids, Evict(id) \/ TtlExpires(id)
      PROVE  Goal
  BY <1>7, <1>same DEF Evict, TtlExpires, roomVars
<1>8. CASE UNCHANGED vars
  BY <1>8, <1>same DEF vars
<1> QED
  BY <1>1, <1>2, <1>3, <1>4, <1>5, <1>6, <1>7, <1>8, Zenon DEF RoomMoves

\* A room that becomes empty is emptied by a task that goes on to delete it.
LEMMA NextEmptyRoom ==
    ASSUME RoomsShape, EmptyRoomIsDeleted, RoomEffect
    PROVE  EmptyRoomIsDeleted'
<1> DEFINE Goal == EmptyRoomIsDeleted'
<1> SUFFICES Goal
  OBVIOUS
<1> HIDE DEF Goal
<1>0. \A t \in Tasks : task[t].pc \in LeavePcs => task[t].room \in RoomKeys
  BY TaskKnows
<1>stay. ASSUME \A r \in RoomKeys : rooms'[r] = {} => rooms[r] = {},
                \A t \in Tasks : task[t].pc \in {"rmPresenceEmpty", "dropRoom"} =>
                   task'[t].room = task[t].room /\ task'[t].pc \in {"rmPresenceEmpty", "dropRoom"}
         PROVE  Goal
  <2> SUFFICES ASSUME NEW r \in RoomKeys, rooms'[r] = {}
               PROVE  \E t \in Tasks : task'[t].room = r /\ task'[t].pc \in {"rmPresenceEmpty", "dropRoom"}
    BY DEF Goal, EmptyRoomIsDeleted
  <2> PICK t \in Tasks : task[t].room = r /\ task[t].pc \in {"rmPresenceEmpty", "dropRoom"}
    BY <1>stay DEF EmptyRoomIsDeleted
  <2> QED
    BY <1>stay
<1>1. CASE RoomAlone
  BY <1>1, <1>stay DEF RoomAlone, LeavePcs
<1>2. ASSUME NEW r \in RoomKeys, NEW id \in Ids, Enters(r, id)
      PROVE  Goal
  <2>1. \A s \in RoomKeys : rooms'[s] = {} => rooms[s] = {}
    BY <1>2 DEF Enters, RoomsShape, RoomMaps
  <2> QED
    BY <1>2, <2>1, <1>stay DEF Enters, LeavePcs
<1>3. ASSUME NEW c \in Conns, NEW r \in RoomKeys, PresenceUpdate(c, r)
      PROVE  Goal
  BY <1>3, <1>stay DEF PresenceUpdate, roomVars
<1>4. ASSUME NEW t \in Tasks, NEW r \in RoomKeys, LeaveMembers(t, r), rooms[r] # None,
             To(t, IF rooms'[r] = {} THEN "rmPresenceEmpty" ELSE "rmPresence",
                task[t].id, r, task[t].todo \ {r}, task[t].back)
      PROVE  Goal
  <2>1. /\ task[t].pc = "leaveNext"
        /\ \A s \in RoomKeys \ {r} : rooms'[s] = rooms[s]
    BY <1>4 DEF LeaveMembers, RoomsShape, RoomMaps
  <2>2. /\ task'[t].room = r
        /\ rooms'[r] = {} => task'[t].pc = "rmPresenceEmpty"
        /\ \A u \in Tasks \ {t} : task'[u] = task[u]
    BY <1>4 DEF To, OthersStay
  <2> SUFFICES ASSUME NEW s \in RoomKeys, rooms'[s] = {}
               PROVE  \E u \in Tasks : task'[u].room = s /\ task'[u].pc \in {"rmPresenceEmpty", "dropRoom"}
    BY DEF Goal, EmptyRoomIsDeleted
  <2>3. CASE s = r
    BY <2>2, <2>3
  <2>4. CASE s # r
    <3> PICK u \in Tasks : task[u].room = s /\ task[u].pc \in {"rmPresenceEmpty", "dropRoom"}
      BY <2>1, <2>4 DEF EmptyRoomIsDeleted
    <3> QED
      BY <2>1, <2>2
  <2> QED
    BY <2>3, <2>4
<1>5. ASSUME NEW t \in Tasks, LeavePresence(t),
             GoesTo(t, IF task[t].pc = "rmPresence" THEN "leaveIndex" ELSE "dropRoom")
      PROVE  Goal
  <2>1. /\ task[t].pc \in {"rmPresence", "rmPresenceEmpty"} /\ UNCHANGED rooms
        /\ task'[t].room = task[t].room
        /\ task[t].pc = "rmPresenceEmpty" => task'[t].pc = "dropRoom"
        /\ \A u \in Tasks \ {t} : task'[u] = task[u]
    BY <1>5 DEF LeavePresence, GoesTo, To, OthersStay, roomVars
  <2> QED
    BY <2>1, <1>stay
<1>6. ASSUME NEW t \in Tasks, DropRoom(t), GoesTo(t, "dropPresence")
      PROVE  Goal
  <2>1. task[t].room \in RoomKeys
    BY <1>0, <1>6 DEF DropRoom, LeavePcs
  <2> PICK r \in RoomKeys : r = task[t].room
    BY <2>1
  <2>2. /\ rooms'[r] = None /\ \A s \in RoomKeys \ {r} : rooms'[s] = rooms[s]
        /\ \A u \in Tasks \ {t} : task'[u] = task[u]
    BY <1>6 DEF DropRoom, GoesTo, To, OthersStay, RoomsShape, RoomMaps
  <2>3. None # {}
    BY RoomsDistinct
  <2> SUFFICES ASSUME NEW s \in RoomKeys, rooms'[s] = {}
               PROVE  \E u \in Tasks : task'[u].room = s /\ task'[u].pc \in {"rmPresenceEmpty", "dropRoom"}
    BY DEF Goal, EmptyRoomIsDeleted
  <2> PICK u \in Tasks : task[u].room = s /\ task[u].pc \in {"rmPresenceEmpty", "dropRoom"}
    BY <2>2, <2>3 DEF EmptyRoomIsDeleted
  <2> QED
    BY <2>2, <2>3
<1>7. ASSUME NEW t \in Tasks, DropPresence(t), GoesTo(t, "leaveIndex")
      PROVE  Goal
  <2>1. /\ task[t].pc = "dropPresence" /\ UNCHANGED rooms
        /\ \A u \in Tasks \ {t} : task'[u] = task[u]
    BY <1>7 DEF DropPresence, GoesTo, To, OthersStay, roomVars
  <2> QED
    BY <2>1, <1>stay
<1> QED
  BY <1>1, <1>2, <1>3, <1>4, <1>5, <1>6, <1>7, Zenon DEF RoomEffect

\* Who takes a member out of a room goes on to its presence, and who deletes a
\* room goes on to its presence map.
LEMMA NextPresence ==
    ASSUME RoomsShape, PresenceOfMembers, RoomEffect
    PROVE  PresenceOfMembers'
<1> DEFINE Goal == PresenceOfMembers'
           OnTheWay(t, r, id) ==
               /\ task[t].room = r
               /\ \/ task[t].id = id /\ task[t].pc \in {"rmPresence", "rmPresenceEmpty"}
                  \/ task[t].pc \in {"rmPresenceEmpty", "dropRoom", "dropPresence"}
           StillOnTheWay(t, r, id) ==
               /\ task'[t].room = r
               /\ \/ task'[t].id = id /\ task'[t].pc \in {"rmPresence", "rmPresenceEmpty"}
                  \/ task'[t].pc \in {"rmPresenceEmpty", "dropRoom", "dropPresence"}
<1> SUFFICES Goal
  OBVIOUS
<1>end. ASSUME \A r \in RoomKeys, id \in Ids :
                  (presence'[r][id] = "member" /\ id \notin Members(r)') =>
                     \E t \in Tasks : StillOnTheWay(t, r, id)
        PROVE  Goal
  BY <1>end DEF PresenceOfMembers
<1>begin. ASSUME NEW r \in RoomKeys, NEW id \in Ids, presence[r][id] = "member", id \notin Members(r)
          PROVE  \E t \in Tasks : OnTheWay(t, r, id)
  BY <1>begin DEF PresenceOfMembers
<1> HIDE DEF Goal, OnTheWay, StillOnTheWay
<1>0. \A t \in Tasks : task[t].pc \in LeavePcs => task[t].room \in RoomKeys /\ task[t].id \in Ids
  BY TaskKnows, Places DEF Leaving
<1>same. \A t \in Tasks, r \in RoomKeys, id \in Ids :
            OnTheWay(t, r, id) /\ task'[t] = task[t] => StillOnTheWay(t, r, id)
  BY DEF OnTheWay, StillOnTheWay
<1>at. \A t \in Tasks, r \in RoomKeys, id \in Ids :
          OnTheWay(t, r, id) => task[t].pc \in LeavePcs \ {"leaveIndex"} /\ task[t].room = r
  BY DEF OnTheWay, LeavePcs
<1>quiet. ASSUME \A r \in RoomKeys, id \in Ids :
                    (presence'[r][id] = "member" /\ id \notin Members(r)') =>
                       presence[r][id] = "member" /\ id \notin Members(r),
                 \A t \in Tasks : task[t].pc \in LeavePcs \ {"leaveIndex"} => task'[t] = task[t]
          PROVE  Goal
  BY <1>quiet, <1>begin, <1>end, <1>at, <1>same, Zenon
<1>1. CASE RoomAlone
  BY <1>1, <1>quiet DEF RoomAlone, Members
<1>2. ASSUME NEW r \in RoomKeys, NEW id \in Ids, Enters(r, id)
      PROVE  Goal
  <2>1. \A s \in RoomKeys : Members(s) \subseteq Members(s)'
    <3> PICK S : S = Members(r) \cup {id}
      OBVIOUS
    <3>1. S \in SUBSET Ids /\ rooms' = [rooms EXCEPT ![r] = S]
      BY <1>2, MembersArePeers DEF Enters, RoomsShape
    <3>2. Members(r)' = S /\ \A s \in RoomKeys \ {r} : Members(s)' = Members(s)
      BY <3>1, MembersWritten DEF RoomsShape
    <3> QED
      BY <3>2
  <2> QED
    BY <1>2, <2>1, <1>quiet DEF Enters
<1>3. ASSUME NEW c \in Conns, NEW r \in RoomKeys, PresenceUpdate(c, r)
      PROVE  Goal
  <2>1. task[c].pc = "open" /\ UNCHANGED <<rooms, task>>
    BY <1>3 DEF PresenceUpdate, roomVars
  <2>2. task[c].id \in Ids
    BY <2>1, TaskKnows DEF Tasks
  <2> PICK i \in Ids : i = task[c].id
    BY <2>2
  <2>3. PICK v : v = IF i \in Members(r) THEN "member" ELSE "stray"
    OBVIOUS
  <2>4. presence' = [presence EXCEPT ![r][i] = v]
    BY <1>3, <2>3 DEF PresenceUpdate
  <2>5. \A s \in RoomKeys, id \in Ids : presence'[s][id] = IF s = r /\ id = i THEN v ELSE presence[s][id]
    BY <2>4 DEF RoomsShape, RoomMaps
  <2>6. \A s \in RoomKeys : Members(s)' = Members(s)
    BY <2>1 DEF Members
  <2> QED
    BY <2>1, <2>3, <2>5, <2>6, <1>quiet
<1>4. ASSUME NEW t \in Tasks, NEW r \in RoomKeys, LeaveMembers(t, r), rooms[r] # None,
             To(t, IF rooms'[r] = {} THEN "rmPresenceEmpty" ELSE "rmPresence",
                task[t].id, r, task[t].todo \ {r}, task[t].back)
      PROVE  Goal
  <2> PICK i : i = task[t].id
    OBVIOUS
  <2>1. /\ task[t].pc = "leaveNext" /\ UNCHANGED presence
        /\ rooms' = [rooms EXCEPT ![r] = @ \ {i}]
    BY <1>4 DEF LeaveMembers
  <2>2. /\ task'[t].room = r /\ task'[t].id = i
        /\ task'[t].pc \in {"rmPresence", "rmPresenceEmpty"}
        /\ \A u \in Tasks \ {t} : task'[u] = task[u]
    BY <1>4 DEF To, OthersStay
  <2>3. StillOnTheWay(t, r, i)
    BY <2>2 DEF StillOnTheWay
  <2>4. \A s \in RoomKeys, id \in Ids : id \in Members(s) => id \in Members(s)' \/ (s = r /\ id = i)
    <3>1. rooms[r] \ {i} # None
      BY <1>4, RoomsDistinct DEF RoomsShape, RoomMaps
    <3> QED
      BY <1>4, <2>1, <3>1 DEF Members, RoomsShape, RoomMaps
  <2>5. ASSUME NEW s \in RoomKeys, NEW id \in Ids, presence'[s][id] = "member", id \notin Members(s)'
        PROVE  \E u \in Tasks : StillOnTheWay(u, s, id)
    <3>1. CASE s = r /\ id = i
      BY <3>1, <2>3
    <3>2. CASE ~(s = r /\ id = i)
      <4>1. presence[s][id] = "member" /\ id \notin Members(s)
        BY <2>1, <2>4, <2>5, <3>2
      <4> PICK u \in Tasks : OnTheWay(u, s, id)
        BY <1>begin, <4>1
      <4>2. u # t
        BY <1>at, <2>1 DEF LeavePcs
      <4> QED
        BY <2>2, <4>2, <1>same
    <3> QED
      BY <3>1, <3>2
  <2> QED
    BY <2>5, <1>end
<1>5. ASSUME NEW t \in Tasks, LeavePresence(t),
             GoesTo(t, IF task[t].pc = "rmPresence" THEN "leaveIndex" ELSE "dropRoom")
      PROVE  Goal
  <2>0. task[t].pc \in {"rmPresence", "rmPresenceEmpty"} /\ UNCHANGED rooms
    BY <1>5 DEF LeavePresence, roomVars
  <2> PICK r \in RoomKeys, i \in Ids : r = task[t].room /\ i = task[t].id
    BY <1>0, <2>0 DEF LeavePcs
  <2>1. presence' = [presence EXCEPT ![r][i] = None]
    BY <1>5 DEF LeavePresence
  <2>2. \A s \in RoomKeys, id \in Ids :
           presence'[s][id] = IF s = r /\ id = i THEN None ELSE presence[s][id]
    BY <2>1 DEF RoomsShape, RoomMaps
  <2>3. /\ task'[t].room = r
        /\ task[t].pc = "rmPresenceEmpty" => task'[t].pc = "dropRoom"
        /\ \A u \in Tasks \ {t} : task'[u] = task[u]
    BY <1>5 DEF GoesTo, To, OthersStay
  <2>4. ASSUME NEW s \in RoomKeys, NEW id \in Ids, presence'[s][id] = "member", id \notin Members(s)'
        PROVE  \E u \in Tasks : StillOnTheWay(u, s, id)
    <3>1. presence[s][id] = "member" /\ id \notin Members(s) /\ ~(s = r /\ id = i)
      BY <2>0, <2>2, <2>4, RoomsDistinct DEF Members
    <3> PICK u \in Tasks : OnTheWay(u, s, id)
      BY <1>begin, <3>1
    <3>2. CASE u # t
      BY <3>2, <2>3, <1>same
    <3>3. CASE u = t
      <4>1. s = r /\ task[t].pc = "rmPresenceEmpty"
        BY <3>1, <3>3, <2>0 DEF OnTheWay
      <4> QED
        BY <2>3, <4>1 DEF StillOnTheWay
    <3> QED
      BY <3>2, <3>3
  <2> QED
    BY <2>4, <1>end
<1>6. ASSUME NEW t \in Tasks, DropRoom(t), GoesTo(t, "dropPresence")
      PROVE  Goal
  <2>0. task[t].pc = "dropRoom" /\ UNCHANGED presence
    BY <1>6 DEF DropRoom
  <2> PICK r \in RoomKeys : r = task[t].room
    BY <1>0, <2>0 DEF LeavePcs
  <2>1. \A s \in RoomKeys \ {r} : Members(s)' = Members(s)
    BY <1>6 DEF DropRoom, Members, RoomsShape, RoomMaps
  <2>2. /\ task'[t].room = r /\ task'[t].pc = "dropPresence"
        /\ \A u \in Tasks \ {t} : task'[u] = task[u]
    BY <1>6 DEF GoesTo, To, OthersStay
  <2>3. ASSUME NEW s \in RoomKeys, NEW id \in Ids, presence'[s][id] = "member", id \notin Members(s)'
        PROVE  \E u \in Tasks : StillOnTheWay(u, s, id)
    <3>1. CASE s = r
      BY <3>1, <2>2 DEF StillOnTheWay
    <3>2. CASE s # r
      <4> PICK u \in Tasks : OnTheWay(u, s, id)
        BY <1>begin, <2>0, <2>1, <2>3, <3>2
      <4>1. u # t
        BY <1>at, <3>2
      <4> QED
        BY <4>1, <2>2, <1>same
    <3> QED
      BY <3>1, <3>2
  <2> QED
    BY <2>3, <1>end
<1>7. ASSUME NEW t \in Tasks, DropPresence(t), GoesTo(t, "leaveIndex")
      PROVE  Goal
  <2>0. task[t].pc = "dropPresence" /\ UNCHANGED rooms
    BY <1>7 DEF DropPresence, roomVars
  <2> PICK r \in RoomKeys : r = task[t].room
    BY <1>0, <2>0 DEF LeavePcs
  <2>1. presence'[r] = NoPresence /\ \A s \in RoomKeys \ {r} : presence'[s] = presence[s]
    BY <1>7 DEF DropPresence, RoomsShape, RoomMaps
  <2>2. \A id \in Ids : presence'[r][id] # "member"
    BY <2>1, RoomsDistinct DEF NoPresence
  <2>3. \A u \in Tasks \ {t} : task'[u] = task[u]
    BY <1>7 DEF GoesTo, To, OthersStay
  <2>4. ASSUME NEW s \in RoomKeys, NEW id \in Ids, presence'[s][id] = "member", id \notin Members(s)'
        PROVE  \E u \in Tasks : StillOnTheWay(u, s, id)
    <3>1. s # r /\ presence[s][id] = "member" /\ id \notin Members(s)
      BY <2>0, <2>1, <2>2, <2>4 DEF Members
    <3> PICK u \in Tasks : OnTheWay(u, s, id)
      BY <1>begin, <3>1
    <3>2. u # t
      BY <1>at, <3>1
    <3> QED
      BY <2>3, <3>2, <1>same
  <2> QED
    BY <2>4, <1>end
<1> QED
  BY <1>1, <1>2, <1>3, <1>4, <1>5, <1>6, <1>7, Zenon DEF RoomEffect

-----------------------------------------------------------------------------
(* Without a session TTL.                                                  *)

\* Leaving a room is about rooms, their index and presence only.
LEMMA LeaveLeavesSessions ==
    ASSUME NEW t \in Tasks, LeaveMoves(t)
    PROVE  task[t].pc \in Leaving /\ UNCHANGED <<pending, wsSenders, registry, shared>>
<1>1. ASSUME NEW r \in RoomKeys, LeaveMembers(t, r)
      PROVE  task[t].pc \in Leaving /\ UNCHANGED <<pending, wsSenders, registry, shared>>
  <2>1. task[t].pc = "leaveNext" /\ UNCHANGED <<pending, wsSenders, registry, shared>>
    BY <1>1, Zenon DEF LeaveMembers, sessionVars
  <2> QED
    BY <2>1 DEF Leaving
<1>2. CASE LeavePresence(t)
  BY <1>2 DEF LeavePresence, Leaving, LeavePcs, roomVars, sessionVars
<1>3. CASE DropRoom(t)
  BY <1>3 DEF DropRoom, Leaving, LeavePcs, sessionVars
<1>4. CASE DropPresence(t)
  BY <1>4 DEF DropPresence, Leaving, LeavePcs, roomVars, sessionVars
<1>5. CASE LeaveIndex(t)
  BY <1>5 DEF LeaveIndex, Leaving, LeavePcs, sessionVars
<1>6. CASE LeaveDone(t)
  BY <1>6 DEF LeaveDone, Leaving, roomVars, sessionVars
<1> QED
  BY <1>1, <1>2, <1>3, <1>4, <1>5, <1>6, Zenon DEF LeaveMoves

\* Nothing becomes pending.
LEMMA NextNoTtl ==
    ASSUME RoomsShape, NoTtl, RoomMoves
    PROVE  NoTtl'
<1> DEFINE Goal == NoTtl'
<1> SUFFICES ASSUME ~SessionTtlOn PROVE Goal
  BY DEF NoTtl
<1> HIDE DEF Goal
<1>0. /\ \A id \in Ids : pending[id] = None
      /\ task[CheckBroken].pc = "sleep"
      /\ \A c \in Conns :
            /\ task[c].pc \notin {"restore", "pend", "sleep", "expire"}
            /\ task[c].pc \in Leaving => task[c].back # "expire"
  BY DEF NoTtl
<1>a. CheckBroken \in Tasks /\ Conns \subseteq Tasks /\ CheckBroken \notin Conns
  BY RoomsDistinct DEF Tasks
<1>conn. ASSUME NEW c \in Conns, OthersStay(c),
                task'[c].pc \notin {"restore", "pend", "sleep", "expire"},
                task'[c].pc \in Leaving => task'[c].back # "expire",
                \A id \in Ids : pending'[id] = None
         PROVE  Goal
  <2>1. task'[CheckBroken] = task[CheckBroken] /\ \A d \in Conns \ {c} : task'[d] = task[d]
    BY <1>conn, <1>a DEF OthersStay
  <2> QED
    BY <1>0, <1>conn, <2>1 DEF Goal, NoTtl
<1>same. ASSUME UNCHANGED <<pending, task>>
         PROVE  Goal
  BY <1>0, <1>same DEF Goal, NoTtl
<1>1. ASSUME NEW t \in Tasks, LeaveMoves(t)
      PROVE  Goal
  <2>0. task[t].pc \in Leaving /\ UNCHANGED pending
    BY <1>1, LeaveLeavesSessions
  <2>1. t \in Conns
    BY <1>0, <2>0, <1>a DEF Tasks, Leaving, LeavePcs
  <2>2. task[t].back \in {"open", "rmRegistry"}
    BY <1>0, <2>0, <2>1, TaskKnows
  <2>3. /\ OthersStay(t)
        /\ \/ task'[t].pc \in Leaving /\ task'[t].back = task[t].back
           \/ task'[t].pc = task[t].back
    BY <1>1 DEF LeaveMoves, To, GoesTo, Leaving, LeavePcs
  <2> QED
    BY <1>conn, <1>0, <2>0, <2>1, <2>2, <2>3 DEF Leaving, LeavePcs
<1>2. ASSUME NEW c \in Conns, SessionMoves(c)
      PROVE  Goal
  <2>1. CASE \E id \in Ids, pc \in {"unpend", "register"} :
                Connect(c, id) /\ To(c, pc, id, task[c].room, task[c].todo, task[c].back)
    BY <2>1, <1>0, <1>conn DEF Connect, To, roomVars, Leaving, LeavePcs
  <2>2. CASE Register(c) /\ GoesTo(c, "attach")
    BY <2>2, <1>0, <1>conn DEF Register, GoesTo, To, roomVars, Leaving, LeavePcs
  <2>3. CASE CancelRemoval(c) /\ (GoesTo(c, "attach") \/ (pending[task[c].id] # None /\ OthersStay(c)))
    <3>1. task[c].id \in Ids /\ \A id \in Ids : pending'[id] = None
      BY <2>3, <1>0, <1>a, TaskKnows DEF CancelRemoval, RoomsShape, RoomMaps
    <3> QED
      BY <2>3, <3>1, <1>0, <1>conn DEF GoesTo, To, Leaving, LeavePcs
  <2>4. CASE Attach(c) /\ GoesTo(c, "open")
    BY <2>4, <1>0, <1>conn DEF Attach, GoesTo, To, roomVars, Leaving, LeavePcs
  <2>5. CASE Close(c) /\ (GoesTo(c, "rmRooms") \/ To(c, "off", None, None, {}, None))
    BY <2>5, <1>0, <1>conn DEF Close, GoesTo, To, roomVars, Leaving, LeavePcs
  <2>6. CASE TakeIndex(c) /\ To(c, CASE clientRooms[task[c].id] = {} -> "rmRegistry"
                                     [] SessionTtlOn -> "pend"
                                     [] OTHER -> "leaveNext",
                                task[c].id, task[c].room, clientRooms[task[c].id], "rmRegistry")
    <3>1. UNCHANGED pending
      BY <2>6, Zenon DEF TakeIndex
    <3>2. OthersStay(c) /\ task'[c].pc \in {"rmRegistry", "leaveNext"} /\ task'[c].back = "rmRegistry"
      BY <2>6 DEF To
    <3> QED
      BY <3>1, <3>2, <1>0, <1>conn
  <2>7. CASE RemoveRegistry(c) /\ To(c, "off", None, None, {}, None)
    BY <2>7, <1>0, <1>conn DEF RemoveRegistry, To, roomVars, Leaving, LeavePcs
  <2>8. CASE (\E r \in RoomKeys : RestoreRoom(c, r)) \/ RestoreIndex(c) \/ ScheduleRemoval(c)
    BY <2>8, <1>0 DEF RestoreRoom, RestoreIndex, ScheduleRemoval
  <2> QED
    BY <1>2, <2>1, <2>2, <2>3, <2>4, <2>5, <2>6, <2>7, <2>8, Zenon DEF SessionMoves
<1>3. ASSUME NEW c \in Conns, JoinMoves(c)
      PROVE  Goal
  <2>1. \/ UNCHANGED task
        \/ OthersStay(c) /\ task'[c].pc \in JoinPcs \cup {"open"}
        \/ OthersStay(c) /\ task'[c].pc = "leaveNext" /\ task'[c].back = "open"
    BY <1>3 DEF JoinMoves, To, GoesTo, Reopens, JoinPcs
  <2>2. UNCHANGED pending
    BY <1>3, Zenon DEF JoinMoves, JoinCheckClient, JoinCheckTotal, JoinCheckSize, JoinEnter, JoinIndex,
                       RoomLeave, PresenceUpdate, roomVars
  <2> QED
    BY <2>1, <2>2, <1>0, <1>conn, <1>same DEF JoinPcs, Leaving, LeavePcs
<1>4. CASE CollectExpired \/ ExpiryDone \/ \E id \in Ids : ExpireSession(id)
  <2>1. FALSE
    BY <1>4, <1>0, Zenon DEF CollectExpired, ExpiryDone, ExpireSession
  <2> QED
    BY <2>1
<1>5. ASSUME NEW id \in Ids, Evict(id) \/ TtlExpires(id), UNCHANGED task
      PROVE  Goal
  BY <1>5, <1>0, <1>same DEF Evict, TtlExpires, roomVars
<1>6. CASE UNCHANGED vars
  BY <1>6, <1>same DEF vars
<1> QED
  BY <1>1, <1>2, <1>3, <1>4, <1>5, <1>6, Zenon DEF RoomMoves

\* A task serves its id alone, lists its rooms and leaves them all at its end.
LEMMA NextSessionInv ==
    ASSUME RoomsShape, NoTtl, SessionInv, RoomMoves
    PROVE  SessionInv'
<1> DEFINE Goal == SessionInv'
           \* What a step that serves id i may change of another id.
           Apart(i) == \A j \in Ids \ {i} :
               /\ clientRooms'[j] = clientRooms[j] /\ wsSenders'[j] = wsSenders[j]
               /\ \A r \in RoomKeys : j \in Members(r)' => j \in Members(r)
<1> SUFFICES ASSUME ~SessionTtlOn PROVE Goal
  BY DEF SessionInv
<1>goal. ASSUME \A j \in Ids \ shared' : OneTask(j)'
         PROVE  Goal
  BY <1>goal DEF SessionInv
<1> HIDE DEF Goal
<1>0. /\ \A j \in Ids \ shared : OneTask(j)
      /\ \A id \in Ids : pending[id] = None
      /\ task[CheckBroken].pc = "sleep"
      /\ \A c \in Conns :
            /\ task[c].pc \notin {"restore", "pend", "sleep", "expire"}
            /\ task[c].pc \in Leaving => task[c].back # "expire"
  BY DEF NoTtl, SessionInv
<1>a. CheckBroken \in Tasks /\ Conns \subseteq Tasks /\ CheckBroken \notin Conns
  BY RoomsDistinct DEF Tasks
<1>mem. UNCHANGED rooms => \A r \in RoomKeys : Members(r)' = Members(r)
  BY DEF Members
<1>other. ASSUME NEW j \in Ids \ shared, NEW c \in Conns, OthersStay(c),
                 task[c].id # j, task'[c].id # j,
                 clientRooms'[j] = clientRooms[j], wsSenders'[j] = wsSenders[j],
                 \A r \in RoomKeys : j \in Members(r)' => j \in Members(r)
          PROVE  OneTask(j)'
  <2>1. \A d \in Conns : d # c => task'[d] = task[d]
    BY <1>other, <1>a DEF OthersStay
  <2>2. OneTask(j)
    BY <1>0
  <2>3. HasNoRoom(j) => HasNoRoom(j)'
    BY <1>other DEF HasNoRoom
  <2>4. (\A d \in Conns : task'[d].id # j) => HasNoRoom(j)'
    BY <1>other, <2>1, <2>2, <2>3 DEF OneTask
  <2>5. ASSUME NEW d \in Conns, task'[d].id = j
        PROVE  (\A e \in Conns : task'[e].id = j => e = d) /\ KeepsRooms(j, d)'
    <3>1. d # c /\ task'[d] = task[d] /\ KeepsRooms(j, d) /\ \A e \in Conns : task[e].id = j => e = d
      BY <1>other, <2>1, <2>2, <2>5 DEF OneTask
    <3>2. \A e \in Conns : task'[e].id = j => e = d
      BY <1>other, <2>1, <3>1
    <3>3. task[d].pc \in LeavePcs => task[d].room \in RoomKeys
      BY <1>a, TaskKnows
    <3>4. KeepsRooms(j, d)'
      BY <1>other, <2>3, <3>1, <3>3 DEF KeepsRooms
    <3> QED
      BY <3>2, <3>4
  <2> QED
    BY <2>4, <2>5 DEF OneTask
<1>step. ASSUME NEW c \in Conns, NEW i \in Ids, OthersStay(c), i = task[c].id, task'[c].id = i,
                UNCHANGED shared, Apart(i),
                i \notin shared /\ KeepsRooms(i, c) => KeepsRooms(i, c)'
         PROVE  Goal
  <2> SUFFICES ASSUME NEW j \in Ids \ shared PROVE OneTask(j)'
    BY <1>step, <1>goal
  <2>1. CASE j # i
    BY <1>step, <1>other, <2>1
  <2>2. CASE j = i
    <3>1. KeepsRooms(i, c) /\ \A d \in Conns : task[d].id = i => d = c
      BY <1>0, <1>step, <2>2 DEF OneTask
    <3>2. \A d \in Conns : task'[d].id = i => d = c
      BY <1>step, <3>1, <1>a DEF OthersStay
    <3>3. KeepsRooms(i, c)'
      BY <1>step, <2>2, <3>1
    <3> QED
      BY <1>step, <2>2, <3>2, <3>3 DEF OneTask
  <2> QED
    BY <2>1, <2>2
<1>gone. ASSUME NEW c \in Conns, NEW i \in Ids, OthersStay(c), i = task[c].id, task'[c].id = None,
                UNCHANGED shared, Apart(i),
                i \notin shared /\ KeepsRooms(i, c) => HasNoRoom(i)'
         PROVE  Goal
  <2> SUFFICES ASSUME NEW j \in Ids \ shared PROVE OneTask(j)'
    BY <1>gone, <1>goal
  <2>0. None \notin Ids
    BY RoomsDistinct
  <2>1. CASE j # i
    BY <1>gone, <1>other, <2>0, <2>1
  <2>2. CASE j = i
    <3>1. KeepsRooms(i, c) /\ \A d \in Conns : task[d].id = i => d = c
      BY <1>0, <1>gone, <2>2 DEF OneTask
    <3>2. \A d \in Conns : task'[d].id # i
      BY <1>gone, <3>1, <2>0, <1>a DEF OthersStay
    <3> QED
      BY <1>gone, <2>2, <3>1, <3>2 DEF OneTask
  <2> QED
    BY <2>1, <2>2
<1>same. ASSUME UNCHANGED <<rooms, clientRooms, task>>, shared \subseteq shared',
                \A j \in Ids \ shared' : wsSenders'[j] = wsSenders[j]
         PROVE  Goal
  <2> SUFFICES ASSUME NEW j \in Ids \ shared' PROVE OneTask(j)'
    BY <1>goal
  <2>1. OneTask(j)
    BY <1>0, <1>same
  <2>2. HasNoRoom(j)' <=> HasNoRoom(j)
    BY <1>same, <1>mem DEF HasNoRoom
  <2>3. ASSUME NEW c \in Conns PROVE KeepsRooms(j, c) => KeepsRooms(j, c)'
    <3>1. task[c].pc \in LeavePcs => task[c].room \in RoomKeys
      BY <1>a, TaskKnows
    <3> QED
      BY <1>same, <1>mem, <2>2, <3>1 DEF KeepsRooms
  <2> QED
    BY <1>same, <2>1, <2>2, <2>3 DEF OneTask
<1>apart. ASSUME NEW i \in Ids, UNCHANGED <<rooms, wsSenders>>, \A j \in Ids \ {i} : clientRooms'[j] = clientRooms[j]
          PROVE  Apart(i)
  BY <1>apart, <1>mem
<1> HIDE DEF Apart
<1>1. ASSUME NEW c \in Tasks, LeaveMoves(c)
      PROVE  Goal
  <2>0. task[c].pc \in Leaving /\ UNCHANGED <<pending, wsSenders, registry, shared>>
    BY <1>1, LeaveLeavesSessions
  <2>1. c \in Conns
    BY <1>0, <2>0, <1>a DEF Tasks, Leaving, LeavePcs
  <2>2. /\ task[c].back \in {"open", "rmRegistry"}
        /\ task[c].pc \in LeavePcs => task[c].room \in RoomKeys
    BY <1>0, <2>0, <2>1, TaskKnows
  <2>i. PICK i \in Ids : i = task[c].id
    BY <2>0, TaskKnows DEF Leaving, LeavePcs
  <2>3. ASSUME NEW r \in RoomKeys, LeaveMembers(c, r), rooms[r] = None,
               To(c, "leaveNext", task[c].id, task[c].room, task[c].todo \ {r}, task[c].back)
        PROVE  Goal
    <3>1. UNCHANGED <<rooms, clientRooms>> /\ task[c].pc = "leaveNext"
      BY <2>3, Zenon DEF LeaveMembers
    <3>2. i \notin Members(r)
      BY <2>3 DEF Members
    <3>3. /\ OthersStay(c) /\ task'[c].pc = "leaveNext" /\ task'[c].id = i
          /\ task'[c].todo = task[c].todo \ {r} /\ task'[c].back = task[c].back
      BY <2>3, <2>i DEF To
    <3>4. ASSUME KeepsRooms(i, c) PROVE KeepsRooms(i, c)'
      BY <3>1, <3>2, <3>3, <3>4, <2>0, <1>mem DEF KeepsRooms, JoinPcs, Leaving, LeavePcs
    <3>5. Apart(i)
      BY <3>1, <2>0, <1>apart
    <3> QED
      BY <2>0, <2>1, <2>i, <3>3, <3>4, <3>5, <1>step
  <2>4. ASSUME NEW r \in RoomKeys, LeaveMembers(c, r), rooms[r] # None,
               To(c, IF rooms'[r] = {} THEN "rmPresenceEmpty" ELSE "rmPresence",
                  task[c].id, r, task[c].todo \ {r}, task[c].back)
        PROVE  Goal
    <3>0. /\ UNCHANGED clientRooms /\ task[c].pc = "leaveNext"
          /\ rooms' = [rooms EXCEPT ![r] = rooms[r] \ {i}]
      BY <2>4, <2>i, Zenon DEF LeaveMembers
    <3>1. rooms[r] = Members(r) /\ rooms[r] \ {i} \in SUBSET Ids
      BY <2>4, MembersArePeers DEF RoomsShape
    <3>2. Members(r)' = Members(r) \ {i} /\ \A s \in RoomKeys \ {r} : Members(s)' = Members(s)
      BY <3>0, <3>1, MembersWritten DEF RoomsShape
    <3>3. /\ OthersStay(c) /\ task'[c].pc \in {"rmPresenceEmpty", "rmPresence"} /\ task'[c].id = i
          /\ task'[c].room = r /\ task'[c].todo = task[c].todo \ {r} /\ task'[c].back = task[c].back
      BY <2>4, <2>i DEF To
    <3>4. ASSUME KeepsRooms(i, c) PROVE KeepsRooms(i, c)'
      BY <3>0, <3>2, <3>3, <3>4, <2>0 DEF KeepsRooms, JoinPcs, Leaving, LeavePcs
    <3>5. Apart(i)
      BY <3>0, <3>2, <2>0 DEF Apart
    <3> QED
      BY <2>0, <2>1, <2>i, <3>3, <3>4, <3>5, <1>step
  <2>5. ASSUME LeavePresence(c), GoesTo(c, IF task[c].pc = "rmPresence" THEN "leaveIndex" ELSE "dropRoom")
        PROVE  Goal
    <3>1. UNCHANGED <<rooms, clientRooms>> /\ task[c].pc \in {"rmPresence", "rmPresenceEmpty"}
      BY <2>5 DEF LeavePresence, roomVars
    <3>2. /\ OthersStay(c) /\ task'[c].pc \in {"leaveIndex", "dropRoom"} /\ task'[c].id = i
          /\ task'[c].room = task[c].room /\ task'[c].todo = task[c].todo /\ task'[c].back = task[c].back
      BY <2>5, <2>i DEF GoesTo, To
    <3>3. ASSUME KeepsRooms(i, c) PROVE KeepsRooms(i, c)'
      BY <3>1, <3>2, <3>3, <2>0, <2>2, <1>mem DEF KeepsRooms, JoinPcs, Leaving, LeavePcs
    <3>4. Apart(i)
      BY <3>1, <2>0, <1>apart
    <3> QED
      BY <2>0, <2>1, <2>i, <3>2, <3>3, <3>4, <1>step
  <2>6. ASSUME DropRoom(c), GoesTo(c, "dropPresence")
        PROVE  Goal
    <3>1. UNCHANGED clientRooms /\ task[c].pc = "dropRoom"
      BY <2>6 DEF DropRoom
    <3> PICK r \in RoomKeys : r = task[c].room
      BY <3>1, <2>2 DEF LeavePcs
    <3>2. Members(r)' = {} /\ \A s \in RoomKeys \ {r} : Members(s)' = Members(s)
      BY <2>6, MembersWritten DEF DropRoom, RoomsShape
    <3>3. /\ OthersStay(c) /\ task'[c].pc = "dropPresence" /\ task'[c].id = i
          /\ task'[c].room = r /\ task'[c].todo = task[c].todo /\ task'[c].back = task[c].back
      BY <2>6, <2>i DEF GoesTo, To
    <3>4. ASSUME KeepsRooms(i, c) PROVE KeepsRooms(i, c)'
      BY <3>1, <3>2, <3>3, <3>4, <2>0 DEF KeepsRooms, JoinPcs, Leaving, LeavePcs
    <3>5. Apart(i)
      BY <3>1, <3>2, <2>0 DEF Apart
    <3> QED
      BY <2>0, <2>1, <2>i, <3>3, <3>4, <3>5, <1>step
  <2>7. ASSUME DropPresence(c), GoesTo(c, "leaveIndex")
        PROVE  Goal
    <3>1. UNCHANGED <<rooms, clientRooms>> /\ task[c].pc = "dropPresence"
      BY <2>7 DEF DropPresence, roomVars
    <3>2. /\ OthersStay(c) /\ task'[c].pc = "leaveIndex" /\ task'[c].id = i
          /\ task'[c].room = task[c].room /\ task'[c].todo = task[c].todo /\ task'[c].back = task[c].back
      BY <2>7, <2>i DEF GoesTo, To
    <3>3. ASSUME KeepsRooms(i, c) PROVE KeepsRooms(i, c)'
      BY <3>1, <3>2, <3>3, <2>0, <2>2, <1>mem DEF KeepsRooms, JoinPcs, Leaving, LeavePcs
    <3>4. Apart(i)
      BY <3>1, <2>0, <1>apart
    <3> QED
      BY <2>0, <2>1, <2>i, <3>2, <3>3, <3>4, <1>step
  <2>8. ASSUME LeaveIndex(c), To(c, "leaveNext", task[c].id, None, task[c].todo, task[c].back)
        PROVE  Goal
    <3>1. UNCHANGED rooms /\ task[c].pc = "leaveIndex"
      BY <2>8 DEF LeaveIndex
    <3> PICK r \in RoomKeys : r = task[c].room
      BY <3>1, <2>2 DEF LeavePcs
    <3>2. clientRooms'[i] = clientRooms[i] \ {r} /\ \A j \in Ids \ {i} : clientRooms'[j] = clientRooms[j]
      BY <2>8, <2>i DEF LeaveIndex, RoomsShape, RoomMaps
    <3>3. /\ OthersStay(c) /\ task'[c].pc = "leaveNext" /\ task'[c].id = i
          /\ task'[c].todo = task[c].todo /\ task'[c].back = task[c].back
      BY <2>8, <2>i DEF To
    <3>4. ASSUME KeepsRooms(i, c) PROVE KeepsRooms(i, c)'
      BY <3>1, <3>2, <3>3, <3>4, <2>0, <1>mem DEF KeepsRooms, JoinPcs, Leaving, LeavePcs
    <3>5. Apart(i)
      BY <3>1, <3>2, <2>0, <1>apart
    <3> QED
      BY <2>0, <2>1, <2>i, <3>3, <3>4, <3>5, <1>step
  <2>9. ASSUME LeaveDone(c), To(c, task[c].back, task[c].id, task[c].room, task[c].todo, None)
        PROVE  Goal
    <3>1. UNCHANGED <<rooms, clientRooms>> /\ task[c].pc = "leaveNext" /\ task[c].todo = {}
      BY <2>9 DEF LeaveDone, roomVars
    <3>2. OthersStay(c) /\ task'[c].pc = task[c].back /\ task'[c].id = i /\ task'[c].back = None
      BY <2>9, <2>i DEF To
    <3>3. ASSUME KeepsRooms(i, c) PROVE KeepsRooms(i, c)'
      BY <3>1, <3>2, <3>3, <2>0, <2>2, <1>mem DEF KeepsRooms, HasNoRoom, JoinPcs, Leaving, LeavePcs
    <3>4. Apart(i)
      BY <3>1, <2>0, <1>apart
    <3> QED
      BY <2>0, <2>1, <2>i, <3>2, <3>3, <3>4, <1>step
  <2> QED
    BY <1>1, <2>3, <2>4, <2>5, <2>6, <2>7, <2>8, <2>9, Zenon DEF LeaveMoves
<1>2. ASSUME NEW c \in Conns, SessionMoves(c)
      PROVE  Goal
  <2>t. /\ c \in Tasks
        /\ task[c].pc \notin {"off", "sleep", "expire"} => task[c].id \in Ids
        /\ task[c].pc = "off" => task[c].id = None
    BY <1>a, TaskKnows
  <2>1. ASSUME NEW id \in Ids, NEW pc \in {"unpend", "register"}, Connect(c, id),
               To(c, pc, id, task[c].room, task[c].todo, task[c].back)
        PROVE  Goal
    <3>1. /\ task[c].id = None
          /\ shared' = shared \cup {i \in {id} : \E d \in Conns \ {c} : task[d].id = i}
          /\ UNCHANGED <<rooms, clientRooms, wsSenders>>
      BY <2>1, <2>t DEF Connect, roomVars, sessionVars
    <3>2. OthersStay(c) /\ task'[c].id = id /\ task'[c].pc = pc
      BY <2>1 DEF To
    <3> SUFFICES ASSUME NEW j \in Ids \ shared' PROVE OneTask(j)'
      BY <1>goal
    <3>3. j \in Ids \ shared /\ j # None
      BY <3>1, RoomsDistinct
    <3>4. CASE j # id
      BY <3>1, <3>2, <3>3, <3>4, <1>mem, <1>other
    <3>5. CASE j = id
      <4>1. \A d \in Conns \ {c} : task[d].id # id
        BY <3>1, <3>5
      <4>2. HasNoRoom(id)
        BY <1>0, <3>1, <3>3, <3>5, <4>1 DEF OneTask
      <4>3. HasNoRoom(id)'
        BY <3>1, <4>2, <1>mem DEF HasNoRoom
      <4>4. \A d \in Conns : task'[d].id = id => d = c
        BY <3>2, <4>1, <1>a DEF OthersStay
      <4>5. KeepsRooms(id, c)'
        BY <3>2, <4>3 DEF KeepsRooms, HasNoRoom, JoinPcs, Leaving, LeavePcs
      <4> QED
        BY <3>2, <3>5, <4>3, <4>4, <4>5 DEF OneTask
    <3> QED
      BY <3>4, <3>5
  <2>2. ASSUME Register(c), GoesTo(c, "attach")
        PROVE  Goal
    <3>1. UNCHANGED <<rooms, clientRooms, wsSenders, shared>> /\ task[c].pc = "register"
      BY <2>2 DEF Register, roomVars
    <3>i. PICK i \in Ids : i = task[c].id
      BY <2>t, <3>1
    <3>2. OthersStay(c) /\ task'[c].pc = "attach" /\ task'[c].id = i
      BY <2>2, <3>i DEF GoesTo, To
    <3>3. ASSUME KeepsRooms(i, c) PROVE KeepsRooms(i, c)'
      BY <3>1, <3>2, <3>3, <1>mem DEF KeepsRooms, HasNoRoom, JoinPcs, Leaving, LeavePcs
    <3>4. Apart(i)
      BY <3>1, <1>apart
    <3> QED
      BY <3>i, <3>1, <3>2, <3>3, <3>4, <1>step
  <2>3. ASSUME CancelRemoval(c), GoesTo(c, "attach") \/ (pending[task[c].id] # None /\ OthersStay(c))
        PROVE  Goal
    <3>1. UNCHANGED <<rooms, clientRooms, wsSenders, shared>> /\ task[c].pc = "unpend"
      BY <2>3 DEF CancelRemoval, sessionVars
    <3>i. PICK i \in Ids : i = task[c].id
      BY <2>t, <3>1
    <3>2. OthersStay(c) /\ task'[c].pc = "attach" /\ task'[c].id = i
      BY <2>3, <3>i, <1>0 DEF GoesTo, To
    <3>3. ASSUME KeepsRooms(i, c) PROVE KeepsRooms(i, c)'
      BY <3>1, <3>2, <3>3, <1>mem DEF KeepsRooms, HasNoRoom, JoinPcs, Leaving, LeavePcs
    <3>4. Apart(i)
      BY <3>1, <1>apart
    <3> QED
      BY <3>i, <3>1, <3>2, <3>3, <3>4, <1>step
  <2>4. ASSUME Attach(c), GoesTo(c, "open")
        PROVE  Goal
    <3>1. UNCHANGED <<rooms, clientRooms, shared>> /\ task[c].pc = "attach"
      BY <2>4 DEF Attach, roomVars
    <3>i. PICK i \in Ids : i = task[c].id
      BY <2>t, <3>1
    <3>2. wsSenders'[i] = c /\ \A j \in Ids \ {i} : wsSenders'[j] = wsSenders[j]
      BY <2>4, <3>i DEF Attach, RoomsShape, RoomMaps
    <3>3. OthersStay(c) /\ task'[c].pc = "open" /\ task'[c].id = i
      BY <2>4, <3>i DEF GoesTo, To
    <3>4. ASSUME KeepsRooms(i, c) PROVE KeepsRooms(i, c)'
      BY <3>1, <3>2, <3>3, <3>4, <1>mem DEF KeepsRooms, HasNoRoom, JoinPcs, Leaving, LeavePcs
    <3>5. Apart(i)
      BY <3>1, <3>2, <1>mem DEF Apart
    <3> QED
      BY <3>i, <3>1, <3>3, <3>4, <3>5, <1>step
  <2>5. ASSUME Close(c), wsSenders[task[c].id] = c, GoesTo(c, "rmRooms")
        PROVE  Goal
    <3>1. UNCHANGED <<rooms, clientRooms, shared>> /\ task[c].pc = "open"
      BY <2>5 DEF Close, roomVars
    <3>i. PICK i \in Ids : i = task[c].id
      BY <2>t, <3>1
    <3>2. \A j \in Ids \ {i} : wsSenders'[j] = wsSenders[j]
      BY <2>5, <3>i DEF Close, RoomsShape, RoomMaps
    <3>3. OthersStay(c) /\ task'[c].pc = "rmRooms" /\ task'[c].id = i
      BY <2>5, <3>i DEF GoesTo, To
    <3>4. ASSUME KeepsRooms(i, c) PROVE KeepsRooms(i, c)'
      BY <3>1, <3>3, <3>4, <1>mem DEF KeepsRooms, JoinPcs, Leaving, LeavePcs
    <3>5. Apart(i)
      BY <3>1, <3>2, <1>mem DEF Apart
    <3> QED
      BY <3>i, <3>1, <3>3, <3>4, <3>5, <1>step
  \* Another socket's channel is stored: the id is shared.
  <2>6. ASSUME Close(c), wsSenders[task[c].id] # c, To(c, "off", None, None, {}, None)
        PROVE  Goal
    <3>1. UNCHANGED <<rooms, clientRooms, wsSenders, shared>> /\ task[c].pc = "open"
      BY <2>6 DEF Close, roomVars
    <3>i. PICK i \in Ids : i = task[c].id
      BY <2>t, <3>1
    <3>2. OthersStay(c) /\ task'[c].id = None
      BY <2>6 DEF To
    <3>3. ~KeepsRooms(i, c)
      BY <2>6, <3>1, <3>i DEF KeepsRooms
    <3>4. Apart(i)
      BY <3>1, <1>apart
    <3> QED
      BY <3>i, <3>1, <3>2, <3>3, <3>4, <1>gone
  <2>7. ASSUME TakeIndex(c),
               To(c, CASE clientRooms[task[c].id] = {} -> "rmRegistry"
                       [] SessionTtlOn -> "pend"
                       [] OTHER -> "leaveNext",
                  task[c].id, task[c].room, clientRooms[task[c].id], "rmRegistry")
        PROVE  Goal
    <3>1. /\ UNCHANGED <<rooms, wsSenders, shared>> /\ task[c].pc = "rmRooms"
          /\ clientRooms' = [clientRooms EXCEPT ![task[c].id] = {}]
      BY <2>7, Zenon DEF TakeIndex, sessionVars
    <3>i. PICK i \in Ids : i = task[c].id
      BY <2>t, <3>1
    <3>2. clientRooms'[i] = {} /\ \A j \in Ids \ {i} : clientRooms'[j] = clientRooms[j]
      BY <3>1, <3>i DEF RoomsShape, RoomMaps
    <3>3. /\ OthersStay(c) /\ task'[c].id = i
          /\ task'[c].todo = clientRooms[i] /\ task'[c].back = "rmRegistry"
          /\ \/ clientRooms[i] = {} /\ task'[c].pc = "rmRegistry"
             \/ clientRooms[i] # {} /\ task'[c].pc = "leaveNext"
      BY <2>7, <3>i DEF To
    <3>4. ASSUME KeepsRooms(i, c) PROVE KeepsRooms(i, c)'
      BY <3>1, <3>2, <3>3, <3>4, <1>mem DEF KeepsRooms, HasNoRoom, JoinPcs, Leaving, LeavePcs
    <3>5. Apart(i)
      BY <3>1, <3>2, <1>apart
    <3> QED
      BY <3>i, <3>1, <3>3, <3>4, <3>5, <1>step
  <2>8. ASSUME RemoveRegistry(c), To(c, "off", None, None, {}, None)
        PROVE  Goal
    <3>1. UNCHANGED <<rooms, clientRooms, wsSenders, shared>> /\ task[c].pc = "rmRegistry"
      BY <2>8 DEF RemoveRegistry, roomVars
    <3>i. PICK i \in Ids : i = task[c].id
      BY <2>t, <3>1
    <3>2. OthersStay(c) /\ task'[c].id = None
      BY <2>8 DEF To
    <3>3. KeepsRooms(i, c) => HasNoRoom(i)'
      BY <3>1, <1>mem DEF KeepsRooms, HasNoRoom
    <3>4. Apart(i)
      BY <3>1, <1>apart
    <3> QED
      BY <3>i, <3>1, <3>2, <3>3, <3>4, <1>gone
  <2>9. CASE (\E r \in RoomKeys : RestoreRoom(c, r)) \/ RestoreIndex(c) \/ ScheduleRemoval(c)
    BY <2>9, <1>0 DEF RestoreRoom, RestoreIndex, ScheduleRemoval
  <2> QED
    BY <1>2, <2>1, <2>2, <2>3, <2>4, <2>5, <2>6, <2>7, <2>8, <2>9, Zenon DEF SessionMoves
<1>3. ASSUME NEW c \in Conns, JoinMoves(c)
      PROVE  Goal
  <2>t. /\ c \in Tasks
        /\ task[c].pc \notin {"off", "sleep", "expire"} => task[c].id \in Ids
        /\ task[c].pc \in JoinPcs => task[c].room \in RoomKeys
    BY <1>a, TaskKnows
  <2>1. ASSUME NEW r \in RoomKeys, NEW pc \in {"joinTotal", "joinSize"}, JoinCheckClient(c, r),
               To(c, pc, task[c].id, r, task[c].todo, task[c].back)
        PROVE  Goal
    <3>1. UNCHANGED <<rooms, clientRooms, wsSenders, shared>> /\ task[c].pc = "open"
      BY <2>1, Zenon DEF JoinCheckClient, roomVars, sessionVars
    <3>i. PICK i \in Ids : i = task[c].id
      BY <2>t, <3>1
    <3>2. OthersStay(c) /\ task'[c].pc = pc /\ task'[c].id = i
      BY <2>1, <3>i DEF To
    <3>3. ASSUME KeepsRooms(i, c) PROVE KeepsRooms(i, c)'
      BY <3>1, <3>2, <3>3, <1>mem DEF KeepsRooms, JoinPcs, Leaving, LeavePcs
    <3>4. Apart(i)
      BY <3>1, <1>apart
    <3> QED
      BY <3>i, <3>1, <3>2, <3>3, <3>4, <1>step
  <2>2. ASSUME JoinCheckTotal(c) \/ JoinCheckSize(c),
               GoesTo(c, "joinSize") \/ GoesTo(c, "joinEnter") \/ Reopens(c)
        PROVE  Goal
    <3>1. UNCHANGED <<rooms, clientRooms, wsSenders, shared>> /\ task[c].pc \in {"joinTotal", "joinSize"}
      BY <2>2, Zenon DEF JoinCheckTotal, JoinCheckSize, roomVars, sessionVars
    <3>i. PICK i \in Ids : i = task[c].id
      BY <2>t, <3>1
    <3>2. OthersStay(c) /\ task'[c].pc \in {"joinSize", "joinEnter", "open"} /\ task'[c].id = i
      BY <2>2, <3>i DEF GoesTo, Reopens, To
    <3>3. ASSUME KeepsRooms(i, c) PROVE KeepsRooms(i, c)'
      BY <3>1, <3>2, <3>3, <1>mem DEF KeepsRooms, JoinPcs, Leaving, LeavePcs
    <3>4. Apart(i)
      BY <3>1, <1>apart
    <3> QED
      BY <3>i, <3>1, <3>2, <3>3, <3>4, <1>step
  <2>3. ASSUME JoinEnter(c), GoesTo(c, "joinIndex")
        PROVE  Goal
    <3>1. UNCHANGED <<clientRooms, wsSenders, shared>> /\ task[c].pc = "joinEnter"
      BY <2>3 DEF JoinEnter, sessionVars
    <3>i. PICK i \in Ids, r \in RoomKeys : i = task[c].id /\ r = task[c].room
      BY <2>t, <3>1 DEF JoinPcs
    <3>2. Members(r) \cup {i} \in SUBSET Ids /\ rooms' = [rooms EXCEPT ![r] = Members(r) \cup {i}]
      BY <2>3, <3>i, MembersArePeers DEF JoinEnter, RoomsShape
    <3>3. Members(r)' = Members(r) \cup {i} /\ \A s \in RoomKeys \ {r} : Members(s)' = Members(s)
      BY <3>2, MembersWritten DEF RoomsShape
    <3>4. OthersStay(c) /\ task'[c].pc = "joinIndex" /\ task'[c].id = i /\ task'[c].room = r
      BY <2>3, <3>i DEF GoesTo, To
    <3>5. ASSUME KeepsRooms(i, c) PROVE KeepsRooms(i, c)'
      BY <3>1, <3>3, <3>4, <3>5 DEF KeepsRooms, JoinPcs, Leaving, LeavePcs
    <3>6. Apart(i)
      BY <3>1, <3>3 DEF Apart
    <3> QED
      BY <3>i, <3>1, <3>4, <3>5, <3>6, <1>step
  <2>4. ASSUME JoinIndex(c), Reopens(c)
        PROVE  Goal
    <3>1. UNCHANGED <<rooms, wsSenders, shared>> /\ task[c].pc = "joinIndex"
      BY <2>4 DEF JoinIndex, sessionVars
    <3>i. PICK i \in Ids, r \in RoomKeys : i = task[c].id /\ r = task[c].room
      BY <2>t, <3>1 DEF JoinPcs
    <3>2. clientRooms'[i] = clientRooms[i] \cup {r} /\ \A j \in Ids \ {i} : clientRooms'[j] = clientRooms[j]
      BY <2>4, <3>i DEF JoinIndex, RoomsShape, RoomMaps
    <3>3. OthersStay(c) /\ task'[c].pc = "open" /\ task'[c].id = i
      BY <2>4, <3>i DEF Reopens, To
    <3>4. ASSUME KeepsRooms(i, c) PROVE KeepsRooms(i, c)'
      BY <3>i, <3>1, <3>2, <3>3, <3>4, <1>mem DEF KeepsRooms, JoinPcs, Leaving, LeavePcs
    <3>5. Apart(i)
      BY <3>1, <3>2, <1>apart
    <3> QED
      BY <3>i, <3>1, <3>3, <3>4, <3>5, <1>step
  <2>5. ASSUME NEW r \in RoomKeys, RoomLeave(c, r), To(c, "leaveNext", task[c].id, task[c].room, {r}, "open")
        PROVE  Goal
    <3>1. UNCHANGED <<rooms, clientRooms, wsSenders, shared>> /\ task[c].pc = "open"
      BY <2>5 DEF RoomLeave, roomVars, sessionVars
    <3>i. PICK i \in Ids : i = task[c].id
      BY <2>t, <3>1
    <3>2. OthersStay(c) /\ task'[c].pc = "leaveNext" /\ task'[c].id = i /\ task'[c].back = "open"
      BY <2>5, <3>i DEF To
    <3>3. ASSUME KeepsRooms(i, c) PROVE KeepsRooms(i, c)'
      BY <3>1, <3>2, <3>3, <1>mem DEF KeepsRooms, JoinPcs, Leaving, LeavePcs
    <3>4. Apart(i)
      BY <3>1, <1>apart
    <3> QED
      BY <3>i, <3>1, <3>2, <3>3, <3>4, <1>step
  <2>6. ASSUME NEW r \in RoomKeys, PresenceUpdate(c, r)
        PROVE  Goal
    <3>1. UNCHANGED <<rooms, clientRooms, wsSenders, task, shared>>
      BY <2>6, Zenon DEF PresenceUpdate, roomVars, sessionVars
    <3> QED
      BY <3>1, <1>same
  <2> QED
    BY <1>3, <2>1, <2>2, <2>3, <2>4, <2>5, <2>6, Zenon DEF JoinMoves
<1>4. CASE CollectExpired \/ ExpiryDone \/ \E id \in Ids : ExpireSession(id)
  <2>1. FALSE
    BY <1>4, <1>0, Zenon DEF CollectExpired, ExpiryDone, ExpireSession
  <2> QED
    BY <2>1
\* An evicted id counts as shared from then on.
<1>5. ASSUME NEW id \in Ids, Evict(id)
      PROVE  Goal
  <2>1. UNCHANGED <<rooms, clientRooms, task>> /\ shared' = shared \cup {id}
    BY <1>5 DEF Evict, roomVars
  <2>2. \A j \in Ids \ {id} : wsSenders'[j] = wsSenders[j]
    BY <1>5 DEF Evict, RoomsShape, RoomMaps
  <2> QED
    BY <2>1, <2>2, <1>same
<1>6. ASSUME NEW id \in Ids, TtlExpires(id)
      PROVE  Goal
  BY <1>6, <1>0 DEF TtlExpires
<1>7. CASE UNCHANGED vars
  BY <1>7, <1>same DEF vars
<1> QED
  BY <1>1, <1>2, <1>3, <1>4, <1>5, <1>6, <1>7, Zenon DEF RoomMoves

-----------------------------------------------------------------------------
(* The theorems.                                                           *)

\* Every reachable state is typed: the maps of AppState hold what their types
\* say, and a task that joins or leaves a room has a peer and a room to do it
\* for, whatever the order of connections, joins, evictions and expiries.
THEOREM RoomsTypeCorrect == Spec => []RoomsTypeOK
<1>1. ASSUME RoomsShape PROVE RoomsTypeOK
  <2>1. ASSUME NEW t \in Tasks
        PROVE  /\ task[t].pc \in RoomPcs
               /\ task[t].pc \notin {"off", "sleep", "expire"} => task[t].id \in Ids
               /\ task[t].pc \in JoinPcs \cup LeavePcs => task[t].room \in RoomKeys
    BY <1>1, TaskKnows
  <2> QED
    BY <1>1, <2>1 DEF RoomsShape, RoomMaps, RoomsTypeOK, JoinPcs
<1> QED
  BY <1>1, AlwaysRoomsShape, PTL

\* An empty room is in the map only while the task of remove_client_from_room
\* that emptied it is about to delete it, with any number of tasks in that
\* function and in handle_room_join at once.
THEOREM EmptyRoomsGo == Spec => []EmptyRoomIsDeleted
<1>1. Init => EmptyRoomIsDeleted
  BY RoomsDistinct DEF Init, EmptyRoomIsDeleted
<1>2. RoomsShape /\ EmptyRoomIsDeleted /\ [Next]_vars => EmptyRoomIsDeleted'
  BY RoomSteps, RoomEffects, NextEmptyRoom
<1> QED
  BY <1>1, <1>2, AlwaysRoomsShape, PTL DEF Spec

\* Presence data stored by a member outlives the membership only while a task
\* of remove_client_from_room is on its way to remove it.
THEOREM PresenceFollowsMembership == Spec => []PresenceOfMembers
<1>1. ASSUME Init PROVE PresenceOfMembers
  <2>1. \A r \in RoomKeys, id \in Ids : presence[r][id] # "member"
    BY <1>1, RoomsDistinct DEF Init, NoPresence
  <2> QED
    BY <2>1 DEF PresenceOfMembers
<1>2. RoomsShape /\ PresenceOfMembers /\ [Next]_vars => PresenceOfMembers'
  BY RoomSteps, RoomEffects, NextPresence
<1> QED
  BY <1>1, <1>2, AlwaysRoomsShape, PTL DEF Spec

\* Every reachable state keeps what is known of an id that one task at a time
\* has served.
LEMMA AlwaysSessionInv == Spec => [](RoomsShape /\ NoTtl /\ SessionInv)
<1>1. Init => RoomsShape /\ NoTtl /\ SessionInv
  BY InitRoomsShape
<1>2. RoomsShape /\ NoTtl /\ SessionInv /\ [Next]_vars => (RoomsShape /\ NoTtl /\ SessionInv)'
  BY RoomSteps, NextNoTtl, NextSessionInv
<1> QED
  BY <1>1, <1>2, PTL DEF Spec

\* Without a session TTL a room's member is in client_rooms, or its own task is
\* about to write it there or to take it out of the room: for an id that one
\* task at a time has served, a disconnection finds all its rooms.
THEOREM MembersAreIndexed == Spec => []MemberIsIndexed
<1>1. ASSUME RoomsShape, SessionInv PROVE MemberIsIndexed
  <2> SUFFICES ASSUME ~SessionTtlOn, NEW id \in Ids \ shared, NEW r \in RoomKeys, id \in Members(r)
               PROVE  \/ r \in clientRooms[id]
                      \/ \E c \in Conns :
                            /\ task[c].id = id
                            /\ \/ task[c].pc = "joinIndex" /\ task[c].room = r
                               \/ task[c].pc \in Leaving /\ r \in task[c].todo
    BY DEF MemberIsIndexed, Leaving
  <2>1. OneTask(id)
    BY <1>1 DEF SessionInv
  <2> PICK c \in Conns : task[c].id = id
    BY <2>1 DEF OneTask, HasNoRoom
  <2>2. KeepsRooms(id, c)
    BY <2>1 DEF OneTask
  <2> QED
    BY <2>2 DEF KeepsRooms
<1> QED
  BY <1>1, AlwaysSessionInv, PTL

\* Without a session TTL an id whose only socket is gone is in no room and has
\* no index, whatever other members of its rooms did while it left.
THEOREM AbsentPeersHaveNoRoom == Spec => []AbsentHasNoRoom
<1>1. ASSUME SessionInv PROVE AbsentHasNoRoom
  BY <1>1 DEF SessionInv, OneTask, HasNoRoom, AbsentHasNoRoom
<1> QED
  BY <1>1, AlwaysSessionInv, PTL
=============================================================================
