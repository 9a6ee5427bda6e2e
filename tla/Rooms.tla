------------------------------- MODULE Rooms -------------------------------
(***************************************************************************)
(* Room membership: the handlers of handlers/message.rs that keep `rooms`, *)
(* its reverse index `client_rooms` and `pending_removals`, and the parts  *)
(* of handlers/ws.rs that restore and end the rooms of a session.          *)
(*                                                                         *)
(* The three maps are independent DashMaps.  A handler takes one of them at *)
(* a time, so that each access is an action and a handler is a sequence of *)
(* actions.  Sessions describes the session maps and their races in full;  *)
(* here a session is whether its id is known to memory and to Redis, and   *)
(* whose channel is stored.  A room is its stored, tenant-namespaced key.  *)
(***************************************************************************)
EXTENDS Integers, FiniteSets

CONSTANTS
    Conns,              \* sockets
    Ids,                \* peer ids
    RoomKeys,           \* stored room keys
    None,
    CheckBroken,        \* the task that runs cleanup_expired_sessions
    SessionTtlOn,       \* config.session_ttl > 0
    EvictionOn,         \* peers may be evicted, send LEAVE or lose their writer
    PresenceOn,         \* peers send PRESENCE-UPDATE
    MaxRoomsPerClient,  \* config.max_rooms_per_client, 0 = unlimited
    MaxTotalRooms,      \* config.max_total_rooms, 0 = unlimited
    MaxRoomSize         \* config.max_room_size, 0 = unlimited

ASSUME RoomsFinite == IsFiniteSet(Conns) /\ IsFiniteSet(Ids) /\ IsFiniteSet(RoomKeys)
ASSUME RoomsDistinct ==
    /\ None \notin Conns \cup Ids \cup RoomKeys \cup {"member", "stray"}
    /\ None \notin [rooms : SUBSET RoomKeys, expired : BOOLEAN]
    /\ \A S \in SUBSET Ids : S # None
    /\ CheckBroken \notin Conns
ASSUME RoomsLimits ==
    MaxRoomsPerClient \in Nat /\ MaxTotalRooms \in Nat /\ MaxRoomSize \in Nat
ASSUME RoomsFlags == {SessionTtlOn, EvictionOn, PresenceOn} \subseteq BOOLEAN

VARIABLES
    rooms,        \* AppState.rooms: key -> members, or None
    clientRooms,  \* AppState.client_rooms: id -> room keys ({}: no entry)
    pending,      \* AppState.pending_removals: id -> rooms and whether the TTL ran out, or None
    wsSenders,    \* AppState.ws_senders: id -> socket, or None
    registry,     \* ids with a token in Redis
    presence,     \* AppState.presence: key -> id -> whether the data was stored by a
                  \* member of the room or a stray, or None
    task,         \* what each socket's task and check_broken are doing
    shared        \* history, kept without a session TTL: ids that two tasks
                  \* have served at once, or that were evicted

roomVars == <<rooms, clientRooms, pending>>
sessionVars == <<wsSenders, registry>>
vars == <<rooms, clientRooms, pending, wsSenders, registry, task, presence, shared>>

Tasks == Conns \cup {CheckBroken}

\* pc: the place in the code; id: on whose behalf; room: the room being
\* joined or left; todo: rooms of a removal or restoration
\* still to do; back: where to go after a removal; list: the rooms restored,
\* or the sessions still to expire.
Idle(place) ==
    [pc |-> place, id |-> None, room |-> None, todo |-> {}, back |-> None, list |-> {}]

Members(r) == IF rooms[r] = None THEN {} ELSE rooms[r]

NoPresence == [id \in Ids |-> None]

Init ==
    /\ rooms = [r \in RoomKeys |-> None]
    /\ clientRooms = [id \in Ids |-> {}]
    /\ pending = [id \in Ids |-> None]
    /\ wsSenders = [id \in Ids |-> None]
    /\ registry = {}
    /\ presence = [r \in RoomKeys |-> NoPresence]
    /\ task = [t \in Tasks |-> Idle(IF t = CheckBroken THEN "sleep" ELSE "off")]
    /\ shared = {}

\* The session is in memory (an entry of clients, taken to come and go with
\* the stored channel) or in Redis.
Known(id) == wsSenders[id] # None \/ id \in registry

Goto(t, place) == task' = [task EXCEPT ![t].pc = place]

-----------------------------------------------------------------------------
(* Sessions, as far as rooms depend on them.                               *)

\* handle_socket finds the id's token in memory or in Redis: a reconnection,
\* or a new client, for which no pending removal is looked at.
Connect(c, id) ==
    /\ task[c].pc = "off"
    /\ task' = [task EXCEPT ![c].pc = IF Known(id) THEN "unpend" ELSE "register", ![c].id = id]
    /\ shared' = shared \cup {i \in {id} : ~SessionTtlOn /\ \E d \in Conns \ {c} : task[d].id = i}
    /\ UNCHANGED <<roomVars, sessionVars, presence>>

Register(c) ==
    /\ task[c].pc = "register"
    /\ registry' = registry \cup {task[c].id}
    /\ Goto(c, "attach")
    /\ UNCHANGED <<roomVars, wsSenders, presence, shared>>

\* A valid reconnection cancels the pending removal ...
CancelRemoval(c) ==
    /\ task[c].pc = "unpend"
    /\ \/ /\ pending[task[c].id] = None
          /\ Goto(c, "attach")
       \/ /\ pending[task[c].id] # None
          /\ task' = [task EXCEPT ![c].pc = "restore",
                                  ![c].todo = pending[task[c].id].rooms,
                                  ![c].list = pending[task[c].id].rooms]
    /\ pending' = [pending EXCEPT ![task[c].id] = None]
    /\ UNCHANGED <<rooms, clientRooms, sessionVars, presence, shared>>

\* ... enters the rooms again, one by one, ...
RestoreRoom(c, r) ==
    /\ task[c].pc = "restore"
    /\ r \in task[c].todo
    /\ rooms' = [rooms EXCEPT ![r] = Members(r) \cup {task[c].id}]
    /\ task' = [task EXCEPT ![c].todo = @ \ {r}]
    /\ UNCHANGED <<clientRooms, pending, sessionVars, presence, shared>>

\* ... and overwrites the index.
RestoreIndex(c) ==
    /\ task[c].pc = "restore"
    /\ task[c].todo = {}
    /\ clientRooms' = [clientRooms EXCEPT ![task[c].id] = task[c].list]
    /\ task' = [task EXCEPT ![c].pc = "attach", ![c].list = {}]
    /\ UNCHANGED <<rooms, pending, sessionVars, presence, shared>>

Attach(c) ==
    /\ task[c].pc = "attach"
    /\ wsSenders' = [wsSenders EXCEPT ![task[c].id] = c]
    /\ Goto(c, "open")
    /\ UNCHANGED <<roomVars, registry, presence, shared>>

\* check_broken, LEAVE and a dead writer forget a session but none of its
\* rooms; its read loop goes on.
Evict(id) ==
    /\ EvictionOn
    /\ wsSenders[id] # None
    /\ wsSenders' = [wsSenders EXCEPT ![id] = None]
    /\ registry' = registry \ {id}
    /\ shared' = shared \cup {i \in {id} : ~SessionTtlOn}
    /\ UNCHANGED <<roomVars, presence, task>>

\* The read loop ends; cleanup only for the socket whose channel is stored.
Close(c) ==
    /\ task[c].pc = "open"
    /\ \/ /\ wsSenders[task[c].id] = c
          /\ wsSenders' = [wsSenders EXCEPT ![task[c].id] = None]
          /\ Goto(c, "rmRooms")
       \/ /\ wsSenders[task[c].id] # c
          /\ task' = [task EXCEPT ![c] = Idle("off")]
          /\ UNCHANGED wsSenders
    /\ UNCHANGED <<roomVars, registry, presence, shared>>

\* Mutant: the index is dropped and the rooms with it.
TakeIndexForgets(c) ==
    /\ task[c].pc = "rmRooms"
    /\ Goto(c, "rmRegistry")
    /\ clientRooms' = [clientRooms EXCEPT ![task[c].id] = {}]
    /\ UNCHANGED <<rooms, pending, sessionVars, presence, shared>>

\* remove_client_from_all_rooms: take the index; with a session TTL the rooms
\* become a pending removal, otherwise they are left at once.
TakeIndex(c) ==
    /\ task[c].pc = "rmRooms"
    /\ LET mine == clientRooms[task[c].id]
       IN  task' = [task EXCEPT ![c].pc = CASE mine = {} -> "rmRegistry"
                                            [] SessionTtlOn -> "pend"
                                            [] OTHER -> "leaveNext",
                                ![c].todo = mine,
                                ![c].back = "rmRegistry"]
    /\ clientRooms' = [clientRooms EXCEPT ![task[c].id] = {}]
    /\ UNCHANGED <<rooms, pending, sessionVars, presence, shared>>

ScheduleRemoval(c) ==
    /\ task[c].pc = "pend"
    /\ pending' = [pending EXCEPT ![task[c].id] = [rooms |-> task[c].todo, expired |-> FALSE]]
    /\ task' = [task EXCEPT ![c].pc = "rmRegistry", ![c].todo = {}]
    /\ UNCHANGED <<rooms, clientRooms, sessionVars, presence, shared>>

RemoveRegistry(c) ==
    /\ task[c].pc = "rmRegistry"
    /\ registry' = registry \ {task[c].id}
    /\ task' = [task EXCEPT ![c] = Idle("off")]
    /\ UNCHANGED <<roomVars, wsSenders, presence, shared>>

-----------------------------------------------------------------------------
(* handle_room_join.  A join that is refused for its name, by the JWT or by *)
(* a limit changes nothing.                                                *)

\* The client's own limit, unless it is a member already.
JoinCheckClient(c, r) ==
    /\ task[c].pc = "open"
    /\ LET mine == clientRooms[task[c].id]
       IN  /\ \/ r \in mine
              \/ MaxRoomsPerClient = 0
              \/ Cardinality(mine) < MaxRoomsPerClient
           /\ task' = [task EXCEPT ![c].pc = IF r \in mine THEN "joinSize" ELSE "joinTotal",
                                   ![c].room = r]
    /\ UNCHANGED <<roomVars, sessionVars, presence, shared>>

\* Refused, the handler replies ROOM-JOIN-DENIED and returns to the read loop.
JoinGoesOn(c, allowed, place) ==
    task' = IF allowed THEN [task EXCEPT ![c].pc = place]
                       ELSE [task EXCEPT ![c].pc = "open", ![c].room = None]

TotalAllows(r) ==
    \/ MaxTotalRooms = 0
    \/ rooms[r] # None
    \/ Cardinality({k \in RoomKeys : rooms[k] # None}) < MaxTotalRooms

JoinCheckTotal(c) ==
    /\ task[c].pc = "joinTotal"
    /\ JoinGoesOn(c, TotalAllows(task[c].room), "joinSize")
    /\ UNCHANGED <<roomVars, sessionVars, presence, shared>>

SizeAllows(r) ==
    \/ MaxRoomSize = 0
    \/ Cardinality(Members(r)) < MaxRoomSize

JoinCheckSize(c) ==
    /\ task[c].pc = "joinSize"
    /\ JoinGoesOn(c, SizeAllows(task[c].room), "joinEnter")
    /\ UNCHANGED <<roomVars, sessionVars, presence, shared>>

JoinEnter(c) ==
    /\ task[c].pc = "joinEnter"
    /\ rooms' = [rooms EXCEPT ![task[c].room] = Members(task[c].room) \cup {task[c].id}]
    /\ Goto(c, "joinIndex")
    /\ UNCHANGED <<clientRooms, pending, sessionVars, presence, shared>>

\* Mutant: a join leaves the reverse index alone.
JoinIndexSkipped(c) ==
    /\ task[c].pc = "joinIndex"
    /\ task' = [task EXCEPT ![c].pc = "open", ![c].room = None]
    /\ UNCHANGED <<roomVars, sessionVars, presence, shared>>

JoinIndex(c) ==
    /\ task[c].pc = "joinIndex"
    /\ clientRooms' = [clientRooms EXCEPT ![task[c].id] = @ \cup {task[c].room}]
    /\ task' = [task EXCEPT ![c].pc = "open", ![c].room = None]
    /\ UNCHANGED <<rooms, pending, sessionVars, presence, shared>>

\* handle_presence_update stores the data whether or not its sender is a member.
PresenceUpdate(c, r) ==
    /\ PresenceOn
    /\ task[c].pc = "open"
    /\ presence' = [presence EXCEPT ![r][task[c].id] =
                        IF task[c].id \in Members(r) THEN "member" ELSE "stray"]
    /\ UNCHANGED <<roomVars, sessionVars, task, shared>>

-----------------------------------------------------------------------------
(* remove_client_from_room, for ROOM-LEAVE, a disconnection without TTL and *)
(* an expired session.                                                     *)

RoomLeave(c, r) ==
    /\ task[c].pc = "open"
    /\ task' = [task EXCEPT ![c].pc = "leaveNext", ![c].todo = {r}, ![c].back = "open"]
    /\ UNCHANGED <<roomVars, sessionVars, presence, shared>>

\* The member is taken out of the set, and room_empty computed; a room that is
\* gone ends the removal before it reaches the index.
LeaveMembers(t, r) ==
    /\ task[t].pc = "leaveNext"
    /\ r \in task[t].todo
    /\ \/ /\ rooms[r] = None
          /\ task' = [task EXCEPT ![t].todo = @ \ {r}]
          /\ UNCHANGED rooms
       \/ /\ rooms[r] # None
          /\ rooms' = [rooms EXCEPT ![r] = @ \ {task[t].id}]
          /\ task' = [task EXCEPT ![t].todo = @ \ {r}, ![t].room = r,
                                  ![t].pc = IF rooms'[r] = {} THEN "rmPresenceEmpty" ELSE "rmPresence"]
    /\ UNCHANGED <<clientRooms, pending, sessionVars, presence, shared>>

LeavePresence(t) ==
    /\ task[t].pc \in {"rmPresence", "rmPresenceEmpty"}
    /\ presence' = [presence EXCEPT ![task[t].room][task[t].id] = None]
    /\ Goto(t, IF task[t].pc = "rmPresence" THEN "leaveIndex" ELSE "dropRoom")
    /\ UNCHANGED <<roomVars, sessionVars, shared>>

\* Mutant: the empty room stays in the map.
DropRoomKeeps(t) ==
    /\ task[t].pc = "dropRoom"
    /\ Goto(t, "dropPresence")
    /\ UNCHANGED <<roomVars, sessionVars, presence, shared>>

\* room_empty was computed under a lock that is long released.
DropRoom(t) ==
    /\ task[t].pc = "dropRoom"
    /\ rooms' = [rooms EXCEPT ![task[t].room] = None]
    /\ Goto(t, "dropPresence")
    /\ UNCHANGED <<clientRooms, pending, sessionVars, presence, shared>>

\* Mutant: the presence map of a deleted room stays.
DropPresenceKeeps(t) ==
    /\ task[t].pc = "dropPresence"
    /\ Goto(t, "leaveIndex")
    /\ UNCHANGED <<roomVars, sessionVars, presence, shared>>

DropPresence(t) ==
    /\ task[t].pc = "dropPresence"
    /\ presence' = [presence EXCEPT ![task[t].room] = NoPresence]
    /\ Goto(t, "leaveIndex")
    /\ UNCHANGED <<roomVars, sessionVars, shared>>

\* Mutant: the room is forgotten too early, before the index is cleaned.
LeaveIndexUnknownRoom(t) ==
    /\ task[t].pc = "leaveIndex"
    /\ task' = [task EXCEPT ![t].room = None]
    /\ UNCHANGED <<roomVars, sessionVars, presence, shared>>

LeaveIndex(t) ==
    /\ task[t].pc = "leaveIndex"
    /\ clientRooms' = [clientRooms EXCEPT ![task[t].id] = @ \ {task[t].room}]
    /\ task' = [task EXCEPT ![t].pc = "leaveNext", ![t].room = None]
    /\ UNCHANGED <<rooms, pending, sessionVars, presence, shared>>

LeaveDone(t) ==
    /\ task[t].pc = "leaveNext"
    /\ task[t].todo = {}
    /\ task' = [task EXCEPT ![t].pc = task[t].back, ![t].back = None]
    /\ UNCHANGED <<roomVars, sessionVars, presence, shared>>

-----------------------------------------------------------------------------
(* cleanup_expired_sessions                                                *)

\* session_ttl passes after a disconnection.
TtlExpires(id) ==
    /\ pending[id] # None
    /\ ~pending[id].expired
    /\ pending' = [pending EXCEPT ![id].expired = TRUE]
    /\ UNCHANGED <<rooms, clientRooms, sessionVars, task, presence, shared>>

CollectExpired ==
    /\ SessionTtlOn
    /\ task[CheckBroken].pc = "sleep"
    /\ LET expired == {id \in Ids : pending[id] # None /\ pending[id].expired}
       IN  /\ expired # {}
           /\ task' = [task EXCEPT ![CheckBroken].pc = "expire", ![CheckBroken].list = expired]
    /\ UNCHANGED <<roomVars, sessionVars, presence, shared>>

\* Mutant: the pending removal is carried out but stays in the map.
ExpireSessionKeeps(id) ==
    /\ task[CheckBroken].pc = "expire"
    /\ id \in task[CheckBroken].list
    /\ \/ /\ pending[id] = None
          /\ task' = [task EXCEPT ![CheckBroken].list = @ \ {id}]
       \/ /\ pending[id] # None
          /\ task' = [task EXCEPT ![CheckBroken].list = @ \ {id},
                                  ![CheckBroken].id = id,
                                  ![CheckBroken].todo = pending[id].rooms,
                                  ![CheckBroken].back = "expire",
                                  ![CheckBroken].pc = "leaveNext"]
    /\ UNCHANGED <<roomVars, sessionVars, presence, shared>>

\* The removal of a collected id takes whatever is pending by now.
ExpireSession(id) ==
    /\ task[CheckBroken].pc = "expire"
    /\ id \in task[CheckBroken].list
    /\ \/ /\ pending[id] = None
          /\ task' = [task EXCEPT ![CheckBroken].list = @ \ {id}]
       \/ /\ pending[id] # None
          /\ task' = [task EXCEPT ![CheckBroken].list = @ \ {id},
                                  ![CheckBroken].id = id,
                                  ![CheckBroken].todo = pending[id].rooms,
                                  ![CheckBroken].back = "expire",
                                  ![CheckBroken].pc = "leaveNext"]
    /\ pending' = [pending EXCEPT ![id] = None]
    /\ UNCHANGED <<rooms, clientRooms, sessionVars, presence, shared>>

ExpiryDone ==
    /\ task[CheckBroken].pc = "expire"
    /\ task[CheckBroken].list = {}
    /\ task' = [task EXCEPT ![CheckBroken] = Idle("sleep")]
    /\ UNCHANGED <<roomVars, sessionVars, presence, shared>>

-----------------------------------------------------------------------------
LeaveSteps(t) ==
    \/ \E r \in RoomKeys : LeaveMembers(t, r)
    \/ LeavePresence(t)
    \/ DropRoom(t)
    \/ DropPresence(t)
    \/ LeaveIndex(t)
    \/ LeaveDone(t)

\* What a socket's task does by itself.
SocketSteps(c) ==
    \/ Register(c)
    \/ CancelRemoval(c)
    \/ \E r \in RoomKeys : RestoreRoom(c, r)
    \/ RestoreIndex(c)
    \/ Attach(c)
    \/ TakeIndex(c)
    \/ ScheduleRemoval(c)
    \/ RemoveRegistry(c)
    \/ JoinCheckTotal(c)
    \/ JoinCheckSize(c)
    \/ JoinEnter(c)
    \/ JoinIndex(c)
    \/ LeaveSteps(c)

\* What its peer makes it do.
PeerSteps(c) ==
    \/ \E id \in Ids : Connect(c, id)
    \/ \E r \in RoomKeys : JoinCheckClient(c, r) \/ PresenceUpdate(c, r) \/ RoomLeave(c, r)
    \/ Close(c)

CleanupSteps ==
    \/ CollectExpired
    \/ \E id \in Ids : ExpireSession(id)
    \/ ExpiryDone
    \/ LeaveSteps(CheckBroken)

Next ==
    \/ \E c \in Conns : PeerSteps(c) \/ SocketSteps(c)
    \/ CleanupSteps
    \/ \E id \in Ids : Evict(id) \/ TtlExpires(id)

Spec == Init /\ [][Next]_vars

\* tokio runs a task that is ready, check_broken wakes up every 300 ms and time
\* passes.  Peers promise nothing.
Fairness ==
    /\ \A c \in Conns : WF_vars(SocketSteps(c))
    /\ WF_vars(CleanupSteps)
    /\ \A id \in Ids : WF_vars(TtlExpires(id))

FairSpec == Spec /\ Fairness

-----------------------------------------------------------------------------
(* Properties.                                                             *)

LeavePcs == {"rmPresence", "rmPresenceEmpty", "dropRoom", "dropPresence", "leaveIndex"}

RoomPcs ==
    {"sleep", "expire", "off", "register", "unpend", "restore",
     "attach", "open", "rmRooms", "pend", "rmRegistry", "joinTotal", "joinSize", "joinEnter",
     "joinIndex", "leaveNext"} \cup LeavePcs

\* The maps of AppState keep their types, and a task that joins or leaves a
\* room knows which.
RoomsTypeOK ==
    /\ rooms \in [RoomKeys -> (SUBSET Ids) \cup {None}]
    /\ clientRooms \in [Ids -> SUBSET RoomKeys]
    /\ pending \in [Ids -> [rooms : SUBSET RoomKeys, expired : BOOLEAN] \cup {None}]
    /\ registry \subseteq Ids /\ shared \subseteq Ids
    /\ wsSenders \in [Ids -> Conns \cup {None}]
    /\ presence \in [RoomKeys -> [Ids -> {"member", "stray", None}]]
    /\ \A t \in Tasks :
          /\ task[t].pc \in RoomPcs
          /\ task[t].pc \notin {"off", "sleep", "expire"} => task[t].id \in Ids
          /\ task[t].pc \in {"joinTotal", "joinSize", "joinEnter", "joinIndex"} \cup LeavePcs =>
                task[t].room \in RoomKeys

\* remove_client_from_room "deletes the room if it becomes empty": an empty
\* room is in the map only while a task that found it empty is about to delete
\* it, so that empty rooms never use up max_total_rooms.
EmptyRoomIsDeleted ==
    \A r \in RoomKeys : rooms[r] = {} =>
        \E t \in Tasks :
            task[t].room = r /\ task[t].pc \in {"rmPresenceEmpty", "dropRoom"}

\* Without a session TTL every member of a room is in the reverse index, or a
\* task is at work that will put it there or take it out of the room, for an id
\* that one task at a time has served: a disconnection finds all its rooms.
MemberIsIndexed ==
    ~SessionTtlOn => \A id \in Ids \ shared, r \in RoomKeys : id \in Members(r) =>
        \/ r \in clientRooms[id]
        \/ \E c \in Conns :
              /\ task[c].id = id
              /\ \/ task[c].pc = "joinIndex" /\ task[c].room = r
                 \/ task[c].pc \in {"leaveNext"} \cup LeavePcs
                    /\ r \in task[c].todo

\* remove_client_from_all_rooms, "called on disconnect": without a session TTL,
\* an id whose only socket is gone is a member of no room and left no index,
\* whatever other members of its rooms do at the same time.
AbsentHasNoRoom ==
    ~SessionTtlOn => \A id \in Ids \ shared :
        (\A c \in Conns : task[c].id # id) =>
            clientRooms[id] = {} /\ \A r \in RoomKeys : id \notin Members(r)

\* Presence data that a member stored goes when the member goes: it outlives its
\* membership only while the task that ended it, or that deletes the room, is
\* on its way to the presence map.  (Nothing removes the data of a stray.)
PresenceOfMembers ==
    \A r \in RoomKeys, id \in Ids :
        (presence[r][id] = "member" /\ id \notin Members(r)) =>
            \E t \in Tasks :
                /\ task[t].room = r
                /\ \/ task[t].id = id /\ task[t].pc \in {"rmPresence", "rmPresenceEmpty"}
                   \/ task[t].pc \in {"rmPresenceEmpty", "dropRoom", "dropPresence"}

\* cleanup_expired_sessions runs for every session whose TTL ran out, however
\* many reconnections and disconnections race with it.
ExpiryRuns ==
    \A id \in Ids :
        (pending[id] # None /\ pending[id].expired) ~> (pending[id] = None \/ ~pending[id].expired)

-----------------------------------------------------------------------------
(* Claims of the repository that the code does not keep.                   *)

\* message.rs, remove_client_from_all_rooms: "If the client reconnects within
\* the TTL, memberships are restored in ws.rs": a session that is open has no
\* removal pending against it.
ReconnectRestoresRooms ==
    \A c \in Conns :
        (task[c].pc = "open" /\ \A d \in Conns \ {c} : task[d].id # task[c].id)
            => pending[task[c].id] = None
=============================================================================
