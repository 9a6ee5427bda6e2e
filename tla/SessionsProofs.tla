--------------------------- MODULE SessionsProofs ---------------------------
(***************************************************************************)
(* Theorems about Sessions, for every set of sockets, ids and tokens, every *)
(* limit and every width of the counter.                                    *)
(***************************************************************************)
EXTENDS Sessions, FiniteSetTheorems, TLAPS

-----------------------------------------------------------------------------
(* Facts about the operators of the model.                                 *)

\* There are finitely many tasks.
LEMMA TasksFinite == IsFiniteSet(Tasks) /\ \A P : IsFiniteSet(At(P)) /\ Cardinality(At(P)) \in Nat
<1>1. IsFiniteSet(Tasks)
  BY ConnsAssumption, FS_AddElement DEF Tasks
<1>2. ASSUME NEW P PROVE IsFiniteSet(At(P))
  <2>1. At(P) \subseteq Tasks
    BY DEF At
  <2> QED
    BY <1>1, <2>1, FS_Subset
<1> QED
  BY <1>1, <1>2, FS_CardinalityType

\* Every set of tasks is finite.
LEMMA SubsetOfTasks == \A S \in SUBSET Tasks : IsFiniteSet(S) /\ Cardinality(S) \in Nat
BY TasksFinite, FS_Subset, FS_CardinalityType

\* A step of one task moves it, and only it, into or out of a set of places.
LEMMA AtStep ==
  ASSUME NEW P, NEW t \in Tasks, NEW l,
         pc \in [Tasks -> ConnPcs \cup EvictorPcs],
         pc' = [pc EXCEPT ![t] = l]
  PROVE  Cardinality(At(P)') =
           Cardinality(At(P)) + (IF l \in P THEN 1 ELSE 0) - (IF pc[t] \in P THEN 1 ELSE 0)
<1>1. IsFiniteSet(At(P)) /\ Cardinality(At(P)) \in Nat
  BY TasksFinite
<1>2. CASE l \in P /\ pc[t] \notin P
  <2>1. At(P)' = At(P) \cup {t} /\ t \notin At(P)
    BY <1>2 DEF At
  <2>2. Cardinality(At(P) \cup {t}) = Cardinality(At(P)) + 1
    BY <1>1, <2>1, FS_AddElement
  <2> QED
    BY <1>1, <1>2, <2>1, <2>2
<1>3. CASE l \notin P /\ pc[t] \in P
  <2>1. At(P)' = At(P) \ {t} /\ t \in At(P)
    BY <1>3 DEF At
  <2> QED
    BY <1>1, <1>3, <2>1, FS_RemoveElement
<1>4. CASE (l \in P) = (pc[t] \in P)
  <2>1. At(P)' = At(P)
    BY <1>4 DEF At
  <2> QED
    BY <1>1, <1>4, <2>1
<1> QED
  BY <1>2, <1>3, <1>4

\* There are finitely many entries, at most one per id.
LEMMA LiveFinite ==
  /\ IsFiniteSet(Live)
  /\ Cardinality(Live) \in Nat
  /\ Cardinality(Live) <= Cardinality(Ids)
  /\ Cardinality(Ids) \in Nat
<1>1. Live \subseteq Ids
  BY DEF Live
<1> QED
  BY <1>1, IdsAssumption, FS_Subset, FS_CardinalityType

\* Writing one entry of clients adds, keeps or removes one live entry.
LEMMA LiveStep ==
  ASSUME NEW id \in Ids, NEW v, clients \in [Ids -> Meta \cup {None}], clients' = [clients EXCEPT ![id] = v]
  PROVE  Cardinality(Live') =
           Cardinality(Live) + (IF v # None THEN 1 ELSE 0) - (IF clients[id] # None THEN 1 ELSE 0)
<1>1. IsFiniteSet(Live) /\ Cardinality(Live) \in Nat
  BY LiveFinite
<1>2. CASE v # None /\ clients[id] = None
  <2>1. Live' = Live \cup {id} /\ id \notin Live
    BY <1>2 DEF Live
  <2>2. Cardinality(Live \cup {id}) = Cardinality(Live) + 1
    BY <1>1, <2>1, FS_AddElement
  <2> QED
    BY <1>1, <1>2, <2>1, <2>2
<1>3. CASE v = None /\ clients[id] # None
  <2>1. Live' = Live \ {id} /\ id \in Live
    BY <1>3 DEF Live
  <2> QED
    BY <1>1, <1>3, <2>1, FS_RemoveElement
<1>4. CASE (v = None) = (clients[id] = None)
  <2>1. Live' = Live
    BY <1>4 DEF Live
  <2> QED
    BY <1>1, <1>4, <2>1
<1> QED
  BY <1>2, <1>3, <1>4

\* Wrapping is the identity on the values of a machine word.
LEMMA WrapFacts ==
  /\ \A n \in Int : Wrap(n) \in 0 .. Width - 1
  /\ \A n \in 0 .. Width - 1 : Wrap(n) = n
BY WidthAssumption, LimitAssumption, ConnsAssumption, FS_CardinalityType DEF Wrap

-----------------------------------------------------------------------------
(* Type correctness.                                                       *)

\* The types of everything but ws_senders, which other transports share.
SessionTypes ==
    /\ clients \in [Ids -> Meta \cup {None}]
    /\ active \in 0 .. Width - 1
    /\ registry \in [Ids -> Tokens \cup {None}]
    /\ pc \in [Tasks -> ConnPcs \cup EvictorPcs]
    /\ pc[CheckBroken] \in EvictorPcs
    /\ \A c \in Conns : pc[c] \in ConnPcs
    /\ sess \in [Conns -> [id : Ids \cup {None}, token : Tokens \cup {None}, closing : BOOLEAN]]
    /\ \A c \in Conns : pc[c] # "off" => sess[c].id \in Ids /\ sess[c].token \in Tokens
    /\ victim \in [Tasks -> Ids \cup {None}]
    /\ \A t \in Tasks : pc[t] \in {"rmSender", "rmClient", "rmRelease", "rmRegistry"} => victim[t] \in Ids
    /\ scan \in [todo : SUBSET Ids, actual : 0 .. Cardinality(Ids), tick : 0 .. ReconcileTicks - 1]
    /\ paired \in BOOLEAN

\* The steps of the sockets, check_broken, the timers and Redis: all but a restart.
SessionStep ==
    \/ \E c \in Conns :
          \/ \E id \in Ids, token \in Tokens : Connect(c, id, token)
          \/ Handshake(c)
          \/ Heartbeat(c)
          \/ Message(c)
          \/ Leave(c)
          \/ \E dst \in Ids : SendToDeadPeer(c, dst)
          \/ Close(c)
          \/ Removal(c)
    \/ CheckBrokenStep
    \/ \E id \in Ids, timer \in Lateness : TimerExpires(id, timer)
    \/ \E id \in Ids : RegistryExpires(id)

\* TypeOK by its parts, and Next as a session step or a restart.
LEMMA SessionParts ==
  /\ TypeOK <=> SessionTypes /\ wsSenders \in [Ids -> Conns \cup {None}]
  /\ Next <=> SessionStep \/ ServerRestart
<1>1. TypeOK <=> SessionTypes /\ wsSenders \in [Ids -> Conns \cup {None}]
  BY DEF TypeOK, SessionTypes
<1>2. Next <=> SessionStep \/ ServerRestart
  BY Zenon DEF Next, SessionStep
<1> QED
  BY <1>1, <1>2

\* The initial state has the types of TypeOK.
LEMMA InitTypeOK == Init => TypeOK
<1> SUFFICES ASSUME Init PROVE TypeOK
  OBVIOUS
<1>1. 0 \in 0 .. Width - 1 /\ 0 \in 0 .. Cardinality(Ids) /\ 0 \in 0 .. ReconcileTicks - 1
  BY WidthAssumption, LimitAssumption, ConnsAssumption, FS_CardinalityType, LiveFinite, FlagsAssumption
<1> QED
  BY <1>1, ConnsAssumption
     DEF Init, TypeOK, Tasks, ConnPcs, EvictorPcs, NoSession, Session, Meta

\* Every step of the handshake, the read loop, the removal sequence and of
\* check_broken keeps the types.
LEMMA NextSessionTypes == SessionTypes /\ [Next]_vars => SessionTypes'
<1> SUFFICES ASSUME SessionTypes, [Next]_vars PROVE SessionTypes'
  OBVIOUS
<1> USE ConnsAssumption, IdsAssumption, TokensAssumption DEF SessionTypes, Tasks, Goto, Hangup
<1>n. NoSession \in [id : Ids \cup {None}, token : Tokens \cup {None}, closing : BOOLEAN]
  BY DEF NoSession, Session
<1>s. \A id \in Ids, token \in Tokens :
        /\ Session(id, token) \in [id : Ids \cup {None}, token : Tokens \cup {None}, closing : BOOLEAN]
        /\ Session(id, token).id = id
        /\ Session(id, token).token = token
  BY DEF Session
<1>m. \A token \in Tokens : NewMeta(token) \in Meta
  BY DEF NewMeta, Meta
<1>w. Wrap(active + 1) \in 0 .. Width - 1 /\ Wrap(active - 1) \in 0 .. Width - 1
  BY WrapFacts, WidthAssumption
<1>1. ASSUME NEW c \in Conns, NEW id \in Ids, NEW token \in Tokens, Connect(c, id, token)
      PROVE  SessionTypes'
  BY <1>1, <1>n, <1>s DEF Connect, Admit, ConnPcs, EvictorPcs
<1>2. ASSUME NEW c \in Conns, LookupRedis(c) PROVE SessionTypes'
  BY <1>2, <1>n DEF LookupRedis, Admit, ConnPcs, EvictorPcs
<1>3. ASSUME NEW c \in Conns, InsertReconnection(c) PROVE SessionTypes'
  BY <1>3, <1>m DEF InsertReconnection, ConnPcs, EvictorPcs
<1>4. ASSUME NEW c \in Conns, Reserve(c) PROVE SessionTypes'
  BY <1>4, <1>w DEF Reserve, ConnPcs, EvictorPcs
<1>5. ASSUME NEW c \in Conns, GiveBack(c) PROVE SessionTypes'
  BY <1>5, <1>w, <1>n DEF GiveBack, ConnPcs, EvictorPcs
<1>6. ASSUME NEW c \in Conns, Register(c) PROVE SessionTypes'
  BY <1>6 DEF Register, ConnPcs, EvictorPcs
<1>7. ASSUME NEW c \in Conns, InsertNew(c) PROVE SessionTypes'
  BY <1>7, <1>m DEF InsertNew, ConnPcs, EvictorPcs
<1>8. ASSUME NEW c \in Conns, Attach(c) PROVE SessionTypes'
  BY <1>8 DEF Attach, ConnPcs, EvictorPcs
<1>r. ASSUME NEW c \in Conns, NEW timer \in Lateness, pc[c] = "open", RestartTimer(timer, c)
      PROVE  clients' \in [Ids -> Meta \cup {None}]
  BY <1>r DEF RestartTimer, Meta, Lateness
<1>9. ASSUME NEW c \in Conns, Heartbeat(c) PROVE SessionTypes'
  BY <1>9, <1>r DEF Heartbeat, Lateness
<1>10. ASSUME NEW c \in Conns, Message(c) PROVE SessionTypes'
  BY <1>10, <1>r DEF Message, Lateness
<1>11. ASSUME NEW c \in Conns, Leave(c) PROVE SessionTypes'
  BY <1>11, <1>r DEF Leave, Lateness, ConnPcs, EvictorPcs
<1>12. ASSUME NEW c \in Conns, NEW dst \in Ids, SendToDeadPeer(c, dst) PROVE SessionTypes'
  BY <1>12, <1>r DEF SendToDeadPeer, Lateness, ConnPcs, EvictorPcs
<1>13. ASSUME NEW c \in Conns, Close(c) PROVE SessionTypes'
  <2>1. CASE wsSenders[sess[c].id] = c
    <3>1. sess' = [sess EXCEPT ![c] = [id |-> sess[c].id, token |-> sess[c].token, closing |-> TRUE]]
      BY <1>13, <2>1 DEF Close
    <3>2. /\ sess' \in [Conns -> [id : Ids \cup {None}, token : Tokens \cup {None}, closing : BOOLEAN]]
          /\ \A d \in Conns : sess'[d].id = sess[d].id /\ sess'[d].token = sess[d].token
      BY <3>1
    <3> QED
      BY <1>13, <2>1, <3>2 DEF Close, ConnPcs, EvictorPcs
  <2>2. CASE wsSenders[sess[c].id] # c
    BY <1>13, <1>n, <2>2 DEF Close, ConnPcs, EvictorPcs
  <2> QED
    BY <2>1, <2>2
<1>14. ASSUME NEW t \in Tasks, RemoveSender(t) PROVE SessionTypes'
  BY <1>14 DEF RemoveSender, ConnPcs, EvictorPcs
<1>15. ASSUME NEW t \in Tasks, RemoveClient(t) PROVE SessionTypes'
  BY <1>15 DEF RemoveClient, ConnPcs, EvictorPcs
<1>16. ASSUME NEW t \in Tasks, Release(t) PROVE SessionTypes'
  BY <1>16, <1>w DEF Release, ConnPcs, EvictorPcs
<1>17. ASSUME NEW t \in Tasks, RemoveRegistry(t) PROVE SessionTypes'
  BY <1>17, <1>n DEF RemoveRegistry, ConnPcs, EvictorPcs
<1>18. CASE Scan
  <2>1. (scan.tick + 1) % ReconcileTicks \in 0 .. ReconcileTicks - 1
    BY FlagsAssumption
  <2>2. {id \in Live : clients[id].late # {}} \in SUBSET Ids
    BY DEF Live
  <2> QED
    <3>1. \E todo \in SUBSET Ids, tick \in 0 .. ReconcileTicks - 1 :
             scan' = [scan EXCEPT !.todo = todo, !.tick = tick]
      BY <1>18, <2>1, <2>2, Zenon DEF Scan
    <3>2. scan' \in [todo : SUBSET Ids, actual : 0 .. Cardinality(Ids), tick : 0 .. ReconcileTicks - 1]
      BY <3>1
    <3>3. Goto(CheckBroken, "evict") /\ UNCHANGED <<clients, active, registry, sess, victim, paired>>
      BY <1>18, Zenon DEF Scan
    <3> QED
      BY <3>2, <3>3 DEF EvictorPcs, ConnPcs
<1>19. ASSUME NEW id \in Ids, Evict(id) PROVE SessionTypes'
  BY <1>19 DEF Evict, ConnPcs, EvictorPcs
<1>20. CASE CountClients
  <2>1. Cardinality(Live) \in 0 .. Cardinality(Ids)
    BY LiveFinite
  <2> QED
    BY <1>20, <2>1 DEF CountClients, ConnPcs, EvictorPcs
<1>21. CASE StoreCounter
  <2>1. scan.actual \in 0 .. Width - 1 /\ 0 \in 0 .. Cardinality(Ids)
    BY WidthAssumption, LiveFinite
  <2> QED
    BY <1>21, <2>1 DEF StoreCounter, ConnPcs, EvictorPcs
<1>22. CASE TickDone
  BY <1>22 DEF TickDone, ConnPcs, EvictorPcs
<1>23. ASSUME NEW id \in Ids, NEW timer \in Lateness, TimerExpires(id, timer) PROVE SessionTypes'
  <2>1. clients' \in [Ids -> Meta \cup {None}]
    BY <1>23 DEF TimerExpires, Meta, Lateness
  <2> QED
    BY <1>23, <2>1 DEF TimerExpires, taskVars
<1>24. ASSUME NEW id \in Ids, RegistryExpires(id) PROVE SessionTypes'
  BY <1>24 DEF RegistryExpires, serverVars, taskVars
<1>25. CASE ServerRestart
  <2>1. 0 \in 0 .. Width - 1 /\ 0 \in 0 .. Cardinality(Ids) /\ 0 \in 0 .. ReconcileTicks - 1
    BY WidthAssumption, LimitAssumption, FS_CardinalityType, LiveFinite, FlagsAssumption
  <2> QED
    BY <1>25, <1>n, <2>1 DEF ServerRestart, ConnPcs, EvictorPcs
<1>26. CASE UNCHANGED vars
  BY <1>26 DEF vars
<1> QED
  BY <1>1, <1>2, <1>3, <1>4, <1>5, <1>6, <1>7, <1>8, <1>9, <1>10, <1>11, <1>12, <1>13, <1>14,
     <1>15, <1>16, <1>17, <1>18, <1>19, <1>20, <1>21, <1>22, <1>23, <1>24, <1>25, <1>26
     DEF Next, Handshake, Removal, CheckBrokenStep

\* A step of a socket or of check_broken removes a channel from ws_senders or
\* stores that of a socket, under its own id.
LEMMA SenderStep ==
  ASSUME SessionTypes, SessionStep
  PROVE  \/ wsSenders' = wsSenders
         \/ \E id \in Ids : wsSenders' = [wsSenders EXCEPT ![id] = None]
         \/ \E c \in Conns : pc[c] = "attach" /\ wsSenders' = [wsSenders EXCEPT ![sess[c].id] = c]
<1>1. ASSUME NEW c \in Conns, NEW id \in Ids, NEW token \in Tokens, Connect(c, id, token)
      PROVE  wsSenders' = wsSenders
  BY <1>1 DEF Connect
<1>2. ASSUME NEW c \in Conns, Handshake(c)
      PROVE  wsSenders' = wsSenders \/ (pc[c] = "attach" /\ wsSenders' = [wsSenders EXCEPT ![sess[c].id] = c])
  BY <1>2 DEF Handshake, LookupRedis, InsertReconnection, Reserve, GiveBack, Register, InsertNew, Attach
<1>3. ASSUME NEW c \in Conns, Heartbeat(c) \/ Message(c) \/ Leave(c) \/ Close(c) \/ \E dst \in Ids : SendToDeadPeer(c, dst)
      PROVE  wsSenders' = wsSenders
  BY <1>3 DEF Heartbeat, Message, Leave, Close, SendToDeadPeer
<1>4. ASSUME NEW t \in Tasks, Removal(t)
      PROVE  wsSenders' = wsSenders \/ \E id \in Ids : wsSenders' = [wsSenders EXCEPT ![id] = None]
  BY <1>4 DEF Removal, RemoveSender, RemoveClient, Release, RemoveRegistry, SessionTypes
<1>5. ASSUME Scan \/ (\E id \in Ids : Evict(id)) \/ CountClients \/ StoreCounter \/ TickDone
      PROVE  wsSenders' = wsSenders
  BY <1>5, Zenon DEF Scan, Evict, CountClients, StoreCounter, TickDone
<1>6. ASSUME NEW id \in Ids, (\E timer \in Lateness : TimerExpires(id, timer)) \/ RegistryExpires(id)
      PROVE  wsSenders' = wsSenders
  BY <1>6 DEF TimerExpires, RegistryExpires, serverVars
<1>7. Conns \subseteq Tasks /\ CheckBroken \in Tasks
  BY DEF Tasks
<1> QED
  BY <1>1, <1>2, <1>3, <1>4, <1>5, <1>6, <1>7 DEF SessionStep, CheckBrokenStep

\* Only a socket's channel is ever stored.
LEMMA NextTypeOK == TypeOK /\ [Next]_vars => TypeOK'
<1> SUFFICES ASSUME SessionTypes, wsSenders \in [Ids -> Conns \cup {None}], [Next]_vars
             PROVE  wsSenders' \in [Ids -> Conns \cup {None}]
  BY SessionParts, NextSessionTypes DEF TypeOK, SessionTypes
<1>1. CASE SessionStep
  BY <1>1, SenderStep
<1>2. CASE ServerRestart
  BY <1>2 DEF ServerRestart
<1>3. CASE UNCHANGED vars
  BY <1>3 DEF vars
<1> QED
  BY <1>1, <1>2, <1>3, SessionParts

\* Type correctness of the session model for every value of the constants.
THEOREM TypeCorrect == Spec => []TypeOK
<1> QED
  BY InitTypeOK, NextTypeOK, PTL DEF Spec

-----------------------------------------------------------------------------
(* The slot counter.                                                       *)

Refused == At({"unreserve"})
SlotInv == SlotCoverage /\ LimitRespected /\ CounterBound

\* How a step of one task changes the number of slots held, reserved and
\* refused.
LEMMA StepCounts ==
  ASSUME SessionTypes, NEW t \in Tasks, NEW l, Goto(t, l)
  PROVE  /\ Cardinality(Holding') = Cardinality(Holding)
               + (IF l \in {"unreserve", "register", "unregister", "insert", "rmRelease"} THEN 1 ELSE 0)
               - (IF pc[t] \in {"unreserve", "register", "unregister", "insert", "rmRelease"} THEN 1 ELSE 0)
         /\ Cardinality(Reserved') = Cardinality(Reserved)
               + (IF l \in {"register", "insert"} THEN 1 ELSE 0)
               - (IF pc[t] \in {"register", "insert"} THEN 1 ELSE 0)
         /\ Cardinality(Refused') = Cardinality(Refused)
               + (IF l = "unreserve" THEN 1 ELSE 0) - (IF pc[t] = "unreserve" THEN 1 ELSE 0)
<1>1. pc \in [Tasks -> ConnPcs \cup EvictorPcs] /\ pc' = [pc EXCEPT ![t] = l]
  BY DEF SessionTypes, Goto
<1>2. Cardinality(Refused') = Cardinality(Refused)
        + (IF l \in {"unreserve"} THEN 1 ELSE 0) - (IF pc[t] \in {"unreserve"} THEN 1 ELSE 0)
  BY <1>1, AtStep DEF Refused
<1> QED
  BY <1>1, <1>2, AtStep DEF Holding, Reserved

\* The counts are natural numbers, and no more handshakes are refused at a
\* time than there are sockets.
LEMMA CountsAreNat ==
  ASSUME SessionTypes
  PROVE  /\ Cardinality(Live) \in Nat
         /\ Cardinality(Holding) \in Nat
         /\ Cardinality(Reserved) \in Nat
         /\ Cardinality(Refused) \in Nat
         /\ Cardinality(Conns) \in Nat
         /\ Cardinality(Refused) <= Cardinality(Conns)
<1>1. Refused \subseteq Conns
  BY DEF Refused, At, SessionTypes, EvictorPcs, Tasks
<1>2. Cardinality(Refused) <= Cardinality(Conns) /\ Cardinality(Conns) \in Nat
  BY <1>1, ConnsAssumption, FS_Subset, FS_CardinalityType
<1> QED
  BY <1>2, LiveFinite, TasksFinite DEF Holding, Reserved, Refused

\* Holds at the start: no entry, no task in flight, a counter of zero.
LEMMA InitSlotInv == Init => SlotInv
<1> SUFFICES ASSUME Init PROVE SlotInv
  OBVIOUS
<1>1. Live = {} /\ Holding = {} /\ Reserved = {} /\ Refused = {}
  BY ConnsAssumption DEF Init, Live, Holding, Reserved, Refused, At, Tasks
<1> QED
  BY <1>1, FS_EmptySet, LimitAssumption
     DEF Init, SlotInv, SlotCoverage, LimitRespected, CounterBound, Refused

\* The counts stay natural numbers.
LEMMA NextCountsAreNat ==
  ASSUME SessionTypes'
  PROVE  /\ Cardinality(Live') \in Nat /\ Cardinality(Holding') \in Nat
         /\ Cardinality(Reserved') \in Nat /\ Cardinality(Refused') \in Nat
<1>1. Live' \subseteq Ids /\ Holding' \subseteq Tasks /\ Reserved' \subseteq Tasks /\ Refused' \subseteq Tasks
  BY DEF Live, Holding, Reserved, Refused, At
<1> QED
  BY <1>1, SubsetOfTasks, IdsAssumption, FS_Subset, FS_CardinalityType

\* Trust in the bookkeeping ends and is not regained; a reconciliation that
\* keeps it found every slot in flight in its count.
LEMMA TrustOnlyEnds ==
  ASSUME SessionTypes, SessionStep
  PROVE  /\ paired' => paired
         /\ paired' /\ pc[CheckBroken] = "store" /\ pc'[CheckBroken] = "sleep" =>
               Cardinality(Live) + Cardinality(Holding) <= active'
<1> USE DEF SessionTypes
<1>keep. ASSUME UNCHANGED paired, pc[CheckBroken] = "store" => pc'[CheckBroken] # "sleep"
         PROVE  /\ paired' => paired
                /\ paired' /\ pc[CheckBroken] = "store" /\ pc'[CheckBroken] = "sleep" =>
                      Cardinality(Live) + Cardinality(Holding) <= active'
  BY <1>keep
<1>sock. ASSUME NEW c \in Conns, NEW l, Goto(c, l) PROVE pc'[CheckBroken] = pc[CheckBroken]
  BY <1>sock, ConnsAssumption DEF Goto, Tasks
<1>1. ASSUME NEW c \in Conns, NEW id \in Ids, NEW token \in Tokens, Connect(c, id, token)
      PROVE  paired' = paired /\ pc'[CheckBroken] = pc[CheckBroken]
  BY <1>1, <1>sock DEF Connect, Admit, Hangup
<1>2. ASSUME NEW c \in Conns, LookupRedis(c) \/ Reserve(c) \/ GiveBack(c) \/ Register(c) \/ InsertNew(c) \/ Attach(c)
      PROVE  paired' = paired /\ pc'[CheckBroken] = pc[CheckBroken]
  BY <1>2, <1>sock DEF LookupRedis, Admit, Reserve, GiveBack, Register, InsertNew, Attach, Hangup
<1>3. ASSUME NEW c \in Conns, InsertReconnection(c)
      PROVE  (paired' => paired) /\ pc'[CheckBroken] = pc[CheckBroken]
  BY <1>3, <1>sock DEF InsertReconnection
<1>4. ASSUME NEW c \in Conns, Heartbeat(c) \/ Message(c) \/ Leave(c) \/ Close(c) \/ \E dst \in Ids : SendToDeadPeer(c, dst)
      PROVE  paired' = paired /\ pc'[CheckBroken] = pc[CheckBroken]
  BY <1>4, <1>sock DEF Heartbeat, Message, Leave, Close, SendToDeadPeer, Hangup
<1>5. ASSUME NEW t \in Tasks, Removal(t)
      PROVE  paired' = paired /\ (pc[CheckBroken] = "store" => pc'[CheckBroken] # "sleep")
  <2>1. /\ paired' = paired
        /\ \/ Goto(t, "rmClient") \/ Goto(t, "rmRelease") \/ Goto(t, "rmRegistry")
           \/ Goto(t, "evict") \/ (t # CheckBroken /\ Goto(t, "off")) \/ (t # CheckBroken /\ Goto(t, "open"))
    BY <1>5 DEF Removal, RemoveSender, RemoveClient, Release, RemoveRegistry, Hangup
  <2> QED
    BY <2>1 DEF Goto, Tasks
<1>6. ASSUME Scan \/ (\E id \in Ids : Evict(id)) \/ CountClients \/ TickDone
      PROVE  paired' = paired /\ pc[CheckBroken] # "store"
  BY <1>6 DEF Scan, Evict, CountClients, TickDone
<1>7. CASE StoreCounter
  BY <1>7, Zenon DEF StoreCounter
<1>8. ASSUME NEW id \in Ids, (\E timer \in Lateness : TimerExpires(id, timer)) \/ RegistryExpires(id)
      PROVE  paired' = paired /\ pc' = pc
  BY <1>8 DEF TimerExpires, RegistryExpires, taskVars
<1>9. Conns \subseteq Tasks /\ CheckBroken \in Tasks
  BY DEF Tasks
<1> HIDE DEF SessionTypes
<1> QED
  BY <1>1, <1>2, <1>3, <1>4, <1>5, <1>6, <1>7, <1>8, <1>9, <1>keep DEF SessionStep, Handshake, CheckBrokenStep

\* Slots are accounted for when hh slots are held, hr reserved and hf refused by
\* others than the sockets of this module.
Backed(hh, hr, hf) ==
    /\ Cardinality(Live) + Cardinality(Holding) + hh <= active
    /\ Cardinality(Live) + Cardinality(Reserved) + hr <= ConcurrentLimit
    /\ active <= ConcurrentLimit + Cardinality(Refused) + hf
    /\ scan.actual <= ConcurrentLimit

\* Every step that does not end the trust in the bookkeeping keeps the slots
\* accounted for, whatever other transports hold meanwhile.
LEMMA BackedStep ==
  ASSUME SessionTypes, SessionStep, paired, paired',
         NEW hh \in Nat, NEW hr \in Nat, NEW hf \in Nat, hr <= hh,
         Width > ConcurrentLimit + Cardinality(Conns) + hf + 1,
         Backed(hh, hr, hf),
         pc[CheckBroken] = "store" /\ pc'[CheckBroken] = "sleep" =>
             Cardinality(Live) + Cardinality(Holding) + hh <= active'
  PROVE  Backed(hh, hr, hf)'
<1> DEFINE Goal == Backed(hh, hr, hf)'
<1> SUFFICES Goal
  OBVIOUS
<1>nat. /\ Cardinality(Live) \in Nat
        /\ Cardinality(Holding) \in Nat
        /\ Cardinality(Reserved) \in Nat
        /\ Cardinality(Refused) \in Nat
        /\ Cardinality(Conns) \in Nat
        /\ Cardinality(Refused) <= Cardinality(Conns)
        /\ active \in Nat /\ scan.actual \in Nat
        /\ Width > ConcurrentLimit + Cardinality(Conns) + hf + 1
        /\ Width \in Nat /\ ConcurrentLimit \in Nat
  BY CountsAreNat, WidthAssumption, LimitAssumption DEF SessionTypes
<1>inv. /\ Cardinality(Live) + Cardinality(Holding) + hh <= active
        /\ Cardinality(Live) + Cardinality(Reserved) + hr <= ConcurrentLimit
        /\ active <= ConcurrentLimit + Cardinality(Refused) + hf
        /\ scan.actual <= ConcurrentLimit
  BY DEF Backed
<1>goal. ASSUME /\ Cardinality(Live') + Cardinality(Holding') + hh <= active'
                /\ Cardinality(Live') + Cardinality(Reserved') + hr <= ConcurrentLimit
                /\ active' <= ConcurrentLimit + Cardinality(Refused') + hf
                /\ scan'.actual <= ConcurrentLimit
         PROVE  Goal
  BY <1>goal DEF Backed
<1> HIDE DEF Goal
<1>quiet. ASSUME UNCHANGED <<active, pc, scan>>, Live' = Live PROVE Goal
  <2>1. Holding' = Holding /\ Reserved' = Reserved /\ Refused' = Refused
    BY <1>quiet DEF Holding, Reserved, Refused, At
  <2> QED
    BY <1>quiet, <2>1, <1>inv, <1>goal
\* A step of one task that leaves the counter and the entries alone and does
\* not come to hold, reserve, or have refused, more or fewer slots.
<1>move. ASSUME NEW t \in Tasks, NEW l, Goto(t, l), Live' = Live, UNCHANGED <<active, scan, paired>>,
                l \notin {"unreserve", "register", "unregister", "insert", "rmRelease"},
                pc[t] \notin {"unreserve", "register", "unregister", "insert", "rmRelease"}
         PROVE  Goal
  <2>1. /\ Cardinality(Holding') = Cardinality(Holding)
        /\ Cardinality(Reserved') = Cardinality(Reserved)
        /\ Cardinality(Refused') = Cardinality(Refused)
    BY <1>move, <1>nat, StepCounts
  <2> QED
    BY <1>move, <1>inv, <1>nat, <1>goal, <2>1
<1>1. ASSUME NEW c \in Conns, NEW id \in Ids, NEW token \in Tokens, Connect(c, id, token)
      PROVE  Goal
  <2>1. Live' = Live /\ UNCHANGED <<active, scan, paired>> /\ c \in Tasks /\ pc[c] = "off"
    BY <1>1 DEF Connect, Live, Tasks
  <2>2. Goto(c, "lookupRedis") \/ Goto(c, "reserve") \/ Goto(c, "reconnect") \/ Goto(c, "off")
    BY <1>1 DEF Connect, Admit, Hangup
  <2> QED
    BY <2>1, <2>2, <1>move
<1>2. ASSUME NEW c \in Conns, LookupRedis(c) PROVE Goal
  <2>1. Live' = Live /\ UNCHANGED <<active, scan, paired>> /\ c \in Tasks /\ pc[c] = "lookupRedis"
    BY <1>2 DEF LookupRedis, Live, Tasks
  <2>2. Goto(c, "reserve") \/ Goto(c, "reconnect") \/ Goto(c, "off")
    BY <1>2 DEF LookupRedis, Admit, Hangup
  <2> QED
    BY <2>1, <2>2, <1>move
<1>3. ASSUME NEW c \in Conns, InsertReconnection(c) PROVE Goal
  <2>1. CASE clients[sess[c].id] = None
    \* The unpaid entry ends the trust.
    BY <1>3, <2>1 DEF InsertReconnection
  <2>2. CASE clients[sess[c].id] # None
    <3>1. NewMeta(sess[c].token) # None /\ sess[c].id \in Ids
      BY <1>3, TokensAssumption DEF InsertReconnection, SessionTypes, NewMeta
    <3>2. Live' = Live
      BY <1>3, <2>2, <3>1 DEF InsertReconnection, Live, SessionTypes
    <3>3. UNCHANGED <<active, scan, paired>> /\ c \in Tasks /\ pc[c] = "reconnect" /\ Goto(c, "attach")
      BY <1>3, <2>2 DEF InsertReconnection, Tasks, SessionTypes
    <3> QED
      BY <3>2, <3>3, <1>move
  <2> QED
    BY <2>1, <2>2
<1>4. ASSUME NEW c \in Conns, Reserve(c) PROVE Goal
  <2>1. Live' = Live /\ UNCHANGED <<scan, paired>> /\ c \in Tasks /\ pc[c] = "reserve"
    BY <1>4 DEF Reserve, Live, Tasks
  <2>2. paired => active' = active + 1
    BY <1>4, <1>inv, <1>nat, WrapFacts DEF Reserve
  <2>3. CASE active >= ConcurrentLimit
    <3>1. Goto(c, "unreserve")
      BY <1>4, <2>3 DEF Reserve
    <3>2. /\ Cardinality(Holding') = Cardinality(Holding) + 1
          /\ Cardinality(Reserved') = Cardinality(Reserved)
          /\ Cardinality(Refused') = Cardinality(Refused) + 1
      BY <2>1, <3>1, <1>nat, StepCounts
    <3> QED
      BY <2>1, <2>2, <3>2, <1>inv, <1>nat, <1>goal
  <2>4. CASE active < ConcurrentLimit
    <3>1. Goto(c, "register")
      BY <1>4, <2>4, <1>nat DEF Reserve
    <3>2. /\ Cardinality(Holding') = Cardinality(Holding) + 1
          /\ Cardinality(Reserved') = Cardinality(Reserved) + 1
          /\ Cardinality(Refused') = Cardinality(Refused)
      BY <2>1, <3>1, <1>nat, StepCounts
    <3>3. Cardinality(Reserved) <= Cardinality(Holding)
      <4>1. Reserved \subseteq Holding
        BY DEF Reserved, Holding, At
      <4> QED
        BY <4>1, TasksFinite, FS_Subset DEF Holding
    <3> QED
      BY <2>1, <2>2, <2>4, <3>2, <3>3, <1>inv, <1>nat, <1>goal
  <2> QED
    BY <2>3, <2>4, <1>nat
<1>5. ASSUME NEW c \in Conns, GiveBack(c) PROVE Goal
  <2>1. Live' = Live /\ UNCHANGED <<scan, paired>> /\ c \in Tasks /\ Goto(c, "off")
    BY <1>5 DEF GiveBack, Hangup, Live, Tasks
  <2>2. /\ Cardinality(Holding') = Cardinality(Holding) - 1
        /\ Cardinality(Reserved') = Cardinality(Reserved)
        /\ Cardinality(Refused') = Cardinality(Refused) - (IF pc[c] = "unreserve" THEN 1 ELSE 0)
        /\ Cardinality(Holding') \in Nat
    <3>1. Cardinality(Holding') \in Nat
      <4>1. Holding' \subseteq Tasks
        BY DEF Holding, At
      <4> QED
        BY <4>1, SubsetOfTasks
    <3> QED
      BY <1>5, <2>1, <3>1, <1>nat, StepCounts DEF GiveBack
  <2>3. paired => active' = active - 1
    <3>1. paired => active - 1 \in 0 .. Width - 1
      BY <2>2, <1>inv, <1>nat DEF SessionTypes
    <3> QED
      BY <1>5, <3>1, WrapFacts DEF GiveBack
  <2>4. pc[c] = "unregister" /\ paired => active - 1 <= ConcurrentLimit + Cardinality(Refused) + hf
    BY <1>inv, <1>nat
  <2> QED
    BY <1>5, <2>1, <2>2, <2>3, <2>4, <1>inv, <1>nat, <1>goal DEF GiveBack
<1>6. ASSUME NEW c \in Conns, Register(c) PROVE Goal
  <2>1. /\ Live' = Live /\ UNCHANGED <<active, scan, paired>> /\ c \in Tasks /\ pc[c] = "register"
        /\ Goto(c, "insert") \/ Goto(c, "unregister")
    BY <1>6 DEF Register, Live, Tasks
  <2>2. /\ Cardinality(Holding') = Cardinality(Holding)
        /\ Cardinality(Reserved') <= Cardinality(Reserved)
        /\ Cardinality(Reserved') \in Int
        /\ Cardinality(Refused') = Cardinality(Refused)
    BY <2>1, <1>nat, StepCounts
  <2> QED
    BY <2>1, <2>2, <1>inv, <1>nat, <1>goal
<1>7. ASSUME NEW c \in Conns, InsertNew(c) PROVE Goal
  <2>1. UNCHANGED <<active, scan, paired>> /\ c \in Tasks /\ pc[c] = "insert" /\ Goto(c, "attach")
    BY <1>7 DEF InsertNew, Tasks
  <2>2. /\ Cardinality(Holding') = Cardinality(Holding) - 1
        /\ Cardinality(Reserved') = Cardinality(Reserved) - 1
        /\ Cardinality(Refused') = Cardinality(Refused)
    BY <2>1, <1>nat, StepCounts
  <2>3. Cardinality(Live') <= Cardinality(Live) + 1 /\ Cardinality(Live') \in Int
    <3>1. clients' = [clients EXCEPT ![sess[c].id] = NewMeta(sess[c].token)] /\ sess[c].id \in Ids
      BY <1>7 DEF InsertNew, SessionTypes
    <3>2. clients \in [Ids -> Meta \cup {None}]
      BY DEF SessionTypes
    <3>3. Cardinality(Live') = Cardinality(Live) + (IF NewMeta(sess[c].token) # None THEN 1 ELSE 0)
                                 - (IF clients[sess[c].id] # None THEN 1 ELSE 0)
      BY <3>1, <3>2, LiveStep
    <3> QED
      BY <3>3, <1>nat
  <2> QED
    BY <2>1, <2>2, <2>3, <1>inv, <1>nat, <1>goal
<1>8. ASSUME NEW c \in Conns, Attach(c) PROVE Goal
  <2>1. Live' = Live /\ UNCHANGED <<active, scan, paired>> /\ c \in Tasks /\ pc[c] = "attach" /\ Goto(c, "open")
    BY <1>8 DEF Attach, Live, Tasks
  <2> QED
    BY <2>1, <1>move
<1>r. ASSUME NEW c \in Conns, NEW timer, RestartTimer(timer, c) PROVE Live' = Live
  <2>1. ASSUME NEW m PROVE [token |-> m.token, late |-> m.late \ {timer}] # None \/ m \notin Meta
    BY TokensAssumption DEF Meta, Lateness
  <2> QED
    BY <1>r, <2>1 DEF RestartTimer, Live, SessionTypes
<1>9. ASSUME NEW c \in Conns, Heartbeat(c) \/ Message(c) PROVE Goal
  <2>1. Live' = Live
    BY <1>9, <1>r DEF Heartbeat, Message
  <2> QED
    BY <1>9, <2>1, <1>quiet DEF Heartbeat, Message
<1>10. ASSUME NEW c \in Conns, Leave(c) \/ \E dst \in Ids : SendToDeadPeer(c, dst) PROVE Goal
  <2>1. Live' = Live
    BY <1>10, <1>r DEF Leave, SendToDeadPeer
  <2>2. UNCHANGED <<active, scan, paired>> /\ c \in Tasks /\ pc[c] = "open" /\ Goto(c, "rmSender")
    BY <1>10 DEF Leave, SendToDeadPeer, Tasks
  <2> QED
    BY <2>1, <2>2, <1>move
<1>11. ASSUME NEW c \in Conns, Close(c) PROVE Goal
  <2>1. /\ Live' = Live /\ UNCHANGED <<active, scan, paired>> /\ c \in Tasks /\ pc[c] = "open"
        /\ Goto(c, "rmSender") \/ Goto(c, "off")
    BY <1>11 DEF Close, Hangup, Live, Tasks
  <2> QED
    BY <2>1, <1>move
<1>12. ASSUME NEW t \in Tasks, RemoveSender(t) PROVE Goal
  <2>1. Live' = Live /\ UNCHANGED <<active, scan, paired>> /\ pc[t] = "rmSender" /\ Goto(t, "rmClient")
    BY <1>12 DEF RemoveSender, Live
  <2> QED
    BY <2>1, <1>move
<1>13. ASSUME NEW t \in Tasks, RemoveClient(t) PROVE Goal
  <2>1. UNCHANGED <<active, scan, paired>> /\ pc[t] = "rmClient" /\ victim[t] \in Ids
    BY <1>13 DEF RemoveClient, SessionTypes
  <2>2. CASE clients[victim[t]] = None
    <3>1. Live' = Live /\ Goto(t, "rmRegistry")
      BY <1>13, <2>2 DEF RemoveClient, Live, SessionTypes
    <3> QED
      BY <2>1, <3>1, <1>move
  <2>3. CASE clients[victim[t]] # None
    <3>1. Goto(t, "rmRelease") /\ clients' = [clients EXCEPT ![victim[t]] = None]
      BY <1>13, <2>3 DEF RemoveClient
    <3>2. Cardinality(Live') = Cardinality(Live) - 1
      <4>1. clients \in [Ids -> Meta \cup {None}]
        BY DEF SessionTypes
      <4>2. Cardinality(Live') = Cardinality(Live) + (IF None # None THEN 1 ELSE 0)
                                   - (IF clients[victim[t]] # None THEN 1 ELSE 0)
        BY <2>1, <3>1, <4>1, LiveStep
      <4> QED
        BY <2>3, <4>2, <1>nat
    <3>3. /\ Cardinality(Holding') = Cardinality(Holding) + 1
          /\ Cardinality(Reserved') = Cardinality(Reserved)
          /\ Cardinality(Refused') = Cardinality(Refused)
      BY <2>1, <3>1, <1>nat, StepCounts
    <3> QED
      BY <2>1, <3>2, <3>3, <1>inv, <1>nat, <1>goal
  <2> QED
    BY <2>2, <2>3
<1>14. ASSUME NEW t \in Tasks, Release(t) PROVE Goal
  <2>1. Live' = Live /\ UNCHANGED <<scan, paired>> /\ pc[t] = "rmRelease" /\ Goto(t, "rmRegistry")
    BY <1>14 DEF Release, Live
  <2>2. /\ Cardinality(Holding') = Cardinality(Holding) - 1
        /\ Cardinality(Reserved') = Cardinality(Reserved)
        /\ Cardinality(Refused') = Cardinality(Refused)
        /\ Cardinality(Holding') \in Nat
    <3>1. Holding' \subseteq Tasks
      BY DEF Holding, At
    <3> QED
      BY <2>1, <3>1, <1>nat, StepCounts, SubsetOfTasks
  <2>3. paired => active' = active - 1
    <3>1. paired => active - 1 \in 0 .. Width - 1
      BY <2>2, <1>inv, <1>nat DEF SessionTypes
    <3> QED
      BY <1>14, <3>1, WrapFacts DEF Release
  <2> QED
    BY <2>1, <2>2, <2>3, <1>inv, <1>nat, <1>goal
<1>15. ASSUME NEW t \in Tasks, RemoveRegistry(t) PROVE Goal
  <2>1. /\ Live' = Live /\ UNCHANGED <<active, scan, paired>> /\ pc[t] = "rmRegistry"
        /\ Goto(t, "evict") \/ Goto(t, "off") \/ Goto(t, "open")
    BY <1>15 DEF RemoveRegistry, Hangup, Live
  <2> QED
    BY <2>1, <1>move
<1>16. CASE Scan \/ (\E id \in Ids : Evict(id)) \/ CountClients \/ TickDone
  <2>1. CheckBroken \in Tasks /\ Live' = Live /\ UNCHANGED <<active, paired>>
    BY <1>16 DEF Scan, Evict, CountClients, TickDone, Live, Tasks
  <2>2. /\ pc[CheckBroken] \in {"sleep", "evict"}
        /\ \/ Goto(CheckBroken, "evict") \/ Goto(CheckBroken, "rmSender")
           \/ Goto(CheckBroken, "store") \/ Goto(CheckBroken, "sleep")
    BY <1>16 DEF Scan, Evict, CountClients, TickDone
  <2>3. scan'.actual <= ConcurrentLimit
    <3>1. CASE CountClients
      <4>1. scan'.actual = Cardinality(Live)
        BY <3>1 DEF CountClients, SessionTypes
      <4> QED
        BY <4>1, <1>inv, <1>nat
    <3>2. CASE Scan \/ (\E id \in Ids : Evict(id)) \/ TickDone
      <4>1. scan'.actual = scan.actual
        BY <3>2 DEF Scan, Evict, TickDone, SessionTypes
      <4> QED
        BY <4>1, <1>inv
    <3> QED
      BY <1>16, <3>1, <3>2
  <2>4. /\ Cardinality(Holding') = Cardinality(Holding)
        /\ Cardinality(Reserved') = Cardinality(Reserved)
        /\ Cardinality(Refused') = Cardinality(Refused)
    BY <2>1, <2>2, <1>nat, StepCounts
  <2> QED
    BY <2>1, <2>3, <2>4, <1>inv, <1>nat, <1>goal
<1>17. CASE StoreCounter
  <2>1. /\ CheckBroken \in Tasks /\ Live' = Live /\ pc[CheckBroken] = "store" /\ Goto(CheckBroken, "sleep")
        /\ active' = scan.actual /\ scan'.actual = 0 /\ pc'[CheckBroken] = "sleep"
        /\ Cardinality(Live) + Cardinality(Holding) + hh <= active'
    BY <1>17 DEF StoreCounter, Live, Tasks, SessionTypes, Goto
  <2>2. /\ Cardinality(Holding') = Cardinality(Holding)
        /\ Cardinality(Reserved') = Cardinality(Reserved)
        /\ Cardinality(Refused') = Cardinality(Refused)
    BY <2>1, <1>nat, StepCounts
  <2> QED
    BY <2>1, <2>2, <1>inv, <1>nat, <1>goal
<1>18. ASSUME NEW id \in Ids, NEW timer \in Lateness, TimerExpires(id, timer) PROVE Goal
  <2>1. Live' = Live
    <3>1. ASSUME NEW m \in Meta PROVE [m EXCEPT !.late = m.late \cup {timer}] # None
      BY TokensAssumption DEF Meta, Lateness
    <3>2. clients[id] \in Meta /\ clients' = [clients EXCEPT ![id] = [clients[id] EXCEPT !.late = clients[id].late \cup {timer}]]
      BY <1>18 DEF TimerExpires, SessionTypes
    <3> QED
      BY <1>18, <3>1, <3>2 DEF TimerExpires, Live, SessionTypes
  <2> QED
    BY <1>18, <2>1, <1>quiet DEF TimerExpires, taskVars
<1>19. ASSUME NEW id \in Ids, RegistryExpires(id) PROVE Goal
  BY <1>19, <1>quiet DEF RegistryExpires, serverVars, taskVars, Live
<1>22. ASSUME NEW c \in Conns, Handshake(c) PROVE Goal
  BY <1>22, <1>2, <1>3, <1>4, <1>5, <1>6, <1>7, <1>8 DEF Handshake
<1>23. ASSUME NEW t \in Tasks, Removal(t) PROVE Goal
  BY <1>23, <1>12, <1>13, <1>14, <1>15 DEF Removal
<1>24. CASE CheckBrokenStep
  <2>1. CheckBroken \in Tasks
    BY DEF Tasks
  <2> QED
    BY <1>24, <2>1, <1>16, <1>17, <1>23 DEF CheckBrokenStep
<1>25. Conns \subseteq Tasks
  BY DEF Tasks
<1> QED
  BY <1>1, <1>22, <1>9, <1>10, <1>11, <1>23, <1>24, <1>18, <1>19, <1>25 DEF SessionStep

\* Every step keeps the slot invariant.
LEMMA NextSlotInv == TypeOK /\ SlotInv /\ [Next]_vars => SlotInv'
<1> SUFFICES ASSUME TypeOK, SessionTypes, SlotInv, [Next]_vars PROVE SlotInv'
  BY SessionParts
<1>nat. /\ Cardinality(Live) \in Nat /\ Cardinality(Holding) \in Nat /\ Cardinality(Reserved) \in Nat
        /\ Cardinality(Refused) \in Nat /\ Cardinality(Conns) \in Nat
        /\ active \in Nat /\ ConcurrentLimit \in Nat
        /\ Width > ConcurrentLimit + Cardinality(Conns) + 0 + 1
  BY CountsAreNat, WidthAssumption, LimitAssumption DEF SessionTypes
<1>1. CASE SessionStep
  <2>0. paired' => paired
    BY <1>1, TrustOnlyEnds
  <2>1. CASE ~paired'
    BY <2>1 DEF SlotInv, SlotCoverage, LimitRespected, CounterBound
  <2>2. CASE paired /\ paired'
    <3>1. Backed(0, 0, 0)
      BY <2>2, <1>nat DEF Backed, SlotInv, SlotCoverage, LimitRespected, CounterBound, Refused
    <3>2. pc[CheckBroken] = "store" /\ pc'[CheckBroken] = "sleep" =>
             Cardinality(Live) + Cardinality(Holding) + 0 <= active'
      BY <1>1, <2>2, <1>nat, TrustOnlyEnds
    <3>3. Backed(0, 0, 0)'
      BY <1>1, <2>2, <3>1, <3>2, <1>nat, BackedStep
    <3>4. SessionTypes'
      BY NextSessionTypes
    <3>5. /\ Cardinality(Live') \in Nat /\ Cardinality(Holding') \in Nat /\ Cardinality(Reserved') \in Nat
          /\ Cardinality(Refused') \in Nat /\ active' \in Nat
      BY <3>4, NextCountsAreNat DEF SessionTypes
    <3> QED
      BY <3>3, <3>5, <1>nat DEF Backed, SlotInv, SlotCoverage, LimitRespected, CounterBound, Refused
  <2> QED
    BY <2>0, <2>1, <2>2
<1>2. CASE ServerRestart
  <2>1. Live' = {} /\ Holding' = {} /\ Reserved' = {} /\ Refused' = {}
    BY <1>2, ConnsAssumption DEF ServerRestart, Live, Holding, Reserved, Refused, At, Tasks
  <2>2. active' = 0 /\ scan'.actual = 0
    BY <1>2 DEF ServerRestart
  <2> QED
    BY <2>1, <2>2, FS_EmptySet, <1>nat DEF SlotInv, SlotCoverage, LimitRespected, CounterBound, Refused
<1>3. CASE UNCHANGED vars
  <2>1. Live' = Live /\ Holding' = Holding /\ Reserved' = Reserved /\ At({"unreserve"})' = At({"unreserve"})
    BY <1>3 DEF vars, Live, Holding, Reserved, At
  <2> QED
    BY <1>3, <2>1 DEF vars, SlotInv, SlotCoverage, LimitRespected, CounterBound
<1> QED
  BY <1>1, <1>2, <1>3, SessionParts

\* Releases never outrun reservations: every entry of clients and every handler
\* in flight is backed by a slot as long as every entry was reserved.
THEOREM SlotsCovered == Spec => []SlotCoverage
<1>1. TypeOK /\ SlotInv /\ [Next]_vars => (TypeOK /\ SlotInv)'
  BY NextTypeOK, NextSlotInv
<1>2. SlotInv => SlotCoverage
  BY DEF SlotInv
<1> QED
  BY InitTypeOK, InitSlotInv, <1>1, <1>2, PTL DEF Spec

\* concurrent_limit is kept by reservations in flight and entries together as
\* long as every entry was reserved.
THEOREM LimitKept == Spec => []LimitRespected
<1>1. TypeOK /\ SlotInv /\ [Next]_vars => (TypeOK /\ SlotInv)'
  BY NextTypeOK, NextSlotInv
<1>2. SlotInv => LimitRespected
  BY DEF SlotInv
<1> QED
  BY InitTypeOK, InitSlotInv, <1>1, <1>2, PTL DEF Spec

-----------------------------------------------------------------------------
(* Channels and handlers.                                                  *)

SenderInv == SenderHasHandler /\ ClosingRemovesItself

\* No channel is stored at the start.
LEMMA InitSenderInv == Init => SenderInv
BY DEF Init, SenderInv, SenderHasHandler, ClosingRemovesItself, NoSession, Session

\* Every step keeps the channels of ws_senders with a running handler.
LEMMA NextSenderInv == TypeOK /\ SenderInv /\ [Next]_vars => SenderInv'
<1> SUFFICES ASSUME TypeOK, SenderInv, [Next]_vars PROVE SenderInv'
  OBVIOUS
<1> USE ConnsAssumption, IdsAssumption DEF SenderInv, SenderHasHandler, ClosingRemovesItself, Goto
<1>t. /\ wsSenders \in [Ids -> Conns \cup {None}]
      /\ pc \in [Tasks -> ConnPcs \cup EvictorPcs]
      /\ sess \in [Conns -> [id : Ids \cup {None}, token : Tokens \cup {None}, closing : BOOLEAN]]
      /\ victim \in [Tasks -> Ids \cup {None}]
      /\ Tasks = Conns \cup {CheckBroken}
  BY DEF TypeOK, Tasks
\* A socket before its attachment owns no channel.
<1>un. ASSUME NEW c \in Conns, pc[c] \notin {"open", "rmSender", "rmClient", "rmRelease", "rmRegistry"}
       PROVE  ~sess[c].closing /\ \A id \in Ids : wsSenders[id] # c
  BY <1>un, <1>t
\* A step that leaves ws_senders alone and moves one socket whose channel is
\* not stored, or moves it within its read loop, keeps the invariant.
<1>hs. ASSUME NEW c \in Conns, NEW l, pc[c] \notin {"open", "rmSender", "rmClient", "rmRelease", "rmRegistry"},
              Goto(c, l), UNCHANGED <<wsSenders, victim>>,
              \A d \in Conns \ {c} : sess'[d] = sess[d],
              ~sess'[c].closing
       PROVE  SenderInv'
  BY <1>hs, <1>un, <1>t
<1>hang. ASSUME NEW c \in Conns, Hangup(c)
         PROVE  /\ ~sess'[c].closing /\ Goto(c, "off")
                /\ \A d \in Conns \ {c} : sess'[d] = sess[d]
  BY <1>hang, <1>t DEF Hangup, NoSession, Session
<1>1. ASSUME NEW c \in Conns, NEW id \in Ids, NEW token \in Tokens, Connect(c, id, token)
      PROVE  SenderInv'
  <2>1. \/ Hangup(c)
        \/ /\ sess' = [sess EXCEPT ![c] = Session(id, token)]
           /\ Goto(c, "lookupRedis") \/ Goto(c, "reserve") \/ Goto(c, "reconnect")
    BY <1>1 DEF Connect, Admit
  <2>2. /\ ~sess'[c].closing /\ \A d \in Conns \ {c} : sess'[d] = sess[d]
        /\ Goto(c, "off") \/ Goto(c, "lookupRedis") \/ Goto(c, "reserve") \/ Goto(c, "reconnect")
    BY <2>1, <1>hang, <1>t DEF Session
  <2>3. pc[c] = "off" /\ UNCHANGED <<wsSenders, victim>>
    BY <1>1 DEF Connect
  <2> QED
    BY <2>2, <2>3, <1>hs
<1>2. ASSUME NEW c \in Conns, LookupRedis(c) PROVE SenderInv'
  <2>1. \/ Hangup(c)
        \/ /\ sess' = [sess EXCEPT ![c] = sess[c]]
           /\ Goto(c, "reserve") \/ Goto(c, "reconnect")
    BY <1>2 DEF LookupRedis, Admit
  <2>2. ~sess[c].closing
    BY <1>2, <1>un DEF LookupRedis
  <2>3. /\ ~sess'[c].closing /\ \A d \in Conns \ {c} : sess'[d] = sess[d]
        /\ Goto(c, "off") \/ Goto(c, "reserve") \/ Goto(c, "reconnect")
    BY <2>1, <2>2, <1>hang, <1>t
  <2> QED
    BY <1>2, <2>3, <1>hs DEF LookupRedis
<1>3. ASSUME NEW c \in Conns, InsertReconnection(c) \/ Reserve(c) \/ Register(c) \/ InsertNew(c)
      PROVE  SenderInv'
  <2>1. /\ pc[c] \in {"reconnect", "reserve", "register", "insert"}
        /\ UNCHANGED <<wsSenders, victim, sess>>
        /\ \/ Goto(c, "attach") \/ Goto(c, "unreserve") \/ Goto(c, "register")
           \/ Goto(c, "insert") \/ Goto(c, "unregister")
    BY <1>3 DEF InsertReconnection, Reserve, Register, InsertNew
  <2>2. ~sess[c].closing
    BY <2>1, <1>un
  <2> QED
    BY <2>1, <2>2, <1>hs
<1>4. ASSUME NEW c \in Conns, GiveBack(c) PROVE SenderInv'
  BY <1>4, <1>hang, <1>hs DEF GiveBack
<1>5. ASSUME NEW c \in Conns, Attach(c) PROVE SenderInv'
  <2>1. ~sess[c].closing /\ sess[c].id \in Ids
    BY <1>5, <1>un DEF Attach, TypeOK
  <2> QED
    BY <1>5, <2>1, <1>un, <1>t DEF Attach
<1>6. ASSUME NEW c \in Conns, Heartbeat(c) \/ Message(c) PROVE SenderInv'
  BY <1>6 DEF Heartbeat, Message
<1>7. ASSUME NEW c \in Conns, Leave(c) \/ (\E dst \in Ids : SendToDeadPeer(c, dst)) PROVE SenderInv'
  <2>1. /\ pc[c] = "open" /\ Goto(c, "rmSender") /\ UNCHANGED <<wsSenders, sess>>
        /\ \A d \in Conns \ {c} : victim'[d] = victim[d]
    BY <1>7, <1>t DEF Leave, SendToDeadPeer
  <2>2. ~sess[c].closing
    BY <2>1
  <2> QED
    BY <2>1, <2>2, <1>t
<1>8. ASSUME NEW c \in Conns, Close(c) PROVE SenderInv'
  <2>1. CASE wsSenders[sess[c].id] = c
    <3>1. /\ pc[c] = "open" /\ Goto(c, "rmSender") /\ UNCHANGED wsSenders
          /\ victim' = [victim EXCEPT ![c] = sess[c].id]
          /\ sess' = [sess EXCEPT ![c] = [id |-> sess[c].id, token |-> sess[c].token, closing |-> TRUE]]
      BY <1>8, <2>1 DEF Close
    <3>2. /\ \A d \in Conns \ {c} : sess'[d] = sess[d] /\ victim'[d] = victim[d]
          /\ sess'[c].id = sess[c].id /\ victim'[c] = sess[c].id
      BY <3>1, <1>t
    <3> QED
      BY <3>1, <3>2, <1>t
  <2>2. CASE wsSenders[sess[c].id] # c
    <3>1. \A id \in Ids : wsSenders[id] # c
      BY <2>2, <1>t
    <3>2. Hangup(c) /\ UNCHANGED <<wsSenders, victim>>
      BY <1>8, <2>2 DEF Close
    <3> QED
      BY <3>1, <3>2, <1>hang, <1>t
  <2> QED
    BY <2>1, <2>2
<1>9. ASSUME NEW t \in Tasks, RemoveSender(t) PROVE SenderInv'
  <2>1. /\ pc[t] = "rmSender" /\ Goto(t, "rmClient") /\ UNCHANGED <<sess, victim>>
        /\ wsSenders' = [wsSenders EXCEPT ![victim[t]] = None]
    BY <1>9 DEF RemoveSender
  <2>2. t \in Conns /\ sess[t].closing => \A id \in Ids : wsSenders'[id] # t
    <3> SUFFICES ASSUME t \in Conns, sess[t].closing, NEW id \in Ids PROVE wsSenders'[id] # t
      OBVIOUS
    <3>1. victim[t] = sess[t].id
      OBVIOUS
    <3>2. wsSenders[id] = t => id = victim[t]
      BY <3>1, <1>t
    <3> QED
      BY <2>1, <3>2, <1>t
  <2>3. ASSUME NEW id \in Ids, wsSenders'[id] # None
        PROVE  wsSenders'[id] = wsSenders[id]
    BY <2>1, <2>3, <1>t
  <2> QED
    BY <2>1, <2>2, <2>3, <1>t
<1>10. ASSUME NEW t \in Tasks, RemoveClient(t) \/ Release(t) PROVE SenderInv'
  <2>1. /\ pc[t] \in {"rmClient", "rmRelease"} /\ UNCHANGED <<wsSenders, sess, victim>>
        /\ Goto(t, "rmRelease") \/ Goto(t, "rmRegistry")
    BY <1>10 DEF RemoveClient, Release
  <2> QED
    BY <2>1, <1>t
<1>11. ASSUME NEW t \in Tasks, RemoveRegistry(t) PROVE SenderInv'
  <2>1. pc[t] = "rmRegistry" /\ UNCHANGED wsSenders /\ \A d \in Tasks \ {t} : victim'[d] = victim[d]
    BY <1>11, <1>t DEF RemoveRegistry
  <2>2. CASE t = CheckBroken
    BY <1>11, <2>1, <2>2, <1>t DEF RemoveRegistry
  <2>3. CASE t # CheckBroken /\ sess[t].closing
    <3>1. Hangup(t) /\ t \in Conns
      BY <1>11, <2>3, <1>t DEF RemoveRegistry
    <3>2. \A id \in Ids : wsSenders[id] # t
      BY <2>1, <2>3, <3>1
    <3> QED
      BY <2>1, <3>1, <3>2, <1>hang, <1>t
  <2>4. CASE t # CheckBroken /\ ~sess[t].closing
    <3>1. Goto(t, "open") /\ UNCHANGED sess /\ t \in Conns
      BY <1>11, <2>4, <1>t DEF RemoveRegistry
    <3> QED
      BY <2>1, <2>4, <3>1, <1>t
  <2> QED
    BY <2>2, <2>3, <2>4
<1>12. ASSUME Scan \/ (\E id \in Ids : Evict(id)) \/ CountClients \/ StoreCounter \/ TickDone
       PROVE  SenderInv'
  <2>1. /\ UNCHANGED <<wsSenders, sess>>
        /\ \A c \in Conns : pc'[c] = pc[c] /\ victim'[c] = victim[c]
    BY <1>12, <1>t DEF Scan, Evict, CountClients, StoreCounter, TickDone
  <2> QED
    BY <2>1, <1>t
<1>13. ASSUME NEW id \in Ids, NEW timer \in Lateness, TimerExpires(id, timer) PROVE SenderInv'
  BY <1>13 DEF TimerExpires, taskVars
<1>14. ASSUME NEW id \in Ids, RegistryExpires(id) PROVE SenderInv'
  BY <1>14 DEF RegistryExpires, serverVars, taskVars
<1>15. CASE ServerRestart
  BY <1>15 DEF ServerRestart, NoSession, Session
<1>16. CASE UNCHANGED vars
  BY <1>16 DEF vars
<1>17. ASSUME NEW c \in Conns, Handshake(c) PROVE SenderInv'
  BY <1>17, <1>2, <1>3, <1>4, <1>5 DEF Handshake
<1>18. ASSUME NEW t \in Tasks, Removal(t) PROVE SenderInv'
  BY <1>18, <1>9, <1>10, <1>11 DEF Removal
<1>19. CASE CheckBrokenStep
  <2>1. CheckBroken \in Tasks
    BY DEF Tasks
  <2> QED
    BY <1>19, <2>1, <1>12, <1>18 DEF CheckBrokenStep
<1>20. Conns \subseteq Tasks
  BY DEF Tasks
<1> HIDE DEF SenderInv, SenderHasHandler, ClosingRemovesItself, Goto
<1> QED
  BY <1>1, <1>17, <1>6, <1>7, <1>8, <1>18, <1>19, <1>13, <1>14, <1>15, <1>16, <1>20 DEF Next

\* A finished handler never leaves its channel in ws_senders.
THEOREM SendersHaveHandlers == Spec => []SenderHasHandler
<1>1. TypeOK /\ SenderInv /\ [Next]_vars => (TypeOK /\ SenderInv)'
  BY NextTypeOK, NextSenderInv
<1>2. SenderInv => SenderHasHandler
  BY DEF SenderInv
<1> QED
  BY InitTypeOK, InitSenderInv, <1>1, <1>2, PTL DEF Spec

-----------------------------------------------------------------------------
(* The refinement of ConnectionLimit.                                      *)

Slots == Cardinality(Live) + Cardinality(Reserved)

\* While the bookkeeping is trusted, a step that takes or gives back one slot, or
\* none, is a step of the semaphore: the invariant says that a slot was free.
LEMMA SemaphoreStep ==
  ASSUME TypeOK, TypeOK', LimitRespected',
         paired' => paired,
         paired' => Slots' \in {Slots - 1, Slots, Slots + 1}
  PROVE  [Semaphore!Next]_<<IF paired THEN Cardinality(Live) + Cardinality(Reserved) ELSE 0, paired>>
<1>1. Slots \in Nat /\ Slots' \in Nat
  <2>1. Slots \in Nat
    BY SessionParts, CountsAreNat DEF Slots
  <2>2. Live' \subseteq Ids /\ Reserved' \subseteq Tasks
    BY DEF Live, Reserved, At
  <2>3. Cardinality(Live') \in Nat /\ Cardinality(Reserved') \in Nat
    BY <2>2, SubsetOfTasks, IdsAssumption, FS_Subset, FS_CardinalityType
  <2> QED
    BY <2>1, <2>3 DEF Slots
<1>2. paired \in BOOLEAN /\ paired' \in BOOLEAN
  BY DEF TypeOK
<1>3. CASE ~paired
  BY <1>2, <1>3
<1>4. CASE paired /\ ~paired'
  BY <1>2, <1>4 DEF Semaphore!Next, Semaphore!LoseTrust
<1>5. CASE paired /\ paired'
  <2>1. Slots' <= ConcurrentLimit
    BY <1>5 DEF LimitRespected, Slots
  <2>2. (IF paired THEN Cardinality(Live) + Cardinality(Reserved) ELSE 0) = Slots
    BY <1>5 DEF Slots
  <2>3. (IF paired THEN Cardinality(Live) + Cardinality(Reserved) ELSE 0)' = Slots'
    BY <1>5 DEF Slots
  <2>4. CASE Slots' = Slots
    BY <1>2, <1>5, <2>2, <2>3, <2>4
  <2>5. CASE Slots' = Slots + 1
    <3>1. Slots < ConcurrentLimit
      BY <1>1, <2>1, <2>5, LimitAssumption
    <3> QED
      BY <1>2, <1>5, <2>2, <2>3, <2>5, <3>1 DEF Semaphore!Next, Semaphore!Acquire
  <2>6. CASE Slots' = Slots - 1
    <3>1. Slots > 0
      BY <1>1, <2>6
    <3> QED
      BY <1>2, <1>5, <2>2, <2>3, <2>6, <3>1 DEF Semaphore!Next, Semaphore!Release
  <2> QED
    BY <1>5, <2>4, <2>5, <2>6
<1> QED
  BY <1>2, <1>3, <1>4, <1>5

\* Starting a timer again, or its running out, neither adds nor removes an entry.
LEMMA TimersKeepLive ==
  ASSUME SessionTypes
  PROVE  /\ \A c \in Conns, timer \in Lateness : RestartTimer(timer, c) => Live' = Live
         /\ \A id \in Ids, timer \in Lateness : TimerExpires(id, timer) => Live' = Live
<1>1. ASSUME NEW c \in Conns, NEW timer \in Lateness, RestartTimer(timer, c) PROVE Live' = Live
  <2>1. ASSUME NEW m PROVE [token |-> m.token, late |-> m.late \ {timer}] # None \/ m \notin Meta
    BY TokensAssumption DEF Meta, Lateness
  <2> QED
    BY <1>1, <2>1 DEF RestartTimer, Live, SessionTypes
<1>2. ASSUME NEW id \in Ids, NEW timer \in Lateness, TimerExpires(id, timer) PROVE Live' = Live
  <2>1. ASSUME NEW m \in Meta PROVE [m EXCEPT !.late = m.late \cup {timer}] # None
    BY TokensAssumption DEF Meta, Lateness
  <2>2. /\ clients[id] \in Meta
        /\ clients' = [clients EXCEPT ![id] = [clients[id] EXCEPT !.late = clients[id].late \cup {timer}]]
    BY <1>2 DEF TimerExpires, SessionTypes
  <2> QED
    BY <1>2, <2>1, <2>2 DEF TimerExpires, Live, SessionTypes
<1> QED
  BY <1>1, <1>2

\* A step takes or gives back at most one slot while the bookkeeping is trusted.
LEMMA SlotsStep ==
  ASSUME SessionTypes, SessionStep, paired'
  PROVE  Slots' \in {Slots - 1, Slots, Slots + 1}
<1> DEFINE Goal == Slots' \in {Slots - 1, Slots, Slots + 1}
<1> SUFFICES Goal
  OBVIOUS
<1>nat. Cardinality(Live) \in Nat /\ Cardinality(Reserved) \in Nat
  BY CountsAreNat
<1> HIDE DEF Goal
<1>still. ASSUME Live' = Live, pc' = pc PROVE Goal
  <2>1. Reserved' = Reserved
    BY <1>still DEF Reserved, At
  <2>2. Slots' = Slots
    BY <1>still, <2>1 DEF Slots
  <2> QED
    BY <2>2 DEF Goal
\* One task moves and no entry comes or goes: at most one reservation does.
<1>move. ASSUME NEW t \in Tasks, NEW l, Goto(t, l), Live' = Live PROVE Goal
  <2>1. Cardinality(Reserved') = Cardinality(Reserved)
               + (IF l \in {"register", "insert"} THEN 1 ELSE 0)
               - (IF pc[t] \in {"register", "insert"} THEN 1 ELSE 0)
    BY <1>move, StepCounts
  <2>2. Slots' \in {Slots - 1, Slots, Slots + 1}
    BY <1>move, <2>1, <1>nat DEF Slots
  <2> QED
    BY <2>2 DEF Goal
\* One task moves that neither makes nor uses up a reservation, and one entry
\* is written.
<1>write. ASSUME NEW t \in Tasks, NEW l, Goto(t, l),
                 l \notin {"register", "insert"}, pc[t] \notin {"register", "insert"},
                 Cardinality(Live') \in {Cardinality(Live) - 1, Cardinality(Live), Cardinality(Live) + 1}
          PROVE  Goal
  <2>1. Cardinality(Reserved') = Cardinality(Reserved)
    BY <1>write, <1>nat, StepCounts
  <2>2. Slots' \in {Slots - 1, Slots, Slots + 1}
    BY <1>write, <2>1, <1>nat DEF Slots
  <2> QED
    BY <2>2 DEF Goal
<1>type. clients \in [Ids -> Meta \cup {None}]
  BY DEF SessionTypes
<1>1. ASSUME NEW c \in Conns, NEW id \in Ids, NEW token \in Tokens, Connect(c, id, token) PROVE Goal
  <2>1. Live' = Live /\ paired' = paired /\ c \in Tasks
    BY <1>1 DEF Connect, Live, Tasks
  <2>2. Goto(c, "lookupRedis") \/ Goto(c, "reserve") \/ Goto(c, "reconnect") \/ Goto(c, "off")
    BY <1>1 DEF Connect, Admit, Hangup
  <2> QED
    BY <2>1, <2>2, <1>move
<1>2. ASSUME NEW c \in Conns, LookupRedis(c) \/ Reserve(c) \/ GiveBack(c) \/ Register(c) \/ Attach(c) PROVE Goal
  <2>1. Live' = Live /\ paired' = paired /\ c \in Tasks
    BY <1>2 DEF LookupRedis, Reserve, GiveBack, Register, Attach, Live, Tasks
  <2>2. \E l \in ConnPcs : Goto(c, l)
    BY <1>2 DEF LookupRedis, Admit, Reserve, GiveBack, Register, Attach, Hangup, ConnPcs
  <2> QED
    BY <2>1, <2>2, <1>move
\* An unpaid reconnection ends the promise; a paid one replaces its own entry.
<1>3. ASSUME NEW c \in Conns, InsertReconnection(c) PROVE Goal
  <2>1. CASE clients[sess[c].id] = None
    BY <1>3, <2>1 DEF InsertReconnection
  <2>2. CASE clients[sess[c].id] # None
    <3>1. c \in Tasks /\ sess[c].id \in Ids /\ pc[c] = "reconnect" /\ Goto(c, "attach")
      BY <1>3 DEF InsertReconnection, Tasks, SessionTypes
    <3>2. clients' = [clients EXCEPT ![sess[c].id] = NewMeta(sess[c].token)] /\ paired' = paired
      BY <1>3, <2>2 DEF InsertReconnection, SessionTypes
    <3>3. Cardinality(Live') = Cardinality(Live) + (IF NewMeta(sess[c].token) # None THEN 1 ELSE 0)
                                 - (IF clients[sess[c].id] # None THEN 1 ELSE 0)
      BY <3>1, <3>2, <1>type, LiveStep
    <3>4. Cardinality(Live') \in {Cardinality(Live) - 1, Cardinality(Live), Cardinality(Live) + 1}
      BY <3>3, <1>nat
    <3> QED
      BY <3>1, <3>2, <3>4, <1>write
  <2> QED
    BY <2>1, <2>2
\* The reservation becomes the entry; when the id has one already, a slot of the
\* semaphore is given back.
<1>4. ASSUME NEW c \in Conns, InsertNew(c) PROVE Goal
  <2>1. c \in Tasks /\ sess[c].id \in Ids /\ pc[c] = "insert" /\ Goto(c, "attach") /\ paired' = paired
    BY <1>4 DEF InsertNew, Tasks, SessionTypes
  <2>2. NewMeta(sess[c].token) # None
    BY <1>4, TokensAssumption DEF InsertNew, SessionTypes, NewMeta
  <2>3. Cardinality(Reserved') = Cardinality(Reserved) - 1
    BY <2>1, <1>nat, StepCounts
  <2>4. clients \in [Ids -> Meta \cup {None}] /\ clients' = [clients EXCEPT ![sess[c].id] = NewMeta(sess[c].token)]
    BY <1>4 DEF InsertNew, SessionTypes
  <2>5. Cardinality(Live') = Cardinality(Live) + (IF NewMeta(sess[c].token) # None THEN 1 ELSE 0)
                               - (IF clients[sess[c].id] # None THEN 1 ELSE 0)
    BY <2>1, <2>4, LiveStep
  <2>6. Slots' \in {Slots - 1, Slots}
    BY <2>2, <2>3, <2>5, <1>nat DEF Slots
  <2> QED
    BY <2>6 DEF Goal
<1>5. ASSUME NEW c \in Conns, Heartbeat(c) \/ Message(c) PROVE Goal
  <2>1. Live' = Live
    BY <1>5, TimersKeepLive DEF Heartbeat, Message, Lateness
  <2> QED
    BY <1>5, <2>1, <1>still DEF Heartbeat, Message
<1>6. ASSUME NEW c \in Conns, Leave(c) \/ \E dst \in Ids : SendToDeadPeer(c, dst) PROVE Goal
  <2>1. Live' = Live
    BY <1>6, TimersKeepLive DEF Leave, SendToDeadPeer, Lateness
  <2>2. paired' = paired /\ c \in Tasks /\ Goto(c, "rmSender")
    BY <1>6 DEF Leave, SendToDeadPeer, Tasks
  <2> QED
    BY <2>1, <2>2, <1>move
<1>7. ASSUME NEW c \in Conns, Close(c) PROVE Goal
  <2>1. Live' = Live /\ paired' = paired /\ c \in Tasks /\ (Goto(c, "rmSender") \/ Goto(c, "off"))
    BY <1>7 DEF Close, Hangup, Live, Tasks
  <2> QED
    BY <2>1, <1>move
<1>8. ASSUME NEW t \in Tasks, RemoveSender(t) \/ Release(t) \/ RemoveRegistry(t) PROVE Goal
  <2>1. /\ Live' = Live /\ paired' = paired
        /\ Goto(t, "rmClient") \/ Goto(t, "rmRegistry") \/ Goto(t, "evict") \/ Goto(t, "off") \/ Goto(t, "open")
    BY <1>8 DEF RemoveSender, Release, RemoveRegistry, Hangup, Live
  <2> QED
    BY <2>1, <1>move
<1>9. ASSUME NEW t \in Tasks, RemoveClient(t) PROVE Goal
  <2>1. /\ victim[t] \in Ids /\ clients' = [clients EXCEPT ![victim[t]] = None] /\ paired' = paired
        /\ pc[t] = "rmClient"
        /\ Goto(t, "rmRelease") \/ Goto(t, "rmRegistry")
    BY <1>9 DEF RemoveClient, SessionTypes
  <2>2. Cardinality(Live') = Cardinality(Live) + (IF None # None THEN 1 ELSE 0)
                               - (IF clients[victim[t]] # None THEN 1 ELSE 0)
    BY <2>1, <1>type, LiveStep
  <2>3. Cardinality(Live') \in {Cardinality(Live) - 1, Cardinality(Live), Cardinality(Live) + 1}
    BY <2>2, <1>nat
  <2> QED
    BY <2>1, <2>3, <1>write
<1>10. CASE Scan \/ (\E id \in Ids : Evict(id)) \/ CountClients \/ StoreCounter \/ TickDone
  <2>1. CheckBroken \in Tasks /\ clients' = clients /\ Live' = Live
    BY <1>10 DEF Scan, Evict, CountClients, StoreCounter, TickDone, Live, Tasks
  <2>2. \E l \in EvictorPcs : Goto(CheckBroken, l)
    BY <1>10 DEF Scan, Evict, CountClients, StoreCounter, TickDone, EvictorPcs
  <2> QED
    BY <2>1, <2>2, <1>move
<1>11. ASSUME NEW id \in Ids, NEW timer \in Lateness, TimerExpires(id, timer) PROVE Goal
  <2>1. Live' = Live
    BY <1>11, TimersKeepLive
  <2> QED
    BY <1>11, <2>1, <1>still DEF TimerExpires, taskVars
<1>12. ASSUME NEW id \in Ids, RegistryExpires(id) PROVE Goal
  BY <1>12, <1>still DEF RegistryExpires, serverVars, taskVars, Live
<1>15. ASSUME NEW c \in Conns, Handshake(c) PROVE Goal
  BY <1>15, <1>2, <1>3, <1>4 DEF Handshake
<1>16. ASSUME NEW t \in Tasks, Removal(t) PROVE Goal
  BY <1>16, <1>8, <1>9 DEF Removal
<1>17. CASE CheckBrokenStep
  <2>1. CheckBroken \in Tasks
    BY DEF Tasks
  <2> QED
    BY <1>17, <2>1, <1>10, <1>16 DEF CheckBrokenStep
<1>18. Conns \subseteq Tasks
  BY DEF Tasks
<1> QED
  BY <1>1, <1>15, <1>5, <1>6, <1>7, <1>16, <1>17, <1>11, <1>12, <1>18 DEF SessionStep

\* Every step is a step of the semaphore, or leaves its slots as they are.
LEMMA NextSemaphore ==
  TypeOK /\ SlotInv /\ [Next]_vars =>
    [Semaphore!Next]_<<IF paired THEN Cardinality(Live) + Cardinality(Reserved) ELSE 0, paired>>
<1> SUFFICES ASSUME TypeOK, SessionTypes, SlotInv, [Next]_vars
             PROVE  [Semaphore!Next]_<<IF paired THEN Cardinality(Live) + Cardinality(Reserved) ELSE 0, paired>>
  BY SessionParts
<1>1. CASE SessionStep
  <2>1. TypeOK' /\ LimitRespected'
    BY NextTypeOK, NextSlotInv DEF SlotInv
  <2>2. (paired' => paired) /\ (paired' => Slots' \in {Slots - 1, Slots, Slots + 1})
    BY <1>1, TrustOnlyEnds, SlotsStep
  <2> QED
    BY <2>1, <2>2, SemaphoreStep
<1>2. CASE ServerRestart
  <2>1. Live' = {} /\ Reserved' = {} /\ paired' = TRUE
    BY <1>2, ConnsAssumption DEF ServerRestart, Live, Reserved, At, Tasks
  <2>2. Cardinality(Live') + Cardinality(Reserved') = 0
    BY <2>1, FS_EmptySet
  <2> QED
    BY <2>1, <2>2 DEF Semaphore!Next, Semaphore!Restart
<1>3. CASE UNCHANGED vars
  BY <1>3 DEF vars, Live, Reserved, At
<1> QED
  BY <1>1, <1>2, <1>3, SessionParts

\* The handshakes, the removal paths and check_broken, interleaved in any way,
\* implement the counting semaphore that active_connections of state.rs is meant
\* to be, for every limit and any number of sockets.
THEOREM ImplementsSemaphore == Spec => ImplementsLimit
<1>1. Init => Semaphore!Init
  <2> SUFFICES ASSUME Init PROVE Semaphore!Init
    OBVIOUS
  <2>1. Live = {} /\ Reserved = {} /\ paired = TRUE
    BY ConnsAssumption DEF Init, Live, Reserved, At, Tasks
  <2> QED
    BY <2>1, FS_EmptySet DEF Semaphore!Init
<1>2. TypeOK /\ SlotInv /\ [Next]_vars => (TypeOK /\ SlotInv)'
  BY NextTypeOK, NextSlotInv
<1> QED
  BY <1>1, <1>2, InitTypeOK, InitSlotInv, NextSemaphore, PTL DEF Spec, ImplementsLimit, Semaphore!Spec
=============================================================================
