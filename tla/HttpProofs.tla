----------------------------- MODULE HttpProofs -----------------------------
(***************************************************************************)
(* Theorems about HttpTransports, the composition of the WebSocket sessions *)
(* with the HTTP transports, for any number of sockets, requests, ids,      *)
(* tokens and channels and every limit.                                     *)
(***************************************************************************)
EXTENDS HttpTransports, SessionsProofs

-----------------------------------------------------------------------------
(* The inductive invariants.                                               *)

RequestRecords ==
    [pc : RequestPcs, kind : {"none", "sse", "poll", "send"},
     id : Ids \cup {None}, token : Tokens \cup {None}, isNew : BOOLEAN,
     tx : Conns \cup Chans \cup {None}, rx : Chans \cup {None}]

\* The places of a request before its entry is inserted, in the order of the code.
Admission == {"check", "reserve", "unreserve", "getRx", "getTx", "buildTx", "buildRx", "backend", "insert"}
\* The places of cleanup_client.
Cleaning == {"clSender", "clRx", "clClient", "clRelease", "clRegistry"}

\* What a request knows at each place of its code.
RequestStates ==
    {x \in RequestRecords :
        /\ x.pc = "off" => x = Idle
        /\ x.pc # "off" => x.id \in Ids
        /\ x.pc \in Admission => x.token \in Tokens
        /\ x.pc = "reserve" => x.isNew
        /\ x.pc \in Admission \cup {"deliver"} => x.kind \in {"sse", "poll"}
        /\ x.pc \in {"getRx", "getTx", "buildTx", "buildRx", "touch", "wait"} => x.kind = "poll"
        /\ x.pc \in {"attach", "stream", "dropped", "unwatched", "clRx"} => x.kind = "sse"
        /\ x.pc = "handle" => x.kind = "send"
        /\ x.pc \in Cleaning => x.kind \in {"sse", "send"}
        /\ x.pc = "buildRx" => x.rx \in Chans
        /\ x.pc \in {"stream", "dropped", "unwatched"} \/ (x.pc = "deliver" /\ x.kind = "sse") =>
              x.tx = x.rx /\ x.tx # None}

HttpShape ==
    /\ SessionTypes
    /\ wsSenders \in [Ids -> Conns \cup Chans \cup {None}]
    /\ pollRx \in [Ids -> Chans \cup {None}]
    /\ req \in [Requests -> RequestStates]
    /\ mixed \in [Ids -> BOOLEAN]
    /\ covered \in BOOLEAN
    /\ covered => paired

\* A request holds a slot: one that it is going to turn into an entry, one that
\* it was refused, or that of an entry it has removed.
Booked(x) == x.isNew /\ x.pc \in {"getRx", "getTx", "buildTx", "buildRx", "backend", "insert"}
Held(x) == Booked(x) \/ x.pc \in {"unreserve", "clRelease"}
HoldingStates == {x \in RequestStates : Held(x)}
ReservedStates == {x \in RequestStates : Booked(x)}
RefusedStates == {x \in RequestStates : x.pc = "unreserve"}
Serving(states) == {q \in Requests : req[q] \in states}

\* What the requests hold.
HttpHeld == Cardinality(Serving(HoldingStates))
HttpBooked == Cardinality(Serving(ReservedStates))
HttpRefused == Cardinality(Serving(RefusedStates))

\* Sockets and requests together are accounted for, as in module Sessions.
HttpBacked ==
    covered => Backed(HttpHeld, HttpBooked, HttpRefused)

\* A client that only polls, one poll at a time, has no socket and no stream,
\* and the channel that a poll has stored the sender of is the one whose
\* receiver it is going to store.
PollInv ==
    /\ \A c \in Conns : pc[c] # "off" => mixed[sess[c].id]
    /\ \A q \in Requests : req[q].kind = "sse" => mixed[req[q].id]
    /\ \A p, q \in Requests :
          req[p].kind = "poll" /\ req[q].kind = "poll" /\ req[p].id = req[q].id =>
              p = q \/ mixed[req[p].id]
    /\ \A q \in Requests :
          req[q].pc = "buildRx" /\ ~mixed[req[q].id] => wsSenders[req[q].id] \in {None, req[q].rx}
    /\ PollEndsMatch

-----------------------------------------------------------------------------
(* Counting requests, and making channels.                                 *)

\* There are finitely many requests.
LEMMA ServingFinite ==
  /\ Cardinality(Requests) \in Nat
  /\ \A S \in SUBSET Requests : IsFiniteSet(S) /\ Cardinality(S) \in Nat /\ Cardinality(S) <= Cardinality(Requests)
BY RequestsAssumption, FS_Subset, FS_CardinalityType

\* A step of one request moves it, and only it, into or out of a set of states.
LEMMA ServingStep ==
  ASSUME NEW W, NEW q \in Requests, NEW x, req \in [Requests -> RequestStates], req' = [req EXCEPT ![q] = x]
  PROVE  /\ Cardinality(Serving(W)) \in Nat
         /\ Cardinality(Serving(W)') \in Nat
         /\ Cardinality(Serving(W)') =
              Cardinality(Serving(W)) + (IF x \in W THEN 1 ELSE 0) - (IF req[q] \in W THEN 1 ELSE 0)
<1>0. Serving(W) \subseteq Requests /\ Serving(W)' \subseteq Requests
  BY DEF Serving
<1>1. IsFiniteSet(Serving(W)) /\ Cardinality(Serving(W)) \in Nat /\ Cardinality(Serving(W)') \in Nat
  BY <1>0, ServingFinite
<1>2. CASE x \in W /\ req[q] \notin W
  <2>1. Serving(W)' = Serving(W) \cup {q} /\ q \notin Serving(W)
    BY <1>2 DEF Serving
  <2>2. Cardinality(Serving(W) \cup {q}) = Cardinality(Serving(W)) + 1
    BY <1>1, <2>1, FS_AddElement
  <2> QED
    BY <1>1, <1>2, <2>1, <2>2
<1>3. CASE x \notin W /\ req[q] \in W
  <2>1. Serving(W)' = Serving(W) \ {q} /\ q \in Serving(W)
    BY <1>3 DEF Serving
  <2>2. Cardinality(Serving(W) \ {q}) = Cardinality(Serving(W)) - 1
    BY <1>1, <2>1, FS_RemoveElement
  <2> QED
    BY <1>1, <1>3, <2>1, <2>2
<1>4. CASE (x \in W) = (req[q] \in W)
  <2>1. Serving(W)' = Serving(W)
    BY <1>4 DEF Serving
  <2> QED
    BY <1>1, <1>4, <2>1
<1> QED
  BY <1>2, <1>3, <1>4

\* The sets of the model by the states of their requests.
LEMMA HoldingByStates ==
  ASSUME req \in [Requests -> RequestStates]
  PROVE  HttpHolding = Serving(HoldingStates) /\ HttpReserved = Serving(ReservedStates)
BY DEF HttpHolding, HttpReserved, Serving, HoldingStates, ReservedStates, Held, Booked, RequestsAt

\* The values of a function on a finite set are no more than its arguments.
LEMMA FewValues ==
  ASSUME NEW S, IsFiniteSet(S), NEW f
  PROVE  /\ IsFiniteSet({f[x] : x \in S})
         /\ Cardinality({f[x] : x \in S}) \in Nat
         /\ Cardinality(S) \in Nat
         /\ Cardinality({f[x] : x \in S}) <= Cardinality(S)
<1> DEFINE g == [x \in S |-> f[x]]
           T == {f[x] : x \in S}
<1>1. g \in Surjection(S, T)
  BY DEF Surjection
<1>2. IsFiniteSet(T) /\ Cardinality(T) <= Cardinality(S)
  BY <1>1, FS_Surjection
<1> QED
  BY <1>2, FS_CardinalityType

\* A union is finite and no larger than its parts together.
LEMMA UnionBound ==
  ASSUME NEW S, IsFiniteSet(S), NEW T, IsFiniteSet(T)
  PROVE  /\ IsFiniteSet(S \cup T)
         /\ Cardinality(S \cup T) \in Nat
         /\ Cardinality(S \cup T) <= Cardinality(S) + Cardinality(T)
<1>1. IsFiniteSet(S \cup T) /\ Cardinality(S \cup T) = Cardinality(S) + Cardinality(T) - Cardinality(S \cap T)
  BY FS_Union
<1>2. IsFiniteSet(S \cap T)
  BY FS_Subset
<1>3. /\ Cardinality(S) \in Nat /\ Cardinality(T) \in Nat
      /\ Cardinality(S \cap T) \in Nat /\ Cardinality(S \cup T) \in Nat
  BY <1>1, <1>2, FS_CardinalityType
<1> QED
  BY <1>1, <1>3

\* mpsc::unbounded_channel returns a channel that nothing refers to yet.
LEMMA FreshChannel ==
  /\ Fresh \in Chans
  /\ Fresh # None
  /\ \A id \in Ids : Fresh \notin {wsSenders[id], pollRx[id]}
  /\ \A q \in Requests : Fresh \notin {req[q].tx, req[q].rx}
<1> DEFINE A == {wsSenders[id] : id \in Ids}
           B == {pollRx[id] : id \in Ids}
           txs == [q \in Requests |-> req[q].tx]
           rxs == [q \in Requests |-> req[q].rx]
           C == {txs[q] : q \in Requests}
           D == {rxs[q] : q \in Requests}
<1>1. /\ IsFiniteSet(A) /\ Cardinality(A) <= Cardinality(Ids) /\ Cardinality(A) \in Nat
      /\ IsFiniteSet(B) /\ Cardinality(B) <= Cardinality(Ids) /\ Cardinality(B) \in Nat
      /\ IsFiniteSet(C) /\ Cardinality(C) <= Cardinality(Requests) /\ Cardinality(C) \in Nat
      /\ IsFiniteSet(D) /\ Cardinality(D) <= Cardinality(Requests) /\ Cardinality(D) \in Nat
      /\ Cardinality(Ids) \in Nat /\ Cardinality(Requests) \in Nat
  <2> HIDE DEF txs, rxs
  <2> QED
    BY IdsAssumption, RequestsAssumption, FewValues
<1>2. IsFiniteSet((A \cup B) \cup (C \cup D)) /\
      Cardinality((A \cup B) \cup (C \cup D)) <= 2 * Cardinality(Ids) + 2 * Cardinality(Requests)
  <2> HIDE DEF A, B, C, D
  <2>1. IsFiniteSet(A \cup B) /\ Cardinality(A \cup B) <= Cardinality(A) + Cardinality(B) /\ Cardinality(A \cup B) \in Nat
    BY <1>1, UnionBound
  <2>2. IsFiniteSet(C \cup D) /\ Cardinality(C \cup D) <= Cardinality(C) + Cardinality(D) /\ Cardinality(C \cup D) \in Nat
    BY <1>1, UnionBound
  <2>3. /\ IsFiniteSet((A \cup B) \cup (C \cup D)) /\ Cardinality((A \cup B) \cup (C \cup D)) \in Nat
        /\ Cardinality((A \cup B) \cup (C \cup D)) <= Cardinality(A \cup B) + Cardinality(C \cup D)
    BY <2>1, <2>2, UnionBound
  <2> QED
    BY <1>1, <2>1, <2>2, <2>3
<1>3. \E ch \in Chans : ch \notin (A \cup B) \cup (C \cup D)
  <2> SUFFICES ASSUME Chans \subseteq (A \cup B) \cup (C \cup D) PROVE FALSE
    OBVIOUS
  <2> HIDE DEF A, B, C, D
  <2>1. IsFiniteSet(Chans) /\ Cardinality(Chans) <= 2 * Cardinality(Ids) + 2 * Cardinality(Requests)
        /\ Cardinality(Chans) \in Nat
    BY <1>1, <1>2, FS_Subset, FS_CardinalityType
  <2> QED
    BY <1>1, <2>1, ChansAssumption
<1>4. \E ch \in Chans :
        /\ \A id \in Ids : ch \notin {wsSenders[id], pollRx[id]}
        /\ \A q \in Requests : ch \notin {req[q].tx, req[q].rx}
  BY <1>3
<1> QED
  BY <1>4, ChansAssumption DEF Fresh

-----------------------------------------------------------------------------
(* Types.                                                                  *)

\* The steps of a request.
RequestStep(q) ==
    \/ \E kind \in {"sse", "poll"}, id \in Ids, token \in Tokens : Request(q, kind, id, token)
    \/ \E id \in Ids, token \in Tokens : Send(q, id, token)
    \/ RequestRuns(q)
    \/ Cancel(q)
    \/ Disconnect(q)

\* The steps of the sessions by which no socket comes.
SteadyStep ==
    \/ \E c \in Conns :
          \/ Handshake(c) \/ Removal(c)
          \/ Heartbeat(c) \/ Message(c) \/ Leave(c) \/ Close(c)
          \/ \E dst \in Ids : SendToDeadPeer(c, dst)
    \/ CheckBrokenStep
    \/ \E id \in Ids, timer \in Lateness : TimerExpires(id, timer)
    \/ \E id \in Ids : RegistryExpires(id)

\* A step of the composition is a step of the sessions, with what this module
\* notes of it, a step of one request, or a restart.
LEMMA HttpSteps ==
  ASSUME HttpNext
  PROVE  \/ SessionStep /\ SteadyStep /\ Aside
         \/ /\ \E c \in Conns, id \in Ids, token \in Tokens :
                   Connect(c, id, token) /\ mixed' = [mixed EXCEPT ![id] = TRUE]
            /\ UNCHANGED <<req, pollRx, covered>>
         \/ \E q \in Requests : RequestStep(q)
         \/ HttpRestart
<1>1. ASSUME NEW c \in Conns, SocketRuns(c) PROVE SessionStep /\ SteadyStep /\ Aside
  BY <1>1 DEF SocketRuns, SessionStep, SteadyStep
<1>2. ASSUME NEW c \in Conns, SocketStep(c),
             ~\E id \in Ids, token \in Tokens : Connect(c, id, token) /\ mixed' = [mixed EXCEPT ![id] = TRUE]
      PROVE  SessionStep /\ SteadyStep /\ Aside
  BY <1>2 DEF SocketStep, SessionStep, SteadyStep
<1>3. ASSUME NEW c \in Conns, SocketStep(c),
             \E id \in Ids, token \in Tokens : Connect(c, id, token) /\ mixed' = [mixed EXCEPT ![id] = TRUE]
      PROVE  \/ SessionStep /\ SteadyStep /\ Aside
             \/ UNCHANGED <<req, pollRx, covered>>
  BY <1>3 DEF SocketStep, SessionStep, SteadyStep
<1>4. CheckBrokenStep /\ Aside => SessionStep /\ SteadyStep /\ Aside
  BY DEF SessionStep, SteadyStep
<1>5. (\E id \in Ids, timer \in Lateness : TimerExpires(id, timer) /\ Aside) => SessionStep /\ SteadyStep /\ Aside
  BY DEF SessionStep, SteadyStep
<1>6. (\E id \in Ids : RegistryExpires(id) /\ Aside) => SessionStep /\ SteadyStep /\ Aside
  BY DEF SessionStep, SteadyStep
<1> QED
  BY <1>1, <1>2, <1>3, <1>4, <1>5, <1>6 DEF HttpNext, RequestStep

\* The initial state has the shape.
LEMMA InitHttpShape == HttpInit => HttpShape
<1> SUFFICES ASSUME HttpInit PROVE HttpShape
  OBVIOUS
<1>1. SessionTypes
  BY InitTypeOK, SessionParts DEF HttpInit
<1>2. Idle \in RequestStates
  BY DEF Idle, RequestStates, RequestRecords, RequestPcs, Admission, Cleaning
<1> QED
  BY <1>1, <1>2 DEF HttpInit, HttpShape, Init

\* A connect is a step of the sessions.
LEMMA ConnectIsStep ==
  ASSUME NEW c \in Conns, NEW id \in Ids, NEW token \in Tokens, Connect(c, id, token)
  PROVE  SessionStep
BY DEF SessionStep

\* Every step keeps the shape: each place of a request has what the code there uses.
LEMMA NextHttpShape == HttpShape /\ [HttpNext]_allVars => HttpShape'
<1> SUFFICES ASSUME HttpShape, [HttpNext]_allVars PROVE HttpShape'
  OBVIOUS
<1>t. /\ SessionTypes
      /\ clients \in [Ids -> Meta \cup {None}] /\ active \in 0 .. Width - 1
      /\ registry \in [Ids -> Tokens \cup {None}]
      /\ wsSenders \in [Ids -> Conns \cup Chans \cup {None}]
      /\ pollRx \in [Ids -> Chans \cup {None}]
      /\ req \in [Requests -> RequestStates]
      /\ mixed \in [Ids -> BOOLEAN] /\ covered \in BOOLEAN /\ (covered => paired)
  BY DEF HttpShape, SessionTypes
<1>1. CASE SessionStep /\ Aside
  <2>1. SessionTypes'
    BY <1>1, <1>t, NextSessionTypes, SessionParts
  <2>2. wsSenders' \in [Ids -> Conns \cup Chans \cup {None}]
    BY <1>1, <1>t, SenderStep
  <2>3. covered' \in BOOLEAN /\ (covered' => paired')
    BY <1>1, <1>t, Zenon DEF Aside
  <2> QED
    BY <1>1, <2>1, <2>2, <2>3, <1>t DEF HttpShape, Aside
<1>2. ASSUME NEW c \in Conns, NEW id \in Ids, NEW token \in Tokens,
             Connect(c, id, token), mixed' = [mixed EXCEPT ![id] = TRUE], UNCHANGED <<req, pollRx, covered>>
      PROVE  HttpShape'
  <2>1. SessionTypes'
    BY <1>2, <1>t, NextSessionTypes, SessionParts, ConnectIsStep
  <2>2. paired' = paired /\ wsSenders' = wsSenders
    BY <1>2 DEF Connect
  <2> QED
    BY <1>2, <2>1, <2>2, <1>t DEF HttpShape
\* The steps of requests leave the tasks of module Sessions alone.
<1>goal. ASSUME clients' \in [Ids -> Meta \cup {None}], active' \in 0 .. Width - 1,
                registry' \in [Ids -> Tokens \cup {None}],
                wsSenders' \in [Ids -> Conns \cup Chans \cup {None}],
                pollRx' \in [Ids -> Chans \cup {None}],
                req' \in [Requests -> RequestStates],
                mixed' \in [Ids -> BOOLEAN], covered' \in BOOLEAN, covered' => covered,
                UNCHANGED <<pc, sess, victim, scan, paired>>
         PROVE  HttpShape'
  <2>1. SessionTypes'
    BY <1>goal, <1>t DEF SessionTypes
  <2> QED
    BY <1>goal, <2>1, <1>t DEF HttpShape
<1>one. ASSUME NEW q \in Requests, NEW x \in RequestStates, req' = [req EXCEPT ![q] = x]
        PROVE  req' \in [Requests -> RequestStates]
  BY <1>one, <1>t
<1>idle. Idle \in RequestStates
  BY DEF Idle, RequestStates, RequestRecords, RequestPcs, Admission, Cleaning
<1>end. ASSUME NEW q \in Requests, End(q) PROVE req' \in [Requests -> RequestStates]
  BY <1>end, <1>idle, <1>t DEF End
<1>move. ASSUME NEW q \in Requests, NEW l, Move(q, l), [req[q] EXCEPT !.pc = l] \in RequestStates
         PROVE  req' \in [Requests -> RequestStates]
  BY <1>move, <1>t DEF Move
<1>clean. ASSUME NEW q \in Requests, NEW id \in Ids, req[q].kind \in {"sse", "send"}, Clean(q, id, "clSender")
          PROVE  req' \in [Requests -> RequestStates]
  <2>1. [Idle EXCEPT !.pc = "clSender", !.id = id, !.kind = req[q].kind] \in RequestStates
    BY <1>clean DEF Idle, RequestStates, RequestRecords, RequestPcs, Admission, Cleaning
  <2> QED
    BY <1>clean, <2>1, <1>t DEF Clean
<1>wrap. Wrap(active + 1) \in 0 .. Width - 1 /\ Wrap(active - 1) \in 0 .. Width - 1
  BY <1>t, WrapFacts, WidthAssumption
<1>meta. \A token \in Tokens : NewMeta(token) \in Meta
  BY DEF NewMeta, Meta
<1>timer. ASSUME NEW id \in Ids, NEW timer,
                 clients' = [clients EXCEPT ![id] = IF @ = None THEN None ELSE [token |-> @.token, late |-> @.late \ {timer}]]
          PROVE  clients' \in [Ids -> Meta \cup {None}]
  BY <1>timer, <1>t DEF Meta
<1>x. ASSUME NEW q \in Requests
      PROVE  req[q] \in RequestStates /\ req[q] \in RequestRecords
  BY <1>x, <1>t DEF RequestStates
<1> USE DEF vars, serverVars, taskVars
<1>3. ASSUME NEW q \in Requests, NEW kind \in {"sse", "poll"}, NEW id \in Ids, NEW token \in Tokens,
             Request(q, kind, id, token)
      PROVE  HttpShape'
  <2> DEFINE isNew == clients[id] = None
             x == [Idle EXCEPT !.pc = IF kind = "poll" /\ isNew THEN "reserve" ELSE "check",
                               !.kind = kind, !.id = id, !.token = token, !.isNew = isNew]
  <2>1. x \in RequestStates
    <3>1. /\ x \in RequestRecords
          /\ x.pc \in {"reserve", "check"} /\ (x.pc = "reserve" => x.isNew) /\ x.kind = kind /\ x.id = id /\ x.token = token
      BY DEF Idle, RequestRecords, RequestPcs
    <3> HIDE DEF x
    <3> QED
      BY <3>1 DEF RequestStates, Admission, Cleaning
  <2>2. req' \in [Requests -> RequestStates]
    BY <1>3, <2>1, <1>one DEF Request
  <2>3. mixed' \in [Ids -> BOOLEAN]
    BY <1>3, <1>t DEF Request
  <2> QED
    BY <1>3, <2>2, <2>3, <1>t, <1>goal DEF Request
<1>4. ASSUME NEW q \in Requests, NEW id \in Ids, NEW token \in Tokens, Send(q, id, token) PROVE HttpShape'
  <2>1. [Idle EXCEPT !.pc = "handle", !.kind = "send", !.id = id] \in RequestStates
    BY DEF Idle, RequestStates, RequestRecords, RequestPcs, Admission, Cleaning
  <2>2. req' \in [Requests -> RequestStates]
    BY <1>4, <2>1, <1>one DEF Send
  <2>3. clients' \in [Ids -> Meta \cup {None}]
    BY <1>4, <1>t DEF Send, Meta
  <2> QED
    BY <1>4, <2>2, <2>3, <1>t, <1>goal DEF Send
<1>5. ASSUME NEW q \in Requests, CheckToken(q) PROVE HttpShape'
  <2> DEFINE l == IF req[q].isNew THEN "reserve" ELSE IF req[q].kind = "sse" THEN "backend" ELSE "getRx"
  <2>1. [req[q] EXCEPT !.pc = l] \in RequestStates
    BY <1>5, <1>x DEF CheckToken, RequestStates, RequestRecords, RequestPcs, Admission, Cleaning
  <2>2. req' \in [Requests -> RequestStates]
    BY <1>5, <2>1, <1>end, <1>move DEF CheckToken
  <2> QED
    BY <1>5, <2>2, <1>t, <1>goal DEF CheckToken
<1>6. ASSUME NEW q \in Requests, HttpReserve(q) PROVE HttpShape'
  <2> DEFINE l == IF active >= ConcurrentLimit THEN "unreserve" ELSE IF req[q].kind = "sse" THEN "backend" ELSE "getRx"
  <2>1. [req[q] EXCEPT !.pc = l] \in RequestStates
    BY <1>6, <1>x DEF HttpReserve, RequestStates, RequestRecords, RequestPcs, Admission, Cleaning
  <2>2. req' \in [Requests -> RequestStates]
    BY <1>6, <2>1, <1>move DEF HttpReserve
  <2> QED
    BY <1>6, <2>2, <1>wrap, <1>t, <1>goal DEF HttpReserve
<1>7. ASSUME NEW q \in Requests, HttpGiveBack(q) PROVE HttpShape'
  BY <1>7, <1>end, <1>wrap, <1>t, <1>goal DEF HttpGiveBack
<1>8. ASSUME NEW q \in Requests, GetRx(q) PROVE HttpShape'
  <2>0. req[q].id \in Ids /\ req[q].pc = "getRx"
    BY <1>8, <1>x DEF GetRx, RequestStates
  <2>1. PICK ch \in Chans \cup {None} : ch = pollRx[req[q].id]
    BY <2>0, <1>t
  <2>2. req' = [req EXCEPT ![q] = [req[q] EXCEPT !.pc = "getTx", !.rx = ch]]
    BY <1>8, <2>1 DEF GetRx
  <2>3. [req[q] EXCEPT !.pc = "getTx", !.rx = ch] \in RequestStates
    <3>1. PICK x \in RequestStates : x = req[q]
      BY <1>x
    <3> DEFINE y == [x EXCEPT !.pc = "getTx", !.rx = ch]
    <3>2. /\ y \in RequestRecords
          /\ y.pc = "getTx" /\ y.tx = x.tx /\ y.rx = ch
          /\ y.kind = x.kind /\ y.id = x.id /\ y.token = x.token /\ y.isNew = x.isNew
      BY <2>0, <3>1 DEF RequestStates, RequestRecords, RequestPcs
    <3>3. y \in RequestStates
      <4> HIDE DEF y
      <4> QED
        BY <2>0, <3>1, <3>2 DEF RequestStates, Admission, Cleaning
    <3> QED
      BY <3>1, <3>3
  <2> QED
    BY <1>8, <2>2, <2>3, <1>one, <1>t, <1>goal DEF GetRx
<1>9. ASSUME NEW q \in Requests, GetTx(q) PROVE HttpShape'
  <2>0. req[q].id \in Ids /\ req[q].pc = "getTx"
    BY <1>9, <1>x DEF GetTx, RequestStates
  <2>1. PICK ch \in Conns \cup Chans \cup {None} : ch = wsSenders[req[q].id]
    BY <2>0, <1>t
  <2>2. PICK l \in {"backend", "touch"} : l = Ready(q)
    BY DEF Ready
  <2>3. \/ req' = [req EXCEPT ![q] = [req[q] EXCEPT !.pc = l, !.tx = ch]]
        \/ req' = [req EXCEPT ![q] = [req[q] EXCEPT !.pc = "buildTx", !.rx = None]]
    BY <1>9, <2>1, <2>2 DEF GetTx
  <2>4. [req[q] EXCEPT !.pc = l, !.tx = ch] \in RequestStates
    <3>1. PICK x \in RequestStates : x = req[q]
      BY <1>x
    <3> DEFINE y == [x EXCEPT !.pc = l, !.tx = ch]
    <3>2. /\ y \in RequestRecords
          /\ y.pc = l /\ y.tx = ch /\ y.rx = x.rx
          /\ y.kind = x.kind /\ y.id = x.id /\ y.token = x.token /\ y.isNew = x.isNew
      BY <2>0, <3>1 DEF RequestStates, RequestRecords, RequestPcs
    <3>3. y \in RequestStates
      <4> HIDE DEF y
      <4> QED
        BY <2>0, <3>1, <3>2 DEF RequestStates, Admission, Cleaning
    <3> QED
      BY <3>1, <3>3
  <2>5. [req[q] EXCEPT !.pc = "buildTx", !.rx = None] \in RequestStates
    <3>1. PICK x \in RequestStates : x = req[q]
      BY <1>x
    <3> DEFINE y == [x EXCEPT !.pc = "buildTx", !.rx = None]
    <3>2. /\ y \in RequestRecords
          /\ y.pc = "buildTx" /\ y.tx = x.tx /\ y.rx = None
          /\ y.kind = x.kind /\ y.id = x.id /\ y.token = x.token /\ y.isNew = x.isNew
      BY <2>0, <3>1 DEF RequestStates, RequestRecords, RequestPcs
    <3>3. y \in RequestStates
      <4> HIDE DEF y
      <4> QED
        BY <2>0, <3>1, <3>2 DEF RequestStates, Admission, Cleaning
    <3> QED
      BY <3>1, <3>3
  <2>6. req' \in [Requests -> RequestStates]
    BY <2>3, <2>4, <2>5, <1>one
  <2> QED
    BY <1>9, <2>6, <1>t, <1>goal DEF GetTx
<1>fresh. ASSUME NEW q \in Requests, NEW l \in {"buildRx", "deliver"},
                 req[q].pc = IF l = "buildRx" THEN "buildTx" ELSE "attach",
                 wsSenders' = [wsSenders EXCEPT ![req[q].id] = Fresh],
                 req' = [req EXCEPT ![q].pc = l, ![q].tx = Fresh, ![q].rx = Fresh]
          PROVE  /\ req' \in [Requests -> RequestStates]
                 /\ wsSenders' \in [Ids -> Conns \cup Chans \cup {None}]
  <2>0. req[q].pc = IF l = "buildRx" THEN "buildTx" ELSE "attach"
    BY <1>fresh
  <2>1. PICK ch \in Chans : ch = Fresh
    BY FreshChannel
  <2>2. [req[q] EXCEPT !.pc = l, !.tx = ch, !.rx = ch] \in RequestStates
    <3>1. PICK x \in RequestStates : x = req[q]
      BY <1>x
    <3> DEFINE y == [x EXCEPT !.pc = l, !.tx = ch, !.rx = ch]
    <3>2. /\ y \in RequestRecords
          /\ y.pc = l /\ y.tx = ch /\ y.rx = ch
          /\ y.kind = x.kind /\ y.id = x.id /\ y.token = x.token /\ y.isNew = x.isNew
      <4>1. x \in RequestRecords
        BY DEF RequestStates
      <4> QED
        BY <4>1 DEF RequestRecords, RequestPcs
    <3>3. y \in RequestStates
      <4> HIDE DEF y
      <4> QED
        BY <3>1, <3>2, <2>0, ChansAssumption DEF RequestStates, Admission, Cleaning
    <3> QED
      BY <3>1, <3>3
  <2>3. req' = [req EXCEPT ![q] = [req[q] EXCEPT !.pc = l, !.tx = ch, !.rx = ch]]
    BY <1>fresh, <2>1
  <2>4. wsSenders' = [wsSenders EXCEPT ![req[q].id] = ch]
    BY <1>fresh, <2>1
  <2> QED
    BY <2>1, <2>2, <2>3, <2>4, <1>one, <1>t
<1>10. ASSUME NEW q \in Requests, BuildTx(q) PROVE HttpShape'
  <2>1. /\ req' \in [Requests -> RequestStates]
        /\ wsSenders' \in [Ids -> Conns \cup Chans \cup {None}]
    BY <1>10, <1>fresh, Zenon DEF BuildTx
  <2>2. UNCHANGED <<clients, active, registry, taskVars, paired, pollRx, covered, mixed, starts>>
    BY <1>10, Zenon DEF BuildTx
  <2> QED
    BY <2>1, <2>2, <1>t, <1>goal
<1>11. ASSUME NEW q \in Requests, BuildRx(q) PROVE HttpShape'
  <2>1. [req[q] EXCEPT !.pc = Ready(q)] \in RequestStates
    BY <1>11, <1>x DEF BuildRx, Ready, RequestStates, RequestRecords, RequestPcs, Admission, Cleaning
  <2>2. req[q].id \in Ids /\ req[q].rx \in Chans
    BY <1>11, <1>x DEF BuildRx, RequestStates
  <2>3. pollRx' \in [Ids -> Chans \cup {None}]
    BY <1>11, <2>2, <1>t DEF BuildRx
  <2>4. req' \in [Requests -> RequestStates]
    BY <1>11, <2>1, <1>move DEF BuildRx
  <2> QED
    BY <1>11, <2>3, <2>4, <1>t, <1>goal DEF BuildRx
<1>12. ASSUME NEW q \in Requests, RegisterBackend(q) PROVE HttpShape'
  <2>1. [req[q] EXCEPT !.pc = "insert"] \in RequestStates
    BY <1>12, <1>x DEF RegisterBackend, RequestStates, RequestRecords, RequestPcs, Admission, Cleaning
  <2>2. req[q].id \in Ids /\ req[q].token \in Tokens
    BY <1>12, <1>x DEF RegisterBackend, RequestStates, Admission
  <2>3. registry' \in [Ids -> Tokens \cup {None}]
    BY <1>12, <2>2, <1>t DEF RegisterBackend
  <2>4. req' \in [Requests -> RequestStates]
    BY <1>12, <2>1, <1>move DEF RegisterBackend
  <2> QED
    BY <1>12, <2>3, <2>4, <1>t, <1>goal DEF RegisterBackend
<1>13. ASSUME NEW q \in Requests, InsertClient(q) PROVE HttpShape'
  <2> DEFINE l == IF req[q].kind = "sse" THEN "attach" ELSE "deliver"
  <2>1. [req[q] EXCEPT !.pc = l] \in RequestStates
    BY <1>13, <1>x DEF InsertClient, RequestStates, RequestRecords, RequestPcs, Admission, Cleaning
  <2>2. req[q].id \in Ids /\ req[q].token \in Tokens
    BY <1>13, <1>x DEF InsertClient, RequestStates, Admission
  <2>3. clients' \in [Ids -> Meta \cup {None}]
    BY <1>13, <2>2, <1>t, <1>meta DEF InsertClient
  <2>4. req' \in [Requests -> RequestStates]
    BY <1>13, <2>1, <1>move DEF InsertClient
  <2>5. covered' \in BOOLEAN /\ (covered' => covered)
    BY <1>13, <1>t, Zenon DEF InsertClient
  <2> QED
    BY <1>13, <2>3, <2>4, <2>5, <1>t, <1>goal DEF InsertClient
<1>14. ASSUME NEW q \in Requests, Touch(q) PROVE HttpShape'
  <2>1. [req[q] EXCEPT !.pc = "wait"] \in RequestStates
    BY <1>14, <1>x DEF Touch, RequestStates, RequestRecords, RequestPcs, Admission, Cleaning
  <2>2. req[q].id \in Ids
    BY <1>14, <1>x DEF Touch, RequestStates
  <2>3. clients' \in [Ids -> Meta \cup {None}]
    BY <1>14, <2>2, <1>timer DEF Touch
  <2>4. req' \in [Requests -> RequestStates]
    BY <1>14, <2>1, <1>move DEF Touch
  <2> QED
    BY <1>14, <2>3, <2>4, <1>t, <1>goal DEF Touch
<1>15. ASSUME NEW q \in Requests, AttachStream(q) PROVE HttpShape'
  <2>1. /\ req' \in [Requests -> RequestStates]
        /\ wsSenders' \in [Ids -> Conns \cup Chans \cup {None}]
    BY <1>15, <1>fresh, Zenon DEF AttachStream
  <2>2. UNCHANGED <<clients, active, registry, taskVars, paired, pollRx, covered, mixed, starts>>
    BY <1>15, Zenon DEF AttachStream
  <2> QED
    BY <2>1, <2>2, <1>t, <1>goal
<1>16. ASSUME NEW q \in Requests, Deliver(q) PROVE HttpShape'
  <2> DEFINE l == IF req[q].kind = "sse" THEN "stream" ELSE "wait"
  <2>1. [req[q] EXCEPT !.pc = l] \in RequestStates
    <3>1. req[q].pc = "deliver"
      BY <1>16 DEF Deliver
    <3>2. PICK x \in RequestStates : x = req[q]
      BY <1>x
    <3>3. CASE x.kind = "sse"
      BY <3>1, <3>2, <3>3 DEF RequestStates, RequestRecords, RequestPcs, Admission, Cleaning
    <3>4. CASE x.kind # "sse"
      BY <3>1, <3>2, <3>4 DEF RequestStates, RequestRecords, RequestPcs, Admission, Cleaning
    <3> QED
      BY <3>3, <3>4
  <2>2. req' \in [Requests -> RequestStates]
    BY <1>16, <2>1, <1>move DEF Deliver
  <2> QED
    BY <1>16, <2>2, <1>t, <1>goal DEF Deliver
<1>17. ASSUME NEW q \in Requests, Answer(q) PROVE HttpShape'
  BY <1>17, <1>end, <1>t, <1>goal DEF Answer
<1>18. ASSUME NEW q \in Requests, Watchdog(q) PROVE HttpShape'
  <2>1. req[q].kind = "sse" /\ req[q].id \in Ids
    BY <1>18, <1>x DEF Watchdog, RequestStates
  <2>2. req[q].pc = "stream" => [req[q] EXCEPT !.pc = "unwatched"] \in RequestStates
    BY <1>x DEF RequestStates, RequestRecords, RequestPcs, Admission, Cleaning
  <2>3. req' \in [Requests -> RequestStates]
    BY <1>18, <2>1, <2>2, <1>clean, <1>move DEF Watchdog
  <2> QED
    BY <1>18, <2>3, <1>t, <1>goal DEF Watchdog
<1>19. ASSUME NEW q \in Requests, StreamEnds(q) PROVE HttpShape'
  <2>1. req[q].kind = "sse" /\ req[q].id \in Ids
    BY <1>19, <1>x DEF StreamEnds, RequestStates
  <2> QED
    BY <1>19, <2>1, <1>clean, <1>t, <1>goal DEF StreamEnds
<1>20. ASSUME NEW q \in Requests, HandleSent(q) PROVE HttpShape'
  <2>1. req[q].kind \in {"sse", "send"} /\ req[q].id \in Ids
    BY <1>20, <1>x DEF HandleSent, RequestStates
  <2>2. clients' \in [Ids -> Meta \cup {None}]
    BY <1>20, <2>1, <1>timer DEF HandleSent
  <2>3. req' \in [Requests -> RequestStates]
    BY <1>20, <2>1, <1>end, <1>clean DEF HandleSent
  <2> QED
    BY <1>20, <2>2, <2>3, <1>t, <1>goal DEF HandleSent
<1>21. ASSUME NEW q \in Requests, CleanSender(q) PROVE HttpShape'
  <2> DEFINE l == IF req[q].kind = "send" THEN "clClient" ELSE "clRx"
  <2>1. [req[q] EXCEPT !.pc = l] \in RequestStates /\ req[q].id \in Ids
    BY <1>21, <1>x DEF CleanSender, RequestStates, RequestRecords, RequestPcs, Admission, Cleaning
  <2>2. req' \in [Requests -> RequestStates]
    BY <1>21, <2>1, <1>move DEF CleanSender
  <2>3. wsSenders' \in [Ids -> Conns \cup Chans \cup {None}]
    BY <1>21, <2>1, <1>t DEF CleanSender
  <2> QED
    BY <1>21, <2>2, <2>3, <1>t, <1>goal DEF CleanSender
<1>22. ASSUME NEW q \in Requests, CleanRx(q) PROVE HttpShape'
  <2>1. [req[q] EXCEPT !.pc = "clClient"] \in RequestStates /\ req[q].id \in Ids
    BY <1>22, <1>x DEF CleanRx, RequestStates, RequestRecords, RequestPcs, Admission, Cleaning
  <2>2. req' \in [Requests -> RequestStates]
    BY <1>22, <2>1, <1>move DEF CleanRx
  <2>3. pollRx' \in [Ids -> Chans \cup {None}]
    BY <1>22, <2>1, <1>t DEF CleanRx
  <2> QED
    BY <1>22, <2>2, <2>3, <1>t, <1>goal DEF CleanRx
<1>23. ASSUME NEW q \in Requests, CleanClient(q) PROVE HttpShape'
  <2> DEFINE l == IF clients[req[q].id] # None THEN "clRelease" ELSE "clRegistry"
  <2>1. [req[q] EXCEPT !.pc = l] \in RequestStates /\ req[q].id \in Ids
    BY <1>23, <1>x DEF CleanClient, RequestStates, RequestRecords, RequestPcs, Admission, Cleaning
  <2>2. req' \in [Requests -> RequestStates]
    BY <1>23, <2>1, <1>move DEF CleanClient
  <2>3. clients' \in [Ids -> Meta \cup {None}]
    BY <1>23, <2>1, <1>t DEF CleanClient
  <2> QED
    BY <1>23, <2>2, <2>3, <1>t, <1>goal DEF CleanClient
<1>24. ASSUME NEW q \in Requests, CleanRelease(q) PROVE HttpShape'
  <2>1. [req[q] EXCEPT !.pc = "clRegistry"] \in RequestStates
    BY <1>24, <1>x DEF CleanRelease, RequestStates, RequestRecords, RequestPcs, Admission, Cleaning
  <2>2. req' \in [Requests -> RequestStates]
    BY <1>24, <2>1, <1>move DEF CleanRelease
  <2> QED
    BY <1>24, <2>2, <1>wrap, <1>t, <1>goal DEF CleanRelease
<1>25. ASSUME NEW q \in Requests, CleanRegistry(q) PROVE HttpShape'
  <2>1. registry' \in [Ids -> Tokens \cup {None}]
    BY <1>25, <1>t DEF CleanRegistry
  <2> QED
    BY <1>25, <2>1, <1>end, <1>t, <1>goal DEF CleanRegistry
<1>26. ASSUME NEW q \in Requests, Cancel(q) PROVE HttpShape'
  <2>1. req[q].pc = "backend" => req[q].token \in Tokens
    BY <1>x DEF RequestStates, Admission
  <2>2. registry' \in [Ids -> Tokens \cup {None}]
    BY <1>26, <2>1, <1>t DEF Cancel
  <2> QED
    BY <1>26, <2>2, <1>end, <1>t, <1>goal DEF Cancel
<1>27. ASSUME NEW q \in Requests, Disconnect(q) PROVE HttpShape'
  <2>1. req[q].pc = "stream" => [req[q] EXCEPT !.pc = "dropped"] \in RequestStates
    BY <1>x DEF RequestStates, RequestRecords, RequestPcs, Admission, Cleaning
  <2>2. req' \in [Requests -> RequestStates]
    BY <1>27, <2>1, <1>end, <1>move DEF Disconnect
  <2> QED
    BY <1>27, <2>2, <1>t, <1>goal DEF Disconnect
<1>28. CASE HttpRestart
  <2>1. SessionTypes'
    BY <1>28, <1>t, NextSessionTypes, SessionParts DEF HttpRestart
  <2>2. wsSenders' = [id \in Ids |-> None] /\ paired' = TRUE
    BY <1>28 DEF HttpRestart, ServerRestart
  <2> QED
    BY <1>28, <2>1, <2>2, <1>idle DEF HttpShape, HttpRestart
<1>29. CASE UNCHANGED allVars
  BY <1>29, <1>t DEF HttpShape, SessionTypes, allVars, httpVars
<1>30. ASSUME NEW q \in Requests, RequestRuns(q) PROVE HttpShape'
  BY <1>30, <1>5, <1>6, <1>7, <1>8, <1>9, <1>10, <1>11, <1>12, <1>13, <1>14, <1>15, <1>16, <1>17,
     <1>18, <1>19, <1>20, <1>21, <1>22, <1>23, <1>24, <1>25 DEF RequestRuns
<1> QED
  BY <1>1, <1>2, <1>3, <1>4, <1>26, <1>27, <1>28, <1>29, <1>30, HttpSteps DEF RequestStep

\* The inductive invariant has the types of HttpTypeOK.
LEMMA ShapeHasTypes == HttpShape => HttpTypeOK
<1> SUFFICES ASSUME HttpShape PROVE HttpTypeOK
  OBVIOUS
<1>1. req \in [Requests -> RequestRecords]
  BY DEF HttpShape, RequestStates
<1>2. ASSUME NEW q \in Requests
      PROVE  /\ req[q].pc = "off" <=> req[q] = Idle
             /\ req[q].pc \in {"stream", "dropped", "unwatched"} => req[q].tx = req[q].rx /\ req[q].tx # None
  <2>1. PICK x \in RequestStates : x = req[q]
    BY DEF HttpShape
  <2>2. Idle.pc = "off"
    BY DEF Idle
  <2>3. /\ x.pc = "off" => x = Idle
        /\ x.pc \in {"stream", "dropped", "unwatched"} => x.tx = x.rx /\ x.tx # None
    BY DEF RequestStates
  <2> QED
    BY <2>1, <2>2, <2>3
<1> QED
  BY <1>1, <1>2 DEF HttpShape, SessionTypes, HttpTypeOK, RequestRecords

\* Type correctness of the composition for every value of the constants: a
\* request that is over has no locals, and a stream has both ends of one channel.
THEOREM HttpTypeCorrect == HttpSpec => []HttpTypeOK
BY InitHttpShape, NextHttpShape, ShapeHasTypes, PTL DEF HttpSpec

-----------------------------------------------------------------------------
(* Slots.                                                                  *)

\* A step of one request changes the counts by what that request is and was.
LEMMA SlotMoves ==
  ASSUME HttpShape, HttpShape', NEW q \in Requests, \A p \in Requests \ {q} : req'[p] = req[p]
  PROVE  /\ HttpHeld' = HttpHeld + (IF Held(req'[q]) THEN 1 ELSE 0) - (IF Held(req[q]) THEN 1 ELSE 0)
         /\ HttpBooked' = HttpBooked + (IF Booked(req'[q]) THEN 1 ELSE 0) - (IF Booked(req[q]) THEN 1 ELSE 0)
         /\ HttpRefused' = HttpRefused + (IF req'[q].pc = "unreserve" THEN 1 ELSE 0)
                                       - (IF req[q].pc = "unreserve" THEN 1 ELSE 0)
<1>1. /\ req \in [Requests -> RequestStates] /\ req' \in [Requests -> RequestStates]
  BY DEF HttpShape
<1>2. PICK x : x = req'[q] /\ x \in RequestStates
  BY <1>1
<1>3. req' = [req EXCEPT ![q] = x]
  BY <1>1, <1>2
<1>4. /\ (x \in HoldingStates <=> Held(req'[q])) /\ (req[q] \in HoldingStates <=> Held(req[q]))
      /\ (x \in ReservedStates <=> Booked(req'[q])) /\ (req[q] \in ReservedStates <=> Booked(req[q]))
      /\ (x \in RefusedStates <=> req'[q].pc = "unreserve") /\ (req[q] \in RefusedStates <=> req[q].pc = "unreserve")
  BY <1>1, <1>2, Zenon DEF HoldingStates, ReservedStates, RefusedStates
<1>5. \A W : Cardinality(Serving(W)') =
              Cardinality(Serving(W)) + (IF x \in W THEN 1 ELSE 0) - (IF req[q] \in W THEN 1 ELSE 0)
  BY <1>1, <1>3, ServingStep
<1>6. /\ Cardinality(Serving(HoldingStates)') = Cardinality(Serving(HoldingStates))
            + (IF x \in HoldingStates THEN 1 ELSE 0) - (IF req[q] \in HoldingStates THEN 1 ELSE 0)
      /\ Cardinality(Serving(ReservedStates)') = Cardinality(Serving(ReservedStates))
            + (IF x \in ReservedStates THEN 1 ELSE 0) - (IF req[q] \in ReservedStates THEN 1 ELSE 0)
      /\ Cardinality(Serving(RefusedStates)') = Cardinality(Serving(RefusedStates))
            + (IF x \in RefusedStates THEN 1 ELSE 0) - (IF req[q] \in RefusedStates THEN 1 ELSE 0)
  BY <1>5
<1> QED
  BY <1>4, <1>6 DEF HttpHeld, HttpBooked, HttpRefused

\* What a step of a request does to slots while they are trusted: a slot is taken,
\* refused or not; the refused one or that of a removed entry is given back; or
\* the counter stays and an entry takes the place of a reservation, a removal
\* that of an entry, or a reservation is dropped.
SlotEffect ==
    LET live == Cardinality(Live)
    IN  \/ /\ active' = active /\ HttpRefused' = HttpRefused
           /\ Cardinality(Live') + HttpHeld' <= live + HttpHeld
           /\ Cardinality(Live') + HttpBooked' \in {live + HttpBooked - 1, live + HttpBooked}
        \/ /\ active' = Wrap(active + 1) /\ Cardinality(Live') = live /\ HttpHeld' = HttpHeld + 1
           /\ \/ active >= ConcurrentLimit /\ HttpRefused' = HttpRefused + 1 /\ HttpBooked' = HttpBooked
              \/ active < ConcurrentLimit /\ HttpRefused' = HttpRefused /\ HttpBooked' = HttpBooked + 1
        \/ /\ active' = Wrap(active - 1) /\ Cardinality(Live') = live /\ HttpHeld' = HttpHeld - 1
           /\ HttpBooked' = HttpBooked /\ HttpRefused' \in {HttpRefused - 1, HttpRefused}

\* The counts are numbers; what is reserved is held.
LEMMA HttpCounts ==
  /\ HttpHeld \in Nat /\ HttpBooked \in Nat /\ HttpRefused \in Nat
  /\ HttpBooked <= HttpHeld
  /\ HttpRefused <= Cardinality(Requests)
  /\ Cardinality(Requests) \in Nat
<1>1. /\ Serving(HoldingStates) \in SUBSET Requests /\ Serving(ReservedStates) \in SUBSET Requests
      /\ Serving(RefusedStates) \in SUBSET Requests /\ Serving(ReservedStates) \subseteq Serving(HoldingStates)
  BY DEF Serving, HoldingStates, ReservedStates, Held
<1>2. IsFiniteSet(Serving(HoldingStates))
  BY <1>1, ServingFinite
<1>3. Cardinality(Serving(ReservedStates)) <= Cardinality(Serving(HoldingStates))
  BY <1>1, <1>2, FS_Subset
<1> QED
  BY <1>1, <1>3, ServingFinite DEF HttpHeld, HttpBooked, HttpRefused

\* Every step of a request has one of these effects and leaves sockets alone.
LEMMA RequestEffect ==
  ASSUME HttpShape, HttpShape', NEW q \in Requests, RequestStep(q)
  PROVE  /\ UNCHANGED <<pc, sess, scan, paired>>
         /\ covered' => covered /\ SlotEffect
<1>t. /\ clients \in [Ids -> Meta \cup {None}] /\ active \in Nat
      /\ req \in [Requests -> RequestStates] /\ req' \in [Requests -> RequestStates]
      /\ covered \in BOOLEAN
      /\ Cardinality(Live) \in Nat
      /\ HttpHeld \in Nat /\ HttpBooked \in Nat /\ HttpRefused \in Nat
  BY HttpCounts, LiveFinite DEF HttpShape, SessionTypes
<1>x. PICK x \in RequestStates : x = req[q]
  BY <1>t
<1>r. x \in RequestRecords
  BY DEF RequestStates
<1> DEFINE Others == \A p \in Requests \ {q} : req'[p] = req[p]
           Tasks1 == UNCHANGED <<pc, sess, scan, paired>>
           Goal == Tasks1 /\ (covered' => covered /\ SlotEffect)
<1> SUFFICES Goal
  OBVIOUS
<1>move. ASSUME NEW l, Move(q, l)
         PROVE  Others /\ req'[q].pc = l /\ req'[q].isNew = x.isNew
  BY <1>move, <1>x, <1>r, <1>t DEF Move, RequestRecords
<1>end. ASSUME End(q) PROVE Others /\ req'[q].pc = "off"
  BY <1>end, <1>t DEF End, Idle
<1>clean. ASSUME NEW id, NEW l, Clean(q, id, l) PROVE Others /\ req'[q].pc = l
  BY <1>clean, <1>t DEF Clean, Idle
<1>moves. ASSUME Others
          PROVE  /\ HttpHeld' = HttpHeld + (IF Held(req'[q]) THEN 1 ELSE 0) - (IF Held(x) THEN 1 ELSE 0)
                 /\ HttpBooked' = HttpBooked + (IF Booked(req'[q]) THEN 1 ELSE 0) - (IF Booked(x) THEN 1 ELSE 0)
                 /\ HttpRefused' = HttpRefused + (IF req'[q].pc = "unreserve" THEN 1 ELSE 0)
                                               - (IF x.pc = "unreserve" THEN 1 ELSE 0)
  BY <1>moves, <1>x, SlotMoves
\* A step that changes neither entries nor the counter, and takes no slot.
<1>still. ASSUME Others, Tasks1, covered' = covered, active' = active, Live' = Live,
                 Held(req'[q]) => Booked(req'[q]) /\ Booked(x),
                 Held(x) => Booked(x)
          PROVE  Goal
  <2>1. x.pc # "unreserve" /\ req'[q].pc # "unreserve"
    BY <1>still DEF Held, Booked
  <2>2. Booked(x) => Held(x)
    BY DEF Held
  <2>3. Booked(req'[q]) => Held(req'[q])
    BY DEF Held
  <2>4. Cardinality(Live') = Cardinality(Live)
    BY <1>still
  <2> QED
    BY <1>still, <2>1, <2>2, <2>3, <2>4, <1>moves, <1>t DEF SlotEffect
<1> USE DEF vars, serverVars, taskVars
<1>live. clients' = clients => Live' = Live
  BY DEF Live
<1>1. ASSUME NEW kind \in {"sse", "poll"}, NEW id \in Ids, NEW token \in Tokens, Request(q, kind, id, token)
      PROVE  Goal
  <2> DEFINE new == clients[id] = None
             place == IF kind = "poll" /\ new THEN "reserve" ELSE "check"
  <2>1. req' = [req EXCEPT ![q] =
             [Idle EXCEPT !.pc = place, !.kind = kind, !.id = id, !.token = token, !.isNew = new]]
    BY <1>1 DEF Request
  <2>2. Others /\ req'[q].pc = place /\ place \in {"reserve", "check"}
    <3>1. place \in {"reserve", "check"}
      OBVIOUS
    <3> HIDE DEF new, place
    <3> QED
      BY <2>1, <3>1, <1>t DEF Idle
  <2> HIDE DEF place
  <2>3. ~Held(req'[q]) /\ ~Held(x)
    BY <1>1, <2>2, <1>x DEF Request, Held, Booked
  <2> QED
    BY <1>1, <2>2, <2>3, <1>still, <1>live DEF Request
<1>2. ASSUME NEW id \in Ids, NEW token \in Tokens, Send(q, id, token) PROVE Goal
  <2>1. Others /\ req'[q].pc = "handle"
    BY <1>2, <1>t DEF Send, Idle
  <2>2. ~Held(req'[q]) /\ ~Held(x)
    BY <1>2, <2>1, <1>x DEF Send, Held, Booked
  <2>3. Live' = Live
    <3>1. PICK m \in Meta : m = clients[id]
      BY <1>2, <1>t DEF Send
    <3>a. [m EXCEPT !.late = m.late \ {"ping"}] \in Meta
      BY DEF Meta
    <3>2. PICK v \in Meta : v = [m EXCEPT !.late = m.late \ {"ping"}]
      BY <3>a
    <3>3. clients' = [clients EXCEPT ![id] = v]
      BY <1>2, <3>1, <3>2 DEF Send
    <3>4. v # None
      BY <3>2, TokensAssumption DEF Meta, Lateness
    <3> QED
      BY <1>2, <1>t, <3>3, <3>4 DEF Send, Live
  <2> QED
    BY <1>2, <2>1, <2>2, <2>3, <1>still DEF Send
<1>3. ASSUME CheckToken(q) PROVE Goal
  <2>1. Others /\ (Held(req'[q]) => Booked(req'[q]) /\ Booked(x)) /\ (Held(x) => Booked(x))
    BY <1>3, <1>x, <1>end, <1>move DEF CheckToken, Held, Booked
  <2> QED
    BY <1>3, <2>1, <1>still, <1>live DEF CheckToken
<1>4. ASSUME HttpReserve(q) PROVE Goal
  <2> DEFINE l == IF active >= ConcurrentLimit THEN "unreserve" ELSE IF req[q].kind = "sse" THEN "backend" ELSE "getRx"
  <2>1. Others /\ req'[q].pc = l /\ req'[q].isNew = x.isNew /\ x.pc = "reserve"
    BY <1>4, <1>x, <1>move DEF HttpReserve
  <2>2. x.isNew
    BY <2>1 DEF RequestStates
  <2>3. ~Held(x) /\ Held(req'[q]) /\ (Booked(req'[q]) <=> l # "unreserve")
    BY <2>1, <2>2 DEF Held, Booked
  <2>4. ~Booked(x)
    BY <2>1 DEF Booked
  <2>5. Cardinality(Live') = Cardinality(Live)
    BY <1>4, <1>live DEF HttpReserve
  <2>6. /\ HttpHeld' = HttpHeld + 1
        /\ HttpBooked' = HttpBooked + (IF l # "unreserve" THEN 1 ELSE 0)
        /\ HttpRefused' = HttpRefused + (IF l = "unreserve" THEN 1 ELSE 0)
    BY <2>1, <2>3, <2>4, <1>moves, <1>t
  <2> QED
    BY <1>4, <2>5, <2>6, <1>t, LimitAssumption DEF HttpReserve, SlotEffect
<1>5. ASSUME HttpGiveBack(q) PROVE Goal
  <2>1. Others /\ req'[q].pc = "off" /\ x.pc = "unreserve"
    BY <1>5, <1>x, <1>end DEF HttpGiveBack
  <2>2. Held(x) /\ ~Booked(x) /\ ~Held(req'[q]) /\ ~Booked(req'[q])
    BY <2>1 DEF Held, Booked
  <2>3. HttpHeld' = HttpHeld - 1 /\ HttpBooked' = HttpBooked /\ HttpRefused' = HttpRefused - 1
    BY <2>1, <2>2, <1>moves, <1>t
  <2>4. Cardinality(Live') = Cardinality(Live)
    BY <1>5, <1>live DEF HttpGiveBack
  <2> QED
    BY <1>5, <2>3, <2>4 DEF HttpGiveBack, SlotEffect
<1>6. ASSUME GetRx(q) PROVE Goal
  <2>1. Others /\ (Held(req'[q]) => Booked(req'[q]) /\ Booked(x)) /\ (Held(x) => Booked(x))
    BY <1>6, <1>x, <1>t, <1>r DEF GetRx, Held, Booked, RequestRecords
  <2> QED
    BY <1>6, <2>1, <1>still, <1>live DEF GetRx
<1>7. ASSUME GetTx(q) PROVE Goal
  <2>1. Others /\ (Held(req'[q]) => Booked(req'[q]) /\ Booked(x)) /\ (Held(x) => Booked(x))
    BY <1>7, <1>x, <1>t, <1>r DEF GetTx, Held, Booked, RequestRecords, Ready
  <2> QED
    BY <1>7, <2>1, <1>still, <1>live DEF GetTx
<1>8. ASSUME BuildTx(q) PROVE Goal
  <2>1. Others /\ (Held(req'[q]) => Booked(req'[q]) /\ Booked(x)) /\ (Held(x) => Booked(x))
    BY <1>8, <1>x, <1>t, <1>r DEF BuildTx, Held, Booked, RequestRecords
  <2> QED
    BY <1>8, <2>1, <1>still, <1>live DEF BuildTx
<1>9. ASSUME BuildRx(q) PROVE Goal
  <2>1. Others /\ (Held(req'[q]) => Booked(req'[q]) /\ Booked(x)) /\ (Held(x) => Booked(x))
    BY <1>9, <1>x, <1>move DEF BuildRx, Held, Booked, Ready
  <2> QED
    BY <1>9, <2>1, <1>still, <1>live DEF BuildRx
<1>10. ASSUME RegisterBackend(q) PROVE Goal
  <2>1. Others /\ (Held(req'[q]) => Booked(req'[q]) /\ Booked(x)) /\ (Held(x) => Booked(x))
    BY <1>10, <1>x, <1>move DEF RegisterBackend, Held, Booked
  <2> QED
    BY <1>10, <2>1, <1>still, <1>live DEF RegisterBackend
<1>11. ASSUME InsertClient(q) PROVE Goal
  <2>1. /\ Others /\ x.pc = "insert" /\ req'[q].pc \in {"attach", "deliver"}
    BY <1>11, <1>x, <1>move DEF InsertClient
  <2>2. ~Held(req'[q]) /\ ~Booked(req'[q]) /\ (Held(x) <=> x.isNew) /\ (Booked(x) <=> x.isNew)
    BY <2>1 DEF Held, Booked
  <2>3. /\ HttpHeld' = HttpHeld - (IF x.isNew THEN 1 ELSE 0)
        /\ HttpBooked' = HttpBooked - (IF x.isNew THEN 1 ELSE 0)
        /\ HttpRefused' = HttpRefused
    BY <2>1, <2>2, <1>moves, <1>t
  <2>4. x.id \in Ids /\ x.token \in Tokens /\ x.id = req[q].id /\ x.token = req[q].token
    BY <2>1, <1>x DEF RequestStates, Admission
  <2>5. NewMeta(x.token) # None
    BY <2>4, TokensAssumption DEF NewMeta
  <2>6. Cardinality(Live') = Cardinality(Live) + 1 - (IF clients[x.id] # None THEN 1 ELSE 0)
    <3>0. PICK id \in Ids : id = x.id
      BY <2>4
    <3>1. PICK v : v = NewMeta(x.token)
      OBVIOUS
    <3>2. clients' = [clients EXCEPT ![id] = v]
      BY <1>11, <2>4, <3>0, <3>1 DEF InsertClient
    <3>3. Cardinality(Live') =
            Cardinality(Live) + (IF v # None THEN 1 ELSE 0) - (IF clients[id] # None THEN 1 ELSE 0)
      BY <3>2, <1>t, LiveStep
    <3> QED
      BY <2>5, <3>0, <3>1, <3>3
  <2>7. covered' => covered /\ (x.isNew \/ clients[x.id] # None)
    BY <1>11, <2>4, <1>x DEF InsertClient
  <2>8. Tasks1 /\ active' = active
    BY <1>11 DEF InsertClient
  <2>9. CASE x.isNew
    BY <2>9, <2>3, <2>6, <2>7, <2>8, <1>t DEF SlotEffect
  <2>10. CASE ~x.isNew
    BY <2>10, <2>3, <2>6, <2>7, <2>8, <1>t DEF SlotEffect
  <2> QED
    BY <2>9, <2>10
<1>timer. ASSUME NEW id \in Ids, NEW timer,
                 clients' = [clients EXCEPT ![id] = IF @ = None THEN None ELSE [token |-> @.token, late |-> @.late \ {timer}]]
          PROVE  Live' = Live
  <2>1. clients[id] # None => [token |-> clients[id].token, late |-> clients[id].late \ {timer}] \in Meta
    BY <1>t DEF Meta
  <2>2. PICK v : v = (IF clients[id] = None THEN None ELSE [token |-> clients[id].token, late |-> clients[id].late \ {timer}])
    OBVIOUS
  <2>3. v = None <=> clients[id] = None
    BY <2>1, <2>2, TokensAssumption DEF Meta, Lateness
  <2>4. clients' = [clients EXCEPT ![id] = v]
    BY <1>timer, <2>2
  <2> QED
    BY <2>3, <2>4, <1>t DEF Live
<1>id. x.pc # "off" => req[q].id \in Ids
  BY <1>x DEF RequestStates
<1>12. ASSUME Touch(q) PROVE Goal
  <2>1. Others /\ (Held(req'[q]) => Booked(req'[q]) /\ Booked(x)) /\ (Held(x) => Booked(x))
    BY <1>12, <1>x, <1>move DEF Touch, Held, Booked
  <2>2. Live' = Live
    BY <1>12, <1>timer, <1>id, <1>x DEF Touch
  <2> QED
    BY <1>12, <2>1, <2>2, <1>still DEF Touch
<1>13. ASSUME AttachStream(q) PROVE Goal
  <2>1. Others /\ (Held(req'[q]) => Booked(req'[q]) /\ Booked(x)) /\ (Held(x) => Booked(x))
    BY <1>13, <1>x, <1>t, <1>r DEF AttachStream, Held, Booked, RequestRecords
  <2> QED
    BY <1>13, <2>1, <1>still, <1>live DEF AttachStream
<1>14. ASSUME Deliver(q) PROVE Goal
  <2>1. Others /\ (Held(req'[q]) => Booked(req'[q]) /\ Booked(x)) /\ (Held(x) => Booked(x))
    BY <1>14, <1>x, <1>move DEF Deliver, Held, Booked
  <2> QED
    BY <1>14, <2>1, <1>still, <1>live DEF Deliver
<1>15. ASSUME Answer(q) PROVE Goal
  <2>1. Others /\ (Held(req'[q]) => Booked(req'[q]) /\ Booked(x)) /\ (Held(x) => Booked(x))
    BY <1>15, <1>x, <1>end DEF Answer, Held, Booked
  <2> QED
    BY <1>15, <2>1, <1>still, <1>live DEF Answer
<1>16. ASSUME Watchdog(q) PROVE Goal
  <2>1. Others /\ (Held(req'[q]) => Booked(req'[q]) /\ Booked(x)) /\ (Held(x) => Booked(x))
    BY <1>16, <1>x, <1>move, <1>clean DEF Watchdog, Held, Booked
  <2> QED
    BY <1>16, <2>1, <1>still, <1>live DEF Watchdog
<1>17. ASSUME StreamEnds(q) PROVE Goal
  <2>1. Others /\ (Held(req'[q]) => Booked(req'[q]) /\ Booked(x)) /\ (Held(x) => Booked(x))
    BY <1>17, <1>x, <1>clean DEF StreamEnds, Held, Booked
  <2> QED
    BY <1>17, <2>1, <1>still, <1>live DEF StreamEnds
<1>18. ASSUME HandleSent(q) PROVE Goal
  <2>1. Others /\ (Held(req'[q]) => Booked(req'[q]) /\ Booked(x)) /\ (Held(x) => Booked(x))
    BY <1>18, <1>x, <1>end, <1>clean DEF HandleSent, Held, Booked
  <2>2. Live' = Live
    BY <1>18, <1>timer, <1>id, <1>x DEF HandleSent
  <2> QED
    BY <1>18, <2>1, <2>2, <1>still DEF HandleSent
<1>19. ASSUME CleanSender(q) PROVE Goal
  <2>1. Others /\ (Held(req'[q]) => Booked(req'[q]) /\ Booked(x)) /\ (Held(x) => Booked(x))
    BY <1>19, <1>x, <1>move DEF CleanSender, Held, Booked
  <2> QED
    BY <1>19, <2>1, <1>still, <1>live DEF CleanSender
<1>20. ASSUME CleanRx(q) PROVE Goal
  <2>1. Others /\ (Held(req'[q]) => Booked(req'[q]) /\ Booked(x)) /\ (Held(x) => Booked(x))
    BY <1>20, <1>x, <1>move DEF CleanRx, Held, Booked
  <2> QED
    BY <1>20, <2>1, <1>still, <1>live DEF CleanRx
<1>21. ASSUME CleanClient(q) PROVE Goal
  <2> DEFINE l == IF clients[req[q].id] # None THEN "clRelease" ELSE "clRegistry"
  <2>1. Others /\ x.pc = "clClient" /\ req'[q].pc = l
    BY <1>21, <1>x, <1>move DEF CleanClient
  <2>2. ~Held(x) /\ ~Booked(x) /\ ~Booked(req'[q]) /\ (Held(req'[q]) <=> clients[req[q].id] # None)
    BY <2>1 DEF Held, Booked
  <2>3. /\ HttpHeld' = HttpHeld + (IF clients[req[q].id] # None THEN 1 ELSE 0)
        /\ HttpBooked' = HttpBooked /\ HttpRefused' = HttpRefused
    BY <2>1, <2>2, <1>moves, <1>t
  <2>4. Cardinality(Live') = Cardinality(Live) - (IF clients[req[q].id] # None THEN 1 ELSE 0)
    <3>1. req[q].id \in Ids /\ clients' = [clients EXCEPT ![req[q].id] = None]
      BY <1>21, <2>1, <1>id DEF CleanClient
    <3>2. Cardinality(Live') =
            Cardinality(Live) + (IF None # None THEN 1 ELSE 0) - (IF clients[req[q].id] # None THEN 1 ELSE 0)
      BY <3>1, <1>t, LiveStep
    <3> QED
      BY <3>2, <1>t
  <2> QED
    BY <1>21, <2>3, <2>4, <1>t DEF CleanClient, SlotEffect
<1>22. ASSUME CleanRelease(q) PROVE Goal
  <2>1. Others /\ req'[q].pc = "clRegistry" /\ x.pc = "clRelease"
    BY <1>22, <1>x, <1>move DEF CleanRelease
  <2>2. Held(x) /\ ~Booked(x) /\ ~Held(req'[q]) /\ ~Booked(req'[q])
    BY <2>1 DEF Held, Booked
  <2>3. HttpHeld' = HttpHeld - 1 /\ HttpBooked' = HttpBooked /\ HttpRefused' = HttpRefused
    BY <2>1, <2>2, <1>moves, <1>t
  <2>4. Cardinality(Live') = Cardinality(Live)
    BY <1>22, <1>live DEF CleanRelease
  <2> QED
    BY <1>22, <2>3, <2>4 DEF CleanRelease, SlotEffect
<1>23. ASSUME CleanRegistry(q) PROVE Goal
  <2>1. Others /\ (Held(req'[q]) => Booked(req'[q]) /\ Booked(x)) /\ (Held(x) => Booked(x))
    BY <1>23, <1>x, <1>end DEF CleanRegistry, Held, Booked
  <2> QED
    BY <1>23, <2>1, <1>still, <1>live DEF CleanRegistry
<1>24. ASSUME Cancel(q) PROVE Goal
  <2>1. Others /\ (Held(req'[q]) => Booked(req'[q]) /\ Booked(x)) /\ (Held(x) => Booked(x))
    BY <1>24, <1>x, <1>end DEF Cancel, Held, Booked, Awaits
  <2> QED
    BY <1>24, <2>1, <1>still, <1>live DEF Cancel
<1>25. ASSUME Disconnect(q) PROVE Goal
  <2>1. Others /\ (Held(req'[q]) => Booked(req'[q]) /\ Booked(x)) /\ (Held(x) => Booked(x))
    BY <1>25, <1>x, <1>move, <1>end DEF Disconnect, Held, Booked
  <2> QED
    BY <1>25, <2>1, <1>still, <1>live DEF Disconnect
<1>26. ASSUME RequestRuns(q) PROVE Goal
  BY <1>26, <1>3, <1>4, <1>5, <1>6, <1>7, <1>8, <1>9, <1>10, <1>11, <1>12, <1>13, <1>14, <1>15, <1>16,
     <1>17, <1>18, <1>19, <1>20, <1>21, <1>22, <1>23, Zenon DEF RequestRuns
<1> QED
  BY <1>1, <1>2, <1>24, <1>25, <1>26, Zenon DEF RequestStep

\* In the initial state nothing is held.
LEMMA InitHttpBacked == HttpInit => HttpBacked
<1> SUFFICES ASSUME HttpInit PROVE HttpBacked
  OBVIOUS
<1>1. Live = {} /\ Holding = {} /\ Reserved = {} /\ Refused = {}
  BY ConnsAssumption DEF HttpInit, Init, Live, Holding, Reserved, Refused, At, Tasks
<1>2. ~Held(Idle) /\ ~Booked(Idle) /\ Idle.pc # "unreserve"
  BY DEF Idle, Held, Booked
<1>3. Serving(HoldingStates) = {} /\ Serving(ReservedStates) = {} /\ Serving(RefusedStates) = {}
  BY <1>2 DEF HttpInit, Serving, HoldingStates, ReservedStates, RefusedStates
<1>4. active = 0 /\ scan.actual = 0
  BY DEF HttpInit, Init
<1> QED
  BY <1>1, <1>3, <1>4, FS_EmptySet, LimitAssumption DEF HttpBacked, Backed, HttpHeld, HttpBooked, HttpRefused

\* A step of a request keeps the slots accounted for: the counter is far from
\* wrapping, and a slot is only taken below the limit.
LEMMA EffectKeepsBacked ==
  ASSUME HttpShape, HttpShape', UNCHANGED <<pc, scan>>, SlotEffect,
         Backed(HttpHeld, HttpBooked, HttpRefused)
  PROVE  Backed(HttpHeld, HttpBooked, HttpRefused)'
<1>t. /\ Cardinality(Live) \in Nat /\ Cardinality(Holding) \in Nat /\ Cardinality(Reserved) \in Nat
      /\ Cardinality(Refused) \in Nat /\ Cardinality(Conns) \in Nat /\ Cardinality(Refused) <= Cardinality(Conns)
      /\ active \in Nat /\ ConcurrentLimit \in Nat /\ Width \in Nat
      /\ Cardinality(Requests) \in Nat
      /\ Width > ConcurrentLimit + Cardinality(Conns) + Cardinality(Requests) + 1
  BY CountsAreNat, HttpCounts, LimitAssumption, WidthAssumption, HttpWidthAssumption DEF HttpShape, SessionTypes
<1>c. /\ HttpHeld \in Nat /\ HttpBooked \in Nat /\ HttpRefused \in Nat
      /\ HttpBooked <= HttpHeld /\ HttpRefused <= Cardinality(Requests)
  BY HttpCounts
<1>d. /\ HttpHeld' \in Nat /\ HttpBooked' \in Nat /\ HttpRefused' \in Nat
  <2>1. /\ Serving(HoldingStates)' \in SUBSET Requests /\ Serving(ReservedStates)' \in SUBSET Requests
        /\ Serving(RefusedStates)' \in SUBSET Requests
    BY DEF Serving
  <2> QED
    BY <2>1, ServingFinite DEF HttpHeld, HttpBooked, HttpRefused
<1>e. /\ Cardinality(Live') \in Nat /\ scan' = scan
      /\ Cardinality(Holding') = Cardinality(Holding) /\ Cardinality(Reserved') = Cardinality(Reserved)
      /\ Cardinality(Refused') = Cardinality(Refused)
  <2>1. Holding' = Holding /\ Reserved' = Reserved /\ Refused' = Refused
    BY DEF Holding, Reserved, Refused, At
  <2>2. Live' \subseteq Ids
    BY DEF Live
  <2> QED
    BY <2>1, <2>2, IdsAssumption, FS_Subset, FS_CardinalityType
<1>f. Cardinality(Reserved) <= Cardinality(Holding)
  <2>1. Reserved \subseteq Holding /\ Holding \subseteq Tasks
    BY DEF Reserved, Holding, At
  <2> QED
    BY <2>1, SubsetOfTasks, FS_Subset
<1>b. /\ Cardinality(Live) + Cardinality(Holding) + HttpHeld <= active
      /\ Cardinality(Live) + Cardinality(Reserved) + HttpBooked <= ConcurrentLimit
      /\ active <= ConcurrentLimit + Cardinality(Refused) + HttpRefused
      /\ scan.actual <= ConcurrentLimit
  BY DEF Backed
<1> DEFINE Goal == Backed(HttpHeld, HttpBooked, HttpRefused)'
<1> SUFFICES Goal
  OBVIOUS
<1>goal. ASSUME Cardinality(Live') + Cardinality(Holding) + HttpHeld' <= active',
                Cardinality(Live') + Cardinality(Reserved) + HttpBooked' <= ConcurrentLimit,
                active' <= ConcurrentLimit + Cardinality(Refused) + HttpRefused'
         PROVE  Goal
  BY <1>goal, <1>e, <1>b DEF Backed
<1>1. CASE /\ active' = active /\ HttpRefused' = HttpRefused
           /\ Cardinality(Live') + HttpHeld' <= Cardinality(Live) + HttpHeld
           /\ Cardinality(Live') + HttpBooked' \in
                 {Cardinality(Live) + HttpBooked - 1, Cardinality(Live) + HttpBooked}
  <2> HIDE DEF Goal
  <2> QED
    BY <1>1, <1>t, <1>c, <1>d, <1>e, <1>b, <1>goal
<1>2. CASE /\ active' = Wrap(active + 1) /\ Cardinality(Live') = Cardinality(Live) /\ HttpHeld' = HttpHeld + 1
           /\ \/ active >= ConcurrentLimit /\ HttpRefused' = HttpRefused + 1 /\ HttpBooked' = HttpBooked
              \/ active < ConcurrentLimit /\ HttpRefused' = HttpRefused /\ HttpBooked' = HttpBooked + 1
  <2> HIDE DEF Goal
  <2>1. active + 1 \in 0 .. Width - 1
    BY <1>t, <1>c, <1>b
  <2>2. active' = active + 1
    BY <1>2, <2>1, WrapFacts
  <2> QED
    BY <1>2, <2>2, <1>t, <1>c, <1>d, <1>e, <1>f, <1>b, <1>goal
<1>3. CASE /\ active' = Wrap(active - 1) /\ Cardinality(Live') = Cardinality(Live) /\ HttpHeld' = HttpHeld - 1
           /\ HttpBooked' = HttpBooked /\ HttpRefused' \in {HttpRefused - 1, HttpRefused}
  <2> HIDE DEF Goal
  <2>1. active - 1 \in 0 .. Width - 1
    BY <1>3, <1>t, <1>c, <1>d, <1>b
  <2>2. active' = active - 1
    BY <1>3, <2>1, WrapFacts
  <2> QED
    BY <1>3, <2>2, <1>t, <1>c, <1>d, <1>e, <1>b, <1>goal
<1> QED
  BY <1>1, <1>2, <1>3 DEF SlotEffect

\* A step of the sessions keeps the slots accounted for, with what requests hold.
LEMMA SessionKeepsBacked ==
  ASSUME HttpShape, HttpShape', SessionStep, req' = req, paired, paired',
         Backed(HttpHeld, HttpBooked, HttpRefused),
         pc[CheckBroken] = "store" /\ pc'[CheckBroken] = "sleep" =>
             Cardinality(Live) + Cardinality(Holding) + HttpHeld <= active'
  PROVE  Backed(HttpHeld, HttpBooked, HttpRefused)'
<1>1. PICK hh \in Nat, hr \in Nat, hf \in Nat : hh = HttpHeld /\ hr = HttpBooked /\ hf = HttpRefused
  BY HttpCounts
<1>2. hh = HttpHeld' /\ hr = HttpBooked' /\ hf = HttpRefused'
  BY <1>1 DEF HttpHeld, HttpBooked, HttpRefused, Serving
<1>3. hr <= hh /\ Width > ConcurrentLimit + Cardinality(Conns) + hf + 1
  <2>1. /\ Cardinality(Conns) \in Nat /\ ConcurrentLimit \in Nat /\ Width \in Nat
    BY CountsAreNat, LimitAssumption, WidthAssumption DEF HttpShape
  <2> QED
    BY <1>1, <2>1, HttpCounts, HttpWidthAssumption
<1>4. Backed(hh, hr, hf)
  BY <1>1 DEF Backed
<1>5. pc[CheckBroken] = "store" /\ pc'[CheckBroken] = "sleep" =>
         Cardinality(Live) + Cardinality(Holding) + hh <= active'
  BY <1>1
<1>6. SessionTypes
  BY DEF HttpShape
<1>7. Backed(hh, hr, hf)'
  BY <1>3, <1>4, <1>5, <1>6, BackedStep
<1> QED
  BY <1>2, <1>7 DEF Backed

\* Every step keeps the slots accounted for.
LEMMA NextHttpBacked == HttpShape /\ HttpBacked /\ [HttpNext]_allVars => HttpBacked'
<1> SUFFICES ASSUME HttpShape, HttpBacked, [HttpNext]_allVars, covered'
             PROVE  Backed(HttpHeld, HttpBooked, HttpRefused)'
  BY DEF HttpBacked
<1>s. HttpShape' /\ SessionTypes /\ (covered => paired) /\ req \in [Requests -> RequestStates]
  BY NextHttpShape DEF HttpShape
<1>1. CASE SessionStep /\ Aside
  <2>1. /\ covered /\ paired /\ paired' /\ req' = req
        /\ pc[CheckBroken] = "store" /\ pc'[CheckBroken] = "sleep" =>
              Cardinality(Live) + Cardinality(Holding) + Cardinality(HttpHolding) <= active'
    BY <1>1, <1>s DEF Aside
  <2>2. Cardinality(HttpHolding) = HttpHeld
    BY <1>s, HoldingByStates DEF HttpHeld
  <2> QED
    BY <1>1, <1>s, <2>1, <2>2, SessionKeepsBacked DEF HttpBacked
<1>2. ASSUME NEW c \in Conns, NEW id \in Ids, NEW token \in Tokens,
             Connect(c, id, token), UNCHANGED <<req, pollRx, covered>>
      PROVE  Backed(HttpHeld, HttpBooked, HttpRefused)'
  <2>0. paired' = paired /\ pc'[CheckBroken] = pc[CheckBroken]
    BY <1>2, <1>s, ConnsAssumption DEF Connect, Admit, Goto, Hangup, SessionTypes, Tasks
  <2>1. covered /\ paired /\ paired' /\ req' = req
    BY <1>2, <1>s, <2>0
  <2>2. SessionStep
    BY <1>2, ConnectIsStep
  <2>3. ~(pc[CheckBroken] = "store" /\ pc'[CheckBroken] = "sleep")
    BY <2>0
  <2> QED
    BY <1>s, <2>1, <2>2, <2>3, SessionKeepsBacked DEF HttpBacked
<1>3. ASSUME NEW q \in Requests, RequestStep(q) PROVE Backed(HttpHeld, HttpBooked, HttpRefused)'
  <2>1. covered /\ SlotEffect /\ UNCHANGED <<pc, scan>>
    BY <1>3, <1>s, RequestEffect
  <2> QED
    BY <1>s, <2>1, EffectKeepsBacked DEF HttpBacked
<1>4. CASE HttpRestart
  <2>1. Live' = {} /\ Holding' = {} /\ Reserved' = {} /\ Refused' = {} /\ active' = 0 /\ scan'.actual = 0
    BY <1>4, ConnsAssumption DEF HttpRestart, ServerRestart, Live, Holding, Reserved, Refused, At, Tasks
  <2>2. ~Held(Idle) /\ ~Booked(Idle) /\ Idle.pc # "unreserve"
    BY DEF Idle, Held, Booked
  <2>3. Serving(HoldingStates)' = {} /\ Serving(ReservedStates)' = {} /\ Serving(RefusedStates)' = {}
    BY <1>4, <2>2 DEF HttpRestart, Serving, HoldingStates, ReservedStates, RefusedStates
  <2> QED
    BY <2>1, <2>3, FS_EmptySet, LimitAssumption DEF Backed, HttpHeld, HttpBooked, HttpRefused
<1>5. CASE UNCHANGED allVars
  BY <1>5 DEF allVars, httpVars, vars, HttpBacked, Backed, HttpHeld, HttpBooked, HttpRefused, Serving,
     Live, Holding, Reserved, Refused, At
<1> QED
  BY <1>1, <1>2, <1>3, <1>4, <1>5, HttpSteps

\* No release of any transport wraps the counter: entries, sockets and requests in
\* flight stay backed by slots, whatever requests clients drop at an await.
THEOREM HttpSlotsCovered == HttpSpec => []HttpSlotCoverage
<1>1. HttpShape /\ HttpBacked /\ [HttpNext]_allVars => (HttpShape /\ HttpBacked)'
  BY NextHttpShape, NextHttpBacked
<1>2. HttpShape /\ HttpBacked => HttpSlotCoverage
  <2> SUFFICES ASSUME HttpShape, HttpBacked PROVE HttpSlotCoverage
    OBVIOUS
  <2>1. HttpHolding = Serving(HoldingStates)
    BY HoldingByStates DEF HttpShape
  <2> QED
    BY <2>1 DEF HttpBacked, Backed, HttpHeld, HttpSlotCoverage
<1> QED
  BY <1>1, <1>2, InitHttpShape, InitHttpBacked, PTL DEF HttpSpec

-----------------------------------------------------------------------------
(* The refinement of ConnectionLimit by all transports together.           *)

HttpSlots == Cardinality(Live) + Cardinality(Reserved) + HttpBooked

\* While the bookkeeping is trusted, a step of the composition takes or gives
\* back one slot, or none.
LEMMA HttpSlotsStep ==
  ASSUME HttpShape, HttpBacked, HttpNext, ~HttpRestart
  PROVE  covered' => covered /\ HttpSlots' \in {HttpSlots - 1, HttpSlots, HttpSlots + 1}
<1>s. HttpShape' /\ SessionTypes /\ (covered => paired)
  BY NextHttpShape DEF HttpShape
<1>t. Cardinality(Live) \in Nat /\ Cardinality(Reserved) \in Nat /\ HttpBooked \in Nat
  BY <1>s, CountsAreNat, HttpCounts
<1>u. Cardinality(Live') \in Nat /\ Cardinality(Reserved') \in Nat /\ HttpBooked' \in Nat
  <2>1. Live' \subseteq Ids /\ Reserved' \subseteq Tasks /\ Serving(ReservedStates)' \in SUBSET Requests
    BY DEF Live, Reserved, At, Serving
  <2> QED
    BY <2>1, SubsetOfTasks, IdsAssumption, FS_Subset, FS_CardinalityType, ServingFinite DEF HttpBooked
<1>ws. ASSUME SessionStep, req' = req, paired'
       PROVE  HttpSlots' \in {HttpSlots - 1, HttpSlots, HttpSlots + 1}
  <2>1. Slots' \in {Slots - 1, Slots, Slots + 1}
    BY <1>ws, <1>s, SlotsStep
  <2>2. HttpBooked' = HttpBooked
    BY <1>ws DEF HttpBooked, Serving
  <2> QED
    BY <2>1, <2>2, <1>t, <1>u DEF Slots, HttpSlots
<1>1. CASE SessionStep /\ Aside
  <2>1. covered' => covered /\ paired' /\ req' = req
    BY <1>1, <1>s DEF Aside
  <2> QED
    BY <1>1, <2>1, <1>ws
<1>2. ASSUME NEW c \in Conns, NEW id \in Ids, NEW token \in Tokens,
             Connect(c, id, token), UNCHANGED <<req, pollRx, covered>>
      PROVE  covered' => covered /\ HttpSlots' \in {HttpSlots - 1, HttpSlots, HttpSlots + 1}
  <2>1. paired' = paired /\ req' = req /\ covered' = covered
    BY <1>2 DEF Connect
  <2>2. SessionStep
    BY <1>2, ConnectIsStep
  <2>3. covered' => HttpSlots' \in {HttpSlots - 1, HttpSlots, HttpSlots + 1}
    BY <2>1, <2>2, <1>s, <1>ws
  <2> QED
    BY <2>1, <2>3
<1>3. ASSUME NEW q \in Requests, RequestStep(q), covered'
      PROVE  covered /\ HttpSlots' \in {HttpSlots - 1, HttpSlots, HttpSlots + 1}
  <2>1. covered /\ SlotEffect /\ pc' = pc
    BY <1>3, <1>s, RequestEffect
  <2>2. Reserved' = Reserved
    BY <2>1 DEF Reserved, At
  <2>3. Cardinality(Live') + HttpBooked' \in
           {Cardinality(Live) + HttpBooked - 1, Cardinality(Live) + HttpBooked, Cardinality(Live) + HttpBooked + 1}
    BY <2>1, <1>t, <1>u DEF SlotEffect
  <2> QED
    BY <2>1, <2>2, <2>3, <1>t, <1>u DEF HttpSlots
<1> QED
  BY <1>1, <1>2, <1>3, HttpSteps

\* Every step of the composition is a step of the semaphore, or changes nothing of it.
LEMMA NextHttpSemaphore ==
  HttpShape /\ HttpBacked /\ [HttpNext]_allVars =>
    [HttpSemaphore!Next]_<<IF covered THEN Cardinality(Live) + Cardinality(Reserved) + Cardinality(HttpReserved)
                           ELSE 0, covered>>
<1> SUFFICES ASSUME HttpShape, HttpBacked, [HttpNext]_allVars
             PROVE  [HttpSemaphore!Next]_<<IF covered THEN Cardinality(Live) + Cardinality(Reserved)
                                                           + Cardinality(HttpReserved)
                                           ELSE 0, covered>>
  OBVIOUS
<1>s. HttpShape' /\ HttpBacked' /\ SessionTypes /\ SessionTypes'
  BY NextHttpShape, NextHttpBacked DEF HttpShape
<1>r. Cardinality(HttpReserved) = HttpBooked /\ Cardinality(HttpReserved') = HttpBooked'
  <2>1. HttpReserved = Serving(ReservedStates)
    BY HoldingByStates DEF HttpShape
  <2>2. HttpReserved' = Serving(ReservedStates)'
    <3>1. req' \in [Requests -> RequestStates]
      BY <1>s DEF HttpShape
    <3> QED
      BY <3>1 DEF HttpHolding, HttpReserved, Serving, ReservedStates, Booked, RequestsAt
  <2> QED
    BY <2>1, <2>2 DEF HttpBooked
<1>u. /\ (IF covered THEN Cardinality(Live) + Cardinality(Reserved) + Cardinality(HttpReserved) ELSE 0)
            = (IF covered THEN HttpSlots ELSE 0)
      /\ (IF covered THEN Cardinality(Live) + Cardinality(Reserved) + Cardinality(HttpReserved) ELSE 0)'
            = (IF covered' THEN HttpSlots' ELSE 0)
  BY <1>r DEF HttpSlots
<1>n. HttpSlots \in Nat /\ HttpSlots' \in Nat /\ covered \in BOOLEAN /\ covered' \in BOOLEAN
  <2>1. HttpSlots \in Nat
    BY <1>s, CountsAreNat, HttpCounts DEF HttpSlots
  <2>2. Live' \subseteq Ids /\ Reserved' \subseteq Tasks /\ Serving(ReservedStates)' \in SUBSET Requests
    BY DEF Live, Reserved, At, Serving
  <2>3. Cardinality(Live') \in Nat /\ Cardinality(Reserved') \in Nat /\ HttpBooked' \in Nat
    BY <2>2, SubsetOfTasks, IdsAssumption, FS_Subset, FS_CardinalityType, ServingFinite DEF HttpBooked
  <2> QED
    BY <2>1, <2>3, <1>s DEF HttpSlots, HttpShape
<1>1. CASE HttpNext /\ ~HttpRestart
  <2>0. covered' => covered /\ HttpSlots' \in {HttpSlots - 1, HttpSlots, HttpSlots + 1}
    BY <1>1, HttpSlotsStep
  <2>1. CASE ~covered
    BY <1>n, <1>u, <2>0, <2>1
  <2>2. CASE covered /\ ~covered'
    BY <1>n, <1>u, <2>2 DEF HttpSemaphore!Next, HttpSemaphore!LoseTrust
  <2>3. CASE covered /\ covered'
    <3>1. HttpSlots' <= ConcurrentLimit
      BY <1>s, <2>3 DEF HttpBacked, Backed, HttpSlots
    <3>2. CASE HttpSlots' = HttpSlots
      BY <1>n, <1>u, <2>3, <3>2
    <3>3. CASE HttpSlots' = HttpSlots + 1
      <4>1. HttpSlots < ConcurrentLimit
        BY <1>n, <3>1, <3>3, LimitAssumption
      <4> QED
        BY <1>n, <1>u, <2>3, <3>3, <4>1 DEF HttpSemaphore!Next, HttpSemaphore!Acquire
    <3>4. CASE HttpSlots' = HttpSlots - 1
      <4>1. HttpSlots > 0
        BY <1>n, <3>4
      <4> QED
        BY <1>n, <1>u, <2>3, <3>4, <4>1 DEF HttpSemaphore!Next, HttpSemaphore!Release
    <3> QED
      BY <2>0, <2>3, <3>2, <3>3, <3>4
  <2> QED
    BY <1>n, <2>1, <2>2, <2>3
<1>2. CASE HttpRestart
  <2>1. Live' = {} /\ Reserved' = {} /\ covered' = TRUE
    BY <1>2, ConnsAssumption DEF HttpRestart, ServerRestart, Live, Reserved, At, Tasks
  <2>2. ~Booked(Idle)
    BY DEF Idle, Booked
  <2>3. Serving(ReservedStates)' = {}
    BY <1>2, <2>2 DEF HttpRestart, Serving, ReservedStates
  <2>4. HttpSlots' = 0
    BY <2>1, <2>3, FS_EmptySet DEF HttpSlots, HttpBooked
  <2> QED
    BY <1>u, <2>1, <2>4 DEF HttpSemaphore!Next, HttpSemaphore!Restart
<1>3. CASE UNCHANGED allVars
  BY <1>3, <1>u DEF allVars, httpVars, vars, HttpSlots, HttpBooked, Serving, Live, Reserved, At
<1> QED
  BY <1>1, <1>2, <1>3

\* WebSockets, event streams and long polls, interleaved in any way with each other,
\* with dropped requests and with check_broken, implement one counting semaphore of
\* concurrent_limit slots.
THEOREM HttpImplementsSemaphore == HttpSpec => HttpImplementsLimit
<1>1. HttpInit => HttpSemaphore!Init
  <2> SUFFICES ASSUME HttpInit PROVE HttpSemaphore!Init
    OBVIOUS
  <2>1. Live = {} /\ Reserved = {} /\ covered = TRUE
    BY ConnsAssumption DEF HttpInit, Init, Live, Reserved, At, Tasks
  <2>2. HttpReserved = {}
    BY DEF HttpInit, HttpReserved, HttpHolding, RequestsAt, Idle
  <2> QED
    BY <2>1, <2>2, FS_EmptySet DEF HttpSemaphore!Init
<1>2. HttpShape /\ HttpBacked /\ [HttpNext]_allVars => (HttpShape /\ HttpBacked)'
  BY NextHttpShape, NextHttpBacked
<1> QED
  BY <1>1, <1>2, InitHttpShape, InitHttpBacked, NextHttpSemaphore, PTL
     DEF HttpSpec, HttpImplementsLimit, HttpSemaphore!Spec

-----------------------------------------------------------------------------
(* The two ends of a poll's channel.                                       *)

\* Without a connect no socket appears, and none changes its id.
LEMMA SteadySockets ==
  ASSUME SessionTypes, SteadyStep
  PROVE  \A c \in Conns : pc'[c] # "off" => pc[c] # "off" /\ sess'[c].id = sess[c].id
<1> DEFINE Goal == \A c \in Conns : pc'[c] # "off" => pc[c] # "off" /\ sess'[c].id = sess[c].id
<1> SUFFICES Goal
  OBVIOUS
<1>t. pc \in [Tasks -> ConnPcs \cup EvictorPcs] /\ DOMAIN sess = Conns /\ Conns \subseteq Tasks /\ CheckBroken \in Tasks
      /\ CheckBroken \notin Conns
  BY ConnsAssumption DEF SessionTypes, Tasks
<1>goto. ASSUME NEW t \in Tasks, NEW l, Goto(t, l), pc[t] # "off" \/ t \notin Conns, sess' = sess PROVE Goal
  BY <1>goto, <1>t DEF Goto
<1>hang. ASSUME NEW c \in Conns, Hangup(c) PROVE Goal
  BY <1>hang, <1>t DEF Hangup, Goto
<1>keep. ASSUME pc' = pc, sess' = sess PROVE Goal
  BY <1>keep
<1>1. ASSUME NEW c \in Conns, LookupRedis(c) PROVE Goal
  <2>1. CASE Hangup(c)
    BY <2>1, <1>hang
  <2>2. CASE sess' = [sess EXCEPT ![c] = sess[c]] /\ (Goto(c, "reserve") \/ Goto(c, "reconnect"))
    <3>1. sess' = sess
      BY <2>2, <1>t DEF SessionTypes
    <3> QED
      BY <1>1, <2>2, <3>1, <1>t, <1>goto DEF LookupRedis
  <2> QED
    BY <1>1, <2>1, <2>2 DEF LookupRedis, Admit
<1>2. ASSUME NEW c \in Conns, InsertReconnection(c) \/ Reserve(c) \/ Register(c) \/ InsertNew(c) \/ Attach(c)
      PROVE  Goal
  BY <1>2, <1>t, <1>goto DEF InsertReconnection, Reserve, Register, InsertNew, Attach
<1>3. ASSUME NEW c \in Conns, GiveBack(c) PROVE Goal
  BY <1>3, <1>hang DEF GiveBack
<1>4. ASSUME NEW c \in Conns, Heartbeat(c) \/ Message(c) PROVE Goal
  BY <1>4, <1>keep DEF Heartbeat, Message
<1>5. ASSUME NEW c \in Conns, Leave(c) \/ \E dst \in Ids : SendToDeadPeer(c, dst) PROVE Goal
  BY <1>5, <1>t, <1>goto DEF Leave, SendToDeadPeer
<1>6. ASSUME NEW c \in Conns, Close(c) PROVE Goal
  <2>1. CASE Hangup(c)
    BY <2>1, <1>hang
  <2>2. CASE /\ sess' = [sess EXCEPT ![c] = [id |-> sess[c].id, token |-> sess[c].token, closing |-> TRUE]]
             /\ Goto(c, "rmSender")
    BY <1>6, <2>2, <1>t DEF Close, Goto
  <2> QED
    BY <1>6, <2>1, <2>2 DEF Close
<1>7. ASSUME NEW t \in Tasks, RemoveSender(t) \/ RemoveClient(t) \/ Release(t) PROVE Goal
  BY <1>7, <1>t, <1>goto DEF RemoveSender, RemoveClient, Release
<1>8. ASSUME NEW t \in Tasks, RemoveRegistry(t) PROVE Goal
  BY <1>8, <1>t, <1>goto, <1>hang DEF RemoveRegistry, Tasks
<1>9. ASSUME Scan \/ (\E id \in Ids : Evict(id)) \/ CountClients \/ StoreCounter \/ TickDone PROVE Goal
  <2>1. sess' = sess /\ \E l : Goto(CheckBroken, l)
    BY <1>9, Zenon DEF Scan, Evict, CountClients, StoreCounter, TickDone
  <2> QED
    BY <2>1, <1>t, <1>goto
<1>10. ASSUME NEW id \in Ids, (\E timer \in Lateness : TimerExpires(id, timer)) \/ RegistryExpires(id) PROVE Goal
  BY <1>10, <1>keep DEF TimerExpires, RegistryExpires, taskVars
<1>11. ASSUME NEW c \in Conns, Handshake(c) PROVE Goal
  BY <1>11, <1>1, <1>2, <1>3 DEF Handshake
<1>12. ASSUME NEW t \in Tasks, Removal(t) PROVE Goal
  BY <1>12, <1>7, <1>8 DEF Removal
<1> QED
  BY <1>t, <1>4, <1>5, <1>6, <1>9, <1>10, <1>11, <1>12 DEF SteadyStep, CheckBrokenStep

\* The initial state has no clients.
LEMMA InitPollInv == HttpInit => PollInv
<1> SUFFICES ASSUME HttpInit PROVE PollInv
  OBVIOUS
<1>1. \A q \in Requests : req[q].kind = "none" /\ req[q].pc = "off"
  BY DEF HttpInit, Idle
<1>2. \A c \in Conns : pc[c] = "off"
  BY ConnsAssumption DEF HttpInit, Init, Tasks
<1>3. \A id \in Ids : wsSenders[id] = None
  BY DEF HttpInit, Init
<1> QED
  BY <1>1, <1>2, <1>3 DEF PollInv, PollEndsMatch

\* Every step keeps the two ends together: only a poll stores a receiver, after its
\* sender and before any other poll of the id has begun; everything else only
\* removes ends.
LEMMA NextPollInv == HttpShape /\ PollInv /\ [HttpNext]_allVars => PollInv'
<1> SUFFICES ASSUME HttpShape, PollInv, [HttpNext]_allVars PROVE PollInv'
  OBVIOUS
<1>s. HttpShape'
  BY NextHttpShape
<1>t. /\ SessionTypes
      /\ wsSenders \in [Ids -> Conns \cup Chans \cup {None}]
      /\ pollRx \in [Ids -> Chans \cup {None}]
      /\ req \in [Requests -> RequestStates] /\ req' \in [Requests -> RequestStates]
      /\ mixed \in [Ids -> BOOLEAN]
  BY <1>s DEF HttpShape
<1>k. /\ \A q \in Requests : req[q].kind \in {"sse", "poll"} \/ req[q].pc = "buildRx" => req[q].id \in Ids
      /\ \A q \in Requests : req[q].pc = "buildRx" => req[q].kind = "poll" /\ req[q].rx \in Chans
  BY <1>t DEF RequestStates, Idle
<1>i. /\ \A c \in Conns : pc[c] # "off" => mixed[sess[c].id]
      /\ \A q \in Requests : req[q].kind = "sse" => mixed[req[q].id]
      /\ \A p, q \in Requests :
            req[p].kind = "poll" /\ req[q].kind = "poll" /\ req[p].id = req[q].id =>
                p = q \/ mixed[req[p].id]
      /\ \A q \in Requests :
            req[q].pc = "buildRx" /\ ~mixed[req[q].id] => wsSenders[req[q].id] \in {None, req[q].rx}
      /\ \A id \in Ids :
            ~mixed[id] /\ None \notin {wsSenders[id], pollRx[id]}
              /\ (\A q \in Requests : ~(req[q].pc = "buildRx" /\ req[q].id = id))
                => wsSenders[id] = pollRx[id]
  BY DEF PollInv, PollEndsMatch, RequestsAt
<1>ids. \A c \in Conns : pc[c] # "off" => sess[c].id \in Ids
  BY <1>t DEF SessionTypes
\* The goal, by its parts.
<1>goal. ASSUME \A c \in Conns : pc'[c] # "off" => mixed'[sess'[c].id],
                \A q \in Requests : req'[q].kind = "sse" => mixed'[req'[q].id],
                \A p, q \in Requests :
                    req'[p].kind = "poll" /\ req'[q].kind = "poll" /\ req'[p].id = req'[q].id =>
                        p = q \/ mixed'[req'[p].id],
                \A q \in Requests :
                    req'[q].pc = "buildRx" /\ ~mixed'[req'[q].id] => wsSenders'[req'[q].id] \in {None, req'[q].rx},
                \A id \in Ids :
                    ~mixed'[id] /\ None \notin {wsSenders'[id], pollRx'[id]}
                      /\ (\A q \in Requests : ~(req'[q].pc = "buildRx" /\ req'[q].id = id))
                        => wsSenders'[id] = pollRx'[id]
         PROVE  PollInv'
  BY <1>goal DEF PollInv, PollEndsMatch, RequestsAt
\* Ends are only taken away, except from clients that mix transports.
<1>ends. ASSUME req' = req, pollRx' = pollRx,
                \A id \in Ids : mixed[id] => mixed'[id],
                \A id \in Ids : mixed'[id] \/ wsSenders'[id] \in {wsSenders[id], None},
                \A c \in Conns : pc'[c] # "off" => mixed'[sess'[c].id]
         PROVE  PollInv'
  BY <1>ends, <1>i, <1>k, <1>goal
<1>1. CASE SteadyStep /\ SessionStep /\ Aside
  <2>1. req' = req /\ pollRx' = pollRx /\ mixed' = mixed
    BY <1>1 DEF Aside
  <2>2. \A id \in Ids : mixed[id] \/ wsSenders'[id] \in {wsSenders[id], None}
    BY <1>1, <1>t, <1>i, SenderStep
  <2>3. \A c \in Conns : pc'[c] # "off" => mixed'[sess'[c].id]
    BY <1>1, <1>t, <1>i, <2>1, SteadySockets
  <2> QED
    BY <2>1, <2>2, <2>3, <1>ends
<1>2. ASSUME NEW c \in Conns, NEW id \in Ids, NEW token \in Tokens,
             Connect(c, id, token), mixed' = [mixed EXCEPT ![id] = TRUE], UNCHANGED <<req, pollRx, covered>>
      PROVE  PollInv'
  <2>1. wsSenders' = wsSenders
    BY <1>2 DEF Connect
  <2>2. /\ \A d \in Conns \ {c} : pc'[d] = pc[d] /\ sess'[d] = sess[d]
        /\ pc'[c] # "off" => sess'[c].id = id
    BY <1>2, <1>t, ConnsAssumption DEF Connect, Admit, Goto, Hangup, Session, SessionTypes, Tasks
  <2>3. \A i \in Ids : mixed[i] => mixed'[i]
    BY <1>2, <1>t
  <2>4. mixed'[id]
    BY <1>2, <1>t
  <2>5. \A d \in Conns : pc'[d] # "off" => mixed'[sess'[d].id]
    BY <2>2, <2>3, <2>4, <1>i, <1>ids
  <2> QED
    BY <1>2, <2>1, <2>3, <2>5, <1>ends
\* A request that neither enters nor leaves the place between its two inserts.
<1>quiet. ASSUME NEW q \in Requests, pc' = pc, sess' = sess, mixed' = mixed,
                 \A p \in Requests \ {q} : req'[p] = req[p],
                 req'[q].kind \in {"sse", "poll"} => req'[q].kind = req[q].kind /\ req'[q].id = req[q].id,
                 req[q].pc # "buildRx", req'[q].pc # "buildRx",
                 \A id \in Ids : mixed[id] \/ wsSenders'[id] \in {wsSenders[id], None},
                 \A id \in Ids : pollRx'[id] \in {pollRx[id], None}
          PROVE  PollInv'
  <2>1. \A c \in Conns : pc'[c] # "off" => mixed'[sess'[c].id]
    BY <1>quiet, <1>i
  <2>2. \A p \in Requests : req'[p].kind \in {"sse", "poll"} => req'[p].kind = req[p].kind /\ req'[p].id = req[p].id
    BY <1>quiet
  <2>3. \A p \in Requests : req'[p].kind = "sse" => mixed'[req'[p].id]
    BY <1>quiet, <1>i, <2>2
  <2>4. \A p, r \in Requests :
           req'[p].kind = "poll" /\ req'[r].kind = "poll" /\ req'[p].id = req'[r].id => p = r \/ mixed'[req'[p].id]
    BY <1>quiet, <1>i, <2>2
  <2>5. \A p \in Requests : req'[p].pc = "buildRx" \/ req[p].pc = "buildRx" => req'[p] = req[p]
    BY <1>quiet
  <2>6. \A p \in Requests :
           req'[p].pc = "buildRx" /\ ~mixed'[req'[p].id] => wsSenders'[req'[p].id] \in {None, req'[p].rx}
    BY <1>quiet, <1>i, <1>k, <2>5
  <2>7. ASSUME NEW id \in Ids, ~mixed'[id], None \notin {wsSenders'[id], pollRx'[id]},
               \A p \in Requests : ~(req'[p].pc = "buildRx" /\ req'[p].id = id)
        PROVE  wsSenders'[id] = pollRx'[id]
    BY <1>quiet, <1>i, <2>5, <2>7
  <2> QED
    BY <2>1, <2>3, <2>4, <2>6, <2>7, <1>goal
<1>x. ASSUME NEW q \in Requests PROVE req[q] \in RequestRecords /\ (req[q].pc # "off" => req[q].id \in Ids)
  BY <1>x, <1>t DEF RequestStates
<1> DEFINE Others(q) == \A p \in Requests \ {q} : req'[p] = req[p]
           Same(q) == req'[q].kind \in {"sse", "poll"} => req'[q].kind = req[q].kind /\ req'[q].id = req[q].id
           Ends == (\A id \in Ids : mixed[id] \/ wsSenders'[id] \in {wsSenders[id], None})
                   /\ \A id \in Ids : pollRx'[id] \in {pollRx[id], None}
<1>move. ASSUME NEW q \in Requests, NEW l, Move(q, l)
         PROVE  Others(q) /\ Same(q) /\ req'[q].pc = l /\ req'[q].id = req[q].id /\ req'[q].rx = req[q].rx
  BY <1>move, <1>x, <1>t DEF Move, RequestRecords
<1>end. ASSUME NEW q \in Requests, End(q) PROVE Others(q) /\ Same(q) /\ req'[q].pc = "off"
  BY <1>end, <1>t DEF End, Idle
<1>clean. ASSUME NEW q \in Requests, NEW id, NEW l, Clean(q, id, l), id = req[q].id \/ req[q].kind = "send"
          PROVE  Others(q) /\ Same(q) /\ req'[q].pc = l
  <2>1. req'[q] = [Idle EXCEPT !.pc = l, !.id = id, !.kind = req[q].kind] /\ Others(q)
    BY <1>clean, <1>t DEF Clean
  <2>2. req'[q].pc = l /\ req'[q].id = id /\ req'[q].kind = req[q].kind
    BY <2>1 DEF Idle
  <2> QED
    BY <2>1, <2>2, <1>clean
<1>keep. ASSUME wsSenders' = wsSenders, pollRx' = pollRx PROVE Ends
  BY <1>keep
<1> USE DEF vars, serverVars, taskVars
<1>3. ASSUME NEW q \in Requests, NEW kind \in {"sse", "poll"}, NEW id \in Ids, NEW token \in Tokens,
             Request(q, kind, id, token)
      PROVE  PollInv'
  <2> DEFINE new == clients[id] = None
             place == IF kind = "poll" /\ new THEN "reserve" ELSE "check"
  <2>1. req' = [req EXCEPT ![q] =
             [Idle EXCEPT !.pc = place, !.kind = kind, !.id = id, !.token = token, !.isNew = new]]
    BY <1>3 DEF Request
  <2>2. Others(q) /\ req'[q].pc \in {"reserve", "check"} /\ req'[q].kind = kind /\ req'[q].id = id
    <3>1. place \in {"reserve", "check"}
      OBVIOUS
    <3> HIDE DEF new, place
    <3> QED
      BY <2>1, <3>1, <1>t DEF Idle
  <2>3. req[q].kind = "none" /\ req[q].pc = "off"
    BY <1>3, <1>t DEF Request, RequestStates, Idle
  <2>4. /\ \A i \in Ids : mixed[i] => mixed'[i]
        /\ kind = "sse" => mixed'[id]
        /\ (\E p \in Requests : req[p].id = id /\ req[p].kind = "poll") => mixed'[id]
    BY <1>3, <1>t DEF Request
  <2>5. UNCHANGED <<pc, sess, wsSenders, pollRx>>
    BY <1>3 DEF Request
  <2>6. \A c \in Conns : pc'[c] # "off" => mixed'[sess'[c].id]
    BY <2>4, <2>5, <1>i, <1>ids
  <2>7. \A p \in Requests : req'[p].kind = "sse" => mixed'[req'[p].id]
    BY <2>2, <2>4, <1>i, <1>k
  <2>8. \A p, r \in Requests :
           req'[p].kind = "poll" /\ req'[r].kind = "poll" /\ req'[p].id = req'[r].id => p = r \/ mixed'[req'[p].id]
    BY <2>2, <2>4, <1>i, <1>k
  <2>9. \A p \in Requests : req'[p].pc = "buildRx" \/ req[p].pc = "buildRx" => req'[p] = req[p]
    BY <2>2, <2>3
  <2>10. \A p \in Requests :
            req'[p].pc = "buildRx" /\ ~mixed'[req'[p].id] => wsSenders'[req'[p].id] \in {None, req'[p].rx}
    BY <2>4, <2>5, <2>9, <1>i, <1>k
  <2>11. ASSUME NEW i \in Ids, ~mixed'[i], None \notin {wsSenders'[i], pollRx'[i]},
                \A p \in Requests : ~(req'[p].pc = "buildRx" /\ req'[p].id = i)
         PROVE  wsSenders'[i] = pollRx'[i]
    BY <2>4, <2>5, <2>9, <2>11, <1>i
  <2> QED
    BY <2>6, <2>7, <2>8, <2>10, <2>11, <1>goal
<1>4. ASSUME NEW q \in Requests, NEW id \in Ids, NEW token \in Tokens, Send(q, id, token) PROVE PollInv'
  <2>1. Others(q) /\ req'[q].pc = "handle" /\ req'[q].kind = "send"
    BY <1>4, <1>t DEF Send, Idle
  <2> QED
    BY <1>4, <2>1, <1>quiet DEF Send
<1>5. ASSUME NEW q \in Requests, CheckToken(q) PROVE PollInv'
  <2>1. Others(q) /\ Same(q) /\ req[q].pc # "buildRx" /\ req'[q].pc # "buildRx"
    BY <1>5, <1>move, <1>end DEF CheckToken
  <2> QED
    BY <1>5, <2>1, <1>keep, <1>quiet DEF CheckToken
<1>6. ASSUME NEW q \in Requests, HttpReserve(q) PROVE PollInv'
  <2>1. Others(q) /\ Same(q) /\ req[q].pc # "buildRx" /\ req'[q].pc # "buildRx"
    BY <1>6, <1>move DEF HttpReserve
  <2> QED
    BY <1>6, <2>1, <1>keep, <1>quiet DEF HttpReserve
<1>7. ASSUME NEW q \in Requests, HttpGiveBack(q) PROVE PollInv'
  <2>1. Others(q) /\ Same(q) /\ req[q].pc # "buildRx" /\ req'[q].pc # "buildRx"
    BY <1>7, <1>end DEF HttpGiveBack
  <2> QED
    BY <1>7, <2>1, <1>keep, <1>quiet DEF HttpGiveBack
<1>8. ASSUME NEW q \in Requests, GetRx(q) PROVE PollInv'
  <2>1. Others(q) /\ Same(q) /\ req[q].pc # "buildRx" /\ req'[q].pc # "buildRx"
    BY <1>8, <1>x, <1>t DEF GetRx, RequestRecords
  <2> QED
    BY <1>8, <2>1, <1>keep, <1>quiet DEF GetRx
<1>9. ASSUME NEW q \in Requests, GetTx(q) PROVE PollInv'
  <2>1. Others(q) /\ Same(q) /\ req[q].pc # "buildRx" /\ req'[q].pc # "buildRx"
    BY <1>9, <1>x, <1>t DEF GetTx, RequestRecords, Ready
  <2> QED
    BY <1>9, <2>1, <1>keep, <1>quiet DEF GetTx
<1>10. ASSUME NEW q \in Requests, BuildTx(q) PROVE PollInv'
  <2>1. PICK ch \in Chans : ch = Fresh
    BY FreshChannel
  <2>2. PICK id \in Ids : id = req[q].id
    BY <1>10, <1>x DEF BuildTx
  <2>3. /\ req[q].kind = "poll" /\ req[q].pc = "buildTx"
        /\ wsSenders' = [wsSenders EXCEPT ![id] = ch]
        /\ UNCHANGED <<pc, sess, mixed, pollRx>>
    BY <1>10, <1>t, <2>1, <2>2 DEF BuildTx, RequestStates
  <2>4. req' = [req EXCEPT ![q] = [req[q] EXCEPT !.pc = "buildRx", !.tx = ch, !.rx = ch]]
    BY <1>10, <2>1 DEF BuildTx
  <2>5. Others(q) /\ req'[q].pc = "buildRx" /\ req'[q].rx = ch /\ req'[q].kind = "poll" /\ req'[q].id = id
    BY <2>2, <2>3, <2>4, <1>x, <1>t DEF RequestRecords
  <2>6. \A p \in Requests : req'[p].kind = req[p].kind /\ req'[p].id = req[p].id
    BY <2>2, <2>3, <2>5
  <2>7. /\ \A c \in Conns : pc'[c] # "off" => mixed'[sess'[c].id]
        /\ \A p \in Requests : req'[p].kind = "sse" => mixed'[req'[p].id]
        /\ \A p, r \in Requests :
              req'[p].kind = "poll" /\ req'[r].kind = "poll" /\ req'[p].id = req'[r].id => p = r \/ mixed'[req'[p].id]
    BY <2>3, <2>6, <1>i
  <2>8. \A p \in Requests :
           req'[p].pc = "buildRx" /\ ~mixed'[req'[p].id] => wsSenders'[req'[p].id] \in {None, req'[p].rx}
    <3> SUFFICES ASSUME NEW p \in Requests, req'[p].pc = "buildRx", ~mixed'[req'[p].id]
                 PROVE  wsSenders'[req'[p].id] \in {None, req'[p].rx}
      OBVIOUS
    <3>1. CASE p = q
      BY <3>1, <2>3, <2>5, <1>t
    <3>2. CASE p # q
      <4>1. req'[p] = req[p] /\ req[p].kind = "poll" /\ req[p].id # id
        BY <3>2, <2>2, <2>3, <2>5, <1>i, <1>k
      <4> QED
        BY <4>1, <2>3, <1>i, <1>k, <1>t
    <3> QED
      BY <3>1, <3>2
  <2>9. ASSUME NEW i \in Ids, ~mixed'[i], None \notin {wsSenders'[i], pollRx'[i]},
               \A p \in Requests : ~(req'[p].pc = "buildRx" /\ req'[p].id = i)
        PROVE  wsSenders'[i] = pollRx'[i]
    <3>1. i # id
      BY <2>5, <2>9
    <3>2. \A p \in Requests : ~(req[p].pc = "buildRx" /\ req[p].id = i)
      BY <2>3, <2>5, <2>9
    <3> QED
      BY <2>3, <2>9, <3>1, <3>2, <1>i, <1>t
  <2> QED
    BY <2>7, <2>8, <2>9, <1>goal
<1>11. ASSUME NEW q \in Requests, BuildRx(q) PROVE PollInv'
  <2>1. PICK id \in Ids : id = req[q].id
    BY <1>11, <1>x DEF BuildRx
  <2>2. /\ req[q].pc = "buildRx" /\ pollRx' = [pollRx EXCEPT ![id] = req[q].rx]
        /\ UNCHANGED <<pc, sess, mixed, wsSenders>>
    BY <1>11, <2>1 DEF BuildRx
  <2>3. Others(q) /\ Same(q) /\ req'[q].pc # "buildRx"
    BY <1>11, <1>move DEF BuildRx, Ready
  <2>4. \A p \in Requests : req'[p].kind \in {"sse", "poll"} => req'[p].kind = req[p].kind /\ req'[p].id = req[p].id
    BY <2>3
  <2>5. \A c \in Conns : pc'[c] # "off" => mixed'[sess'[c].id]
    BY <2>2, <1>i
  <2>6. \A p \in Requests : req'[p].kind = "sse" => mixed'[req'[p].id]
    BY <2>2, <2>4, <1>i
  <2>7. \A p, r \in Requests :
           req'[p].kind = "poll" /\ req'[r].kind = "poll" /\ req'[p].id = req'[r].id => p = r \/ mixed'[req'[p].id]
    BY <2>2, <2>4, <1>i
  <2>8. \A p \in Requests :
           req'[p].pc = "buildRx" /\ ~mixed'[req'[p].id] => wsSenders'[req'[p].id] \in {None, req'[p].rx}
    BY <2>2, <2>3, <1>i
  <2>9. ASSUME NEW i \in Ids, ~mixed'[i], None \notin {wsSenders'[i], pollRx'[i]},
               \A p \in Requests : ~(req'[p].pc = "buildRx" /\ req'[p].id = i)
        PROVE  wsSenders'[i] = pollRx'[i]
    <3>1. CASE i = id
      BY <2>1, <2>2, <2>9, <3>1, <1>i, <1>t
    <3>2. CASE i # id
      <4>1. \A p \in Requests : ~(req[p].pc = "buildRx" /\ req[p].id = i)
        BY <2>1, <2>3, <2>9, <3>2
      <4> QED
        BY <2>2, <2>9, <3>2, <4>1, <1>i, <1>t
    <3> QED
      BY <3>1, <3>2
  <2> QED
    BY <2>5, <2>6, <2>7, <2>8, <2>9, <1>goal
<1>12. ASSUME NEW q \in Requests, RegisterBackend(q) PROVE PollInv'
  <2>1. Others(q) /\ Same(q) /\ req[q].pc # "buildRx" /\ req'[q].pc # "buildRx"
    BY <1>12, <1>move DEF RegisterBackend
  <2> QED
    BY <1>12, <2>1, <1>keep, <1>quiet DEF RegisterBackend
<1>13. ASSUME NEW q \in Requests, InsertClient(q) PROVE PollInv'
  <2>1. Others(q) /\ Same(q) /\ req[q].pc # "buildRx" /\ req'[q].pc # "buildRx"
    BY <1>13, <1>move DEF InsertClient
  <2> QED
    BY <1>13, <2>1, <1>keep, <1>quiet DEF InsertClient
<1>14. ASSUME NEW q \in Requests, Touch(q) PROVE PollInv'
  <2>1. Others(q) /\ Same(q) /\ req[q].pc # "buildRx" /\ req'[q].pc # "buildRx"
    BY <1>14, <1>move DEF Touch
  <2> QED
    BY <1>14, <2>1, <1>keep, <1>quiet DEF Touch
<1>15. ASSUME NEW q \in Requests, AttachStream(q) PROVE PollInv'
  <2>1. PICK id \in Ids : id = req[q].id
    BY <1>15, <1>x DEF AttachStream
  <2>2. req[q].kind = "sse" /\ mixed[id]
    BY <1>15, <1>t, <1>i, <2>1 DEF AttachStream, RequestStates
  <2>3. Others(q) /\ Same(q) /\ req[q].pc # "buildRx" /\ req'[q].pc # "buildRx"
    BY <1>15, <1>x, <1>t DEF AttachStream, RequestRecords
  <2>4. Ends
    BY <1>15, <1>t, <2>1, <2>2 DEF AttachStream
  <2> QED
    BY <1>15, <2>3, <2>4, <1>quiet DEF AttachStream
<1>16. ASSUME NEW q \in Requests, Deliver(q) PROVE PollInv'
  <2>1. Others(q) /\ Same(q) /\ req[q].pc # "buildRx" /\ req'[q].pc # "buildRx"
    BY <1>16, <1>move DEF Deliver
  <2> QED
    BY <1>16, <2>1, <1>keep, <1>quiet DEF Deliver
<1>17. ASSUME NEW q \in Requests, Answer(q) PROVE PollInv'
  <2>1. Others(q) /\ Same(q) /\ req[q].pc # "buildRx" /\ req'[q].pc # "buildRx"
    BY <1>17, <1>end DEF Answer
  <2> QED
    BY <1>17, <2>1, <1>keep, <1>quiet DEF Answer
<1>18. ASSUME NEW q \in Requests, Watchdog(q) PROVE PollInv'
  <2>1. Others(q) /\ Same(q) /\ req[q].pc # "buildRx" /\ req'[q].pc # "buildRx"
    BY <1>18, <1>move, <1>clean DEF Watchdog
  <2> QED
    BY <1>18, <2>1, <1>keep, <1>quiet DEF Watchdog
<1>19. ASSUME NEW q \in Requests, StreamEnds(q) PROVE PollInv'
  <2>1. Others(q) /\ Same(q) /\ req[q].pc # "buildRx" /\ req'[q].pc # "buildRx"
    BY <1>19, <1>clean DEF StreamEnds
  <2> QED
    BY <1>19, <2>1, <1>keep, <1>quiet DEF StreamEnds
<1>20. ASSUME NEW q \in Requests, HandleSent(q) PROVE PollInv'
  <2>0. req[q].kind = "send"
    BY <1>20, <1>t DEF HandleSent, RequestStates
  <2>1. Others(q) /\ Same(q) /\ req[q].pc # "buildRx" /\ req'[q].pc # "buildRx"
    BY <1>20, <2>0, <1>end, <1>clean DEF HandleSent
  <2> QED
    BY <1>20, <2>1, <1>keep, <1>quiet DEF HandleSent
<1>21. ASSUME NEW q \in Requests, CleanSender(q) PROVE PollInv'
  <2>1. Others(q) /\ Same(q) /\ req[q].pc # "buildRx" /\ req'[q].pc # "buildRx"
    BY <1>21, <1>move DEF CleanSender
  <2>2. Ends
    BY <1>21, <1>t DEF CleanSender
  <2> QED
    BY <1>21, <2>1, <2>2, <1>quiet DEF CleanSender
<1>22. ASSUME NEW q \in Requests, CleanRx(q) PROVE PollInv'
  <2>1. Others(q) /\ Same(q) /\ req[q].pc # "buildRx" /\ req'[q].pc # "buildRx"
    BY <1>22, <1>move DEF CleanRx
  <2>2. Ends
    BY <1>22, <1>t DEF CleanRx
  <2> QED
    BY <1>22, <2>1, <2>2, <1>quiet DEF CleanRx
<1>23. ASSUME NEW q \in Requests, CleanClient(q) PROVE PollInv'
  <2>1. Others(q) /\ Same(q) /\ req[q].pc # "buildRx" /\ req'[q].pc # "buildRx"
    BY <1>23, <1>move DEF CleanClient
  <2> QED
    BY <1>23, <2>1, <1>keep, <1>quiet DEF CleanClient
<1>24. ASSUME NEW q \in Requests, CleanRelease(q) PROVE PollInv'
  <2>1. Others(q) /\ Same(q) /\ req[q].pc # "buildRx" /\ req'[q].pc # "buildRx"
    BY <1>24, <1>move DEF CleanRelease
  <2> QED
    BY <1>24, <2>1, <1>keep, <1>quiet DEF CleanRelease
<1>25. ASSUME NEW q \in Requests, CleanRegistry(q) PROVE PollInv'
  <2>1. Others(q) /\ Same(q) /\ req[q].pc # "buildRx" /\ req'[q].pc # "buildRx"
    BY <1>25, <1>end DEF CleanRegistry
  <2> QED
    BY <1>25, <2>1, <1>keep, <1>quiet DEF CleanRegistry
<1>26. ASSUME NEW q \in Requests, Cancel(q) PROVE PollInv'
  <2>1. Others(q) /\ Same(q) /\ req[q].pc # "buildRx" /\ req'[q].pc # "buildRx"
    BY <1>26, <1>end DEF Cancel, Awaits
  <2> QED
    BY <1>26, <2>1, <1>keep, <1>quiet DEF Cancel
<1>27. ASSUME NEW q \in Requests, Disconnect(q) PROVE PollInv'
  <2>1. Others(q) /\ Same(q) /\ req[q].pc # "buildRx" /\ req'[q].pc # "buildRx"
    BY <1>27, <1>move, <1>end DEF Disconnect
  <2> QED
    BY <1>27, <2>1, <1>keep, <1>quiet DEF Disconnect
<1>28. CASE HttpRestart
  <2>1. \A q \in Requests : req'[q].kind = "none" /\ req'[q].pc = "off"
    BY <1>28 DEF HttpRestart, Idle
  <2>2. \A c \in Conns : pc'[c] = "off"
    BY <1>28, ConnsAssumption DEF HttpRestart, ServerRestart, Tasks
  <2>3. \A id \in Ids : wsSenders'[id] = None
    BY <1>28 DEF HttpRestart, ServerRestart
  <2> QED
    BY <2>1, <2>2, <2>3, <1>goal
<1>29. CASE UNCHANGED allVars
  BY <1>29, <1>i, <1>goal DEF allVars, httpVars
<1>30. ASSUME NEW q \in Requests, RequestStep(q) PROVE PollInv'
  BY <1>30, <1>3, <1>4, <1>5, <1>6, <1>7, <1>8, <1>9, <1>10, <1>11, <1>12, <1>13, <1>14, <1>15, <1>16, <1>17,
     <1>18, <1>19, <1>20, <1>21, <1>22, <1>23, <1>24, <1>25, <1>26, <1>27, Zenon DEF RequestStep, RequestRuns
<1> QED
  BY <1>1, <1>2, <1>28, <1>29, <1>30, HttpSteps

\* "Rebuild both ends consistently" holds for any number of clients: what is sent to
\* a client that only polls is what its next poll drains, whatever was removed
\* between its polls.
THEOREM PollEndsAreOne == HttpSpec => []PollEndsMatch
<1>1. HttpShape /\ PollInv /\ [HttpNext]_allVars => (HttpShape /\ PollInv)'
  BY NextHttpShape, NextPollInv
<1>2. PollInv => PollEndsMatch
  BY DEF PollInv
<1> QED
  BY <1>1, <1>2, InitHttpShape, InitPollInv, PTL DEF HttpSpec
=============================================================================
