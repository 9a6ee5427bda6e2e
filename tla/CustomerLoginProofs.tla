------------------------- MODULE CustomerLoginProofs -------------------------
(***************************************************************************)
(* Theorems about CustomerLogin, for any number of customers, addresses,   *)
(* requests and Redis failures.  What TenantsProofs proves of the tenants  *)
(* alone holds with the dashboard on top of them.                          *)
(***************************************************************************)
EXTENDS CustomerLogin, TenantsProofs

-----------------------------------------------------------------------------
(* The inductive invariants.                                               *)

\* What a request to the login API knows at each of its steps.
RequestRecords ==
    [pc : {"idle", "link", "slot", "mail", "exchange"}, email : Emails \cup {None},
     tenant : TenantIds \cup {None}, key : Keys \cup {None}]
RequestStates ==
    {x \in RequestRecords :
        /\ x.pc # "idle" => x.email \in Emails
        /\ x.pc \in {"link", "exchange"} => x.tenant \in TenantIds
        /\ x.pc = "exchange" => x.key \in Keys}

LoginShape ==
    /\ links \subseteq [email : Emails, tenant : TenantIds]
    /\ request \in [Requests -> RequestStates]
    /\ cooldown \in [Emails -> BOOLEAN]
    /\ sent \in [Emails -> Nat]
    /\ emailOf \in [TenantIds -> Emails \cup {None}]

\* A mail that was sent or is being sent has used up the window of its address.
Mailing(q, e) == request[q].pc = "mail" /\ request[q].email = e
WindowInv ==
    \A e \in Emails :
        /\ sent[e] <= 1
        /\ \A p, q \in Requests : Mailing(p, e) /\ Mailing(q, e) => p = q
        /\ \A q \in Requests : Mailing(q, e) => cooldown[e] /\ sent[e] = 0
        /\ ~cooldown[e] => sent[e] = 0

\* A key was minted for the tenant: it was created.
Created(t) == \E k \in Keys : owner[k] = t

\* The record that a request is going to store, or deletes, has the address
\* that its tenant was created with.
HoldsAddress(x, addresses) ==
    x.pc \in HoldsRecord \/ (x.pc = "drop" /\ x.record # None) =>
        x.record.email = addresses[x.id]

AddressInv ==
    /\ \A t \in TenantIds : ~Created(t) => emailOf[t] = None
    /\ \A e \in Emails : byEmail[e] # None => Created(byEmail[e]) /\ emailOf[byEmail[e]] = e
    /\ \A k \in Keys : byKey[k] # None => byKey[k].email = emailOf[byKey[k].id]
    /\ \A h \in Handlers : handler[h].pc # "idle" => Created(handler[h].id)
    /\ \A h \in Handlers : HoldsAddress(handler[h], emailOf)

\* A tenant that is not disturbed and alone with its address is found by it,
\* and a request that deletes it knows the address.
FoundByAddress(t) ==
    /\ \A h \in Handlers : handler[h].id = t /\ handler[h].pc = "drop" => handler[h].record # None
    /\ byId[t] # None <=> byEmail[emailOf[t]] = t
FoundInv == \A t \in TenantIds \ disturbed : Unshared(t) => FoundByAddress(t)

TenantsInv == TenantsShape /\ IsolationInv /\ QuietInv

-----------------------------------------------------------------------------
(* The dashboard's steps as steps of the tenants.                          *)

\* What the dashboard and the admins do to tenants that exist.
ServedStep ==
    \/ TenantSteps
    \/ \E h \in Handlers, t \in TenantIds : ReadIndex(h, t, "rotate")
    \/ UNCHANGED vars

CreateStep ==
    \E h \in Handlers, t \in TenantIds, k \in Keys, e \in Emails \cup {None}, s \in Secrets \cup {None} :
        RegisterEmail(h, t, k, e, s)

\* Redis failed a command that is not about tenants.
ErrorStep == UNCHANGED <<tenantState, emailOf>> /\ errors > 0 /\ errors' = errors - 1

\* Every step is one of these three.
LEMMA LoginSteps ==
    ASSUME [LoginNext]_allVars
    PROVE  (ServedStep /\ UNCHANGED emailOf) \/ CreateStep \/ ErrorStep
<1> DEFINE Goal == (ServedStep /\ UNCHANGED emailOf) \/ CreateStep \/ ErrorStep
<1> SUFFICES Goal
  OBVIOUS
<1>served. ASSUME ServedStep, UNCHANGED emailOf PROVE Goal
  BY <1>served
<1>same. ASSUME UNCHANGED vars, UNCHANGED emailOf PROVE Goal
  BY <1>same DEF ServedStep
<1>error. ASSUME UNCHANGED tenantState, UNCHANGED emailOf, UNCHANGED errors \/ RedisError PROVE Goal
  <2>1. CASE UNCHANGED errors
    BY <1>error, <2>1, <1>same DEF vars, tenantState
  <2>2. CASE RedisError
    BY <1>error, <2>2 DEF RedisError, ErrorStep
  <2> QED
    BY <1>error, <2>1, <2>2
<1>create. ASSUME CreateStep PROVE Goal
  BY <1>create
<1> HIDE DEF Goal
<1>1. CASE TenantSteps /\ UNCHANGED loginVars
  BY <1>1, <1>served DEF ServedStep, loginVars
<1>2. ASSUME NEW h \in Handlers, NEW t \in TenantIds, RotateKey(h, t) PROVE Goal
  BY <1>2, <1>served DEF RotateKey, ServedStep, loginVars
<1>3. ASSUME NEW h \in Handlers, NEW t \in TenantIds, NEW k \in Keys, NEW e \in Emails \cup {None},
             NEW s \in Secrets \cup {None}, RegisterEmail(h, t, k, e, s)
      PROVE  Goal
  BY <1>3, <1>create DEF CreateStep
<1>4. ASSUME NEW k \in Keys, LoginFromCache(k) PROVE Goal
  BY <1>4, <1>same DEF LoginFromCache
<1>5. ASSUME NEW r \in Resolvers, LoginFetched(r) PROVE Goal
  BY <1>5, <1>served DEF LoginFetched, ServedStep, TenantSteps, ResolverSteps
<1>6. ASSUME NEW q \in Requests, RequestSteps(q) PROVE Goal
  <2>1. ASSUME NEW e \in Emails, RequestMagicLink(q, e) PROVE Goal
    BY <2>1, <1>same DEF RequestMagicLink
  <2>2. CASE AcquireSlot(q)
    BY <2>2, <1>error DEF AcquireSlot
  <2>3. CASE SendLink(q) \/ SendNoAccount(q)
    BY <2>3, <1>same DEF SendLink, SendNoAccount
  <2>4. ASSUME NEW link \in links, ExchangeMagic(q, link) PROVE Goal
    BY <2>4, <1>same DEF ExchangeMagic
  <2>5. CASE ExchangeFetch(q)
    <3>1. UNCHANGED <<tenantState, emailOf>> /\ (UNCHANGED errors \/ RedisError)
      BY <2>5, Zenon DEF ExchangeFetch
    <3> QED
      BY <3>1, <1>error
  <2> QED
    BY <1>6, <2>1, <2>2, <2>3, <2>4, <2>5 DEF RequestSteps
<1>7. ASSUME NEW t \in TenantIds, SessionExpires(t) PROVE Goal
  BY <1>7, <1>same DEF SessionExpires
<1>8. ASSUME NEW link \in links, LinkExpires(link) PROVE Goal
  BY <1>8, <1>same DEF LinkExpires
<1>9. ASSUME NEW e \in Emails, CooldownExpires(e) PROVE Goal
  BY <1>9, <1>same DEF CooldownExpires
<1>10. CASE UNCHANGED allVars
  BY <1>10, <1>same DEF allVars, loginVars
<1> QED
  BY <1>1, <1>2, <1>3, <1>4, <1>5, <1>6, <1>7, <1>8, <1>9, <1>10, Zenon DEF LoginNext

\* The first two are steps of Tenants.
LEMMA ServedIsTenantStep == (ServedStep => [Next]_vars) /\ (CreateStep => [Next]_vars)
<1>1. ASSUME TenantSteps PROVE Next
  <2>1. ASSUME NEW h \in Handlers, NEW t \in TenantIds, NEW op \in AdminOps, ReadIndex(h, t, op) PROVE Next
    BY <2>1, AdminOpsAssumption DEF Next
  <2> QED
    BY <1>1, <2>1 DEF TenantSteps, Next
<1>2. ASSUME NEW h \in Handlers, NEW t \in TenantIds, ReadIndex(h, t, "rotate") PROVE Next
  BY <1>2 DEF Next
<1>3. ASSUME CreateStep PROVE Next
  BY <1>3 DEF CreateStep, RegisterEmail, Next
<1> QED
  BY <1>1, <1>2, <1>3 DEF ServedStep

\* What TenantsProofs shows of the tenants stays true under the dashboard.
LEMMA NextTenantsInv ==
    ASSUME TenantsInv, [LoginNext]_allVars
    PROVE  TenantsInv'
<1>1. CASE [Next]_vars
  BY <1>1, NextShape, NextIsolation, NextQuiet DEF TenantsInv, IsolationInv
<1>2. CASE ErrorStep
  <2> USE DEF ErrorStep, tenantState, redisVars, historyVars
  <2>1. errors' \in 0 .. MaxErrors
    BY <1>2, ErrorsAssumption DEF TenantsInv, TenantsShape, TenantsTypeOK
  <2>2. TenantsShape'
    BY <1>2, <2>1 DEF TenantsInv, TenantsShape, TenantsTypeOK
  <2>3. IsolationInv'
    BY <1>2 DEF TenantsInv, IsolationInv, Minted, TenantIsolation
  <2>4. QuietInv'
    BY <1>2 DEF TenantsInv, QuietInv, QuietTenant, ReadHolds
  <2> QED
    BY <2>2, <2>3, <2>4 DEF TenantsInv
<1> QED
  BY <1>1, <1>2, LoginSteps, ServedIsTenantStep

-----------------------------------------------------------------------------
(* The requests to the login API.                                          *)

\* The server starts without requests, and no mail was sent.
LEMMA InitLogin == LoginInit => TenantsInv /\ LoginShape /\ WindowInv
<1> SUFFICES ASSUME LoginInit PROVE TenantsInv /\ LoginShape /\ WindowInv
  OBVIOUS
<1>1. TenantsInv
  BY InitShape, InitIsolation, InitQuiet DEF LoginInit, TenantsInv
<1>2. IdleRequest \in RequestStates
  BY DEF IdleRequest, RequestStates, RequestRecords
<1>3. LoginShape
  BY <1>2 DEF LoginInit, LoginShape
<1>4. WindowInv
  BY DEF LoginInit, WindowInv, Mailing, IdleRequest
<1> QED
  BY <1>1, <1>3, <1>4

\* What a request knows, taken apart.
LEMMA RequestKnows ==
    ASSUME LoginShape, NEW q \in Requests
    PROVE  /\ request[q] \in RequestStates /\ request[q] \in RequestRecords
           /\ request[q].pc # "idle" => request[q].email \in Emails
           /\ request[q].pc \in {"link", "exchange"} => request[q].tenant \in TenantIds
<1>1. request[q] \in RequestStates
  BY DEF LoginShape
<1> QED
  BY <1>1 DEF RequestStates

\* A step keeps the shape of the requests and the windows: the command that
\* takes the slot of an address is the only way to a mail, and a mail that is
\* on its way keeps its window open.
LEMMA NextLogin ==
    ASSUME TenantsInv, LoginShape, WindowInv, [LoginNext]_allVars
    PROVE  LoginShape' /\ WindowInv'
<1> DEFINE Goal == LoginShape' /\ WindowInv'
<1> SUFFICES Goal
  OBVIOUS
<1>t. /\ byId \in [TenantIds -> Keys \cup {None}] /\ byEmail \in [Emails -> TenantIds \cup {None}]
  BY DEF TenantsInv, TenantsShape, TenantsTypeOK
<1>same. ASSUME UNCHANGED <<request, cooldown, sent>>,
                links' \subseteq links, emailOf' \in [TenantIds -> Emails \cup {None}]
         PROVE  Goal
  BY <1>same DEF LoginShape, WindowInv, Mailing
<1>idle. IdleRequest \in RequestStates /\ IdleRequest.pc # "mail"
  BY DEF IdleRequest, RequestStates, RequestRecords
\* A request goes on without sending a "no account" mail.
<1>step. ASSUME NEW q \in Requests, NEW x \in RequestStates, request' = [request EXCEPT ![q] = x],
                x.pc # "mail", UNCHANGED <<cooldown, sent, emailOf>>,
                links' \subseteq [email : Emails, tenant : TenantIds]
         PROVE  Goal
  <2>1. request' \in [Requests -> RequestStates] /\ request'[q] = x
        /\ \A p \in Requests \ {q} : request'[p] = request[p]
    BY <1>step DEF LoginShape
  <2>2. LoginShape'
    BY <1>step, <2>1 DEF LoginShape
  <2>3. \A p \in Requests, e \in Emails : Mailing(p, e)' => Mailing(p, e)
    BY <1>step, <2>1 DEF Mailing
  <2>4. WindowInv'
    BY <1>step, <2>3 DEF WindowInv
  <2> QED
    BY <2>2, <2>4
<1>done. ASSUME NEW q \in Requests, Done(q), UNCHANGED <<cooldown, sent, emailOf>>,
                links' \subseteq [email : Emails, tenant : TenantIds]
         PROVE  Goal
  BY <1>done, <1>idle, <1>step DEF Done
<1>links. links \subseteq [email : Emails, tenant : TenantIds] /\ emailOf \in [TenantIds -> Emails \cup {None}]
  BY DEF LoginShape
<1> HIDE DEF Goal
<1>1. ASSUME UNCHANGED loginVars PROVE Goal
  BY <1>1, <1>same, <1>links DEF loginVars
<1>2. ASSUME NEW h \in Handlers, NEW t \in TenantIds, NEW k \in Keys, NEW e \in Emails \cup {None},
             NEW s \in Secrets \cup {None}, RegisterEmail(h, t, k, e, s)
      PROVE  Goal
  BY <1>2, <1>same, <1>links DEF RegisterEmail
<1>3. ASSUME NEW k \in Keys, LoginFromCache(k) PROVE Goal
  BY <1>3, <1>same, <1>links DEF LoginFromCache
<1>4. ASSUME NEW r \in Resolvers, LoginFetched(r) PROVE Goal
  BY <1>4, <1>same, <1>links DEF LoginFetched
<1>5. ASSUME NEW q \in Requests, NEW e \in Emails, RequestMagicLink(q, e) PROVE Goal
  <2>x. PICK x : x = [pc |-> IF byEmail[e] # None THEN "link" ELSE "slot",
                      email |-> e, tenant |-> byEmail[e], key |-> None]
    OBVIOUS
  <2>1. x \in RequestStates /\ x.pc # "mail"
    BY <2>x, <1>t DEF RequestStates, RequestRecords
  <2>2. request' = [request EXCEPT ![q] = x] /\ UNCHANGED <<cooldown, sent, emailOf, links>>
    BY <1>5, <2>x DEF RequestMagicLink
  <2> QED
    BY <2>1, <2>2, <1>step, <1>links
<1>6. ASSUME NEW q \in Requests, AcquireSlot(q) PROVE Goal
  <2>0. request[q].pc = "slot" /\ UNCHANGED <<sent, emailOf, links>>
    BY <1>6 DEF AcquireSlot
  <2>e. PICK e \in Emails : e = request[q].email
    BY <2>0, RequestKnows
  <2>1. CASE ~cooldown[e] /\ cooldown' = [cooldown EXCEPT ![e] = TRUE] /\ request' = [request EXCEPT ![q].pc = "mail"]
    <3> PICK x \in RequestStates : x = request[q]
      BY RequestKnows
    <3> DEFINE y == [x EXCEPT !.pc = "mail"]
    <3>1. y \in RequestStates /\ y.pc = "mail" /\ y.email = e
      BY <2>e DEF RequestStates, RequestRecords
    <3>2. request' = [request EXCEPT ![q] = y]
      BY <2>1 DEF LoginShape
    <3> HIDE DEF y
    <3>3. /\ request' \in [Requests -> RequestStates] /\ request'[q] = y
          /\ \A p \in Requests \ {q} : request'[p] = request[p]
      BY <3>1, <3>2 DEF LoginShape
    <3>4. cooldown' \in [Emails -> BOOLEAN] /\ cooldown'[e] /\ \A f \in Emails \ {e} : cooldown'[f] = cooldown[f]
      BY <2>1 DEF LoginShape
    <3>5. LoginShape'
      BY <2>0, <3>3, <3>4 DEF LoginShape
    <3>6. sent[e] = 0 /\ \A p \in Requests : ~Mailing(p, e)
      BY <2>1 DEF WindowInv
    <3>7. \A p \in Requests : Mailing(p, e)' => p = q
      BY <3>3, <3>6 DEF Mailing
    <3>8. \A p \in Requests, f \in Emails \ {e} : Mailing(p, f)' => Mailing(p, f)
      BY <3>1, <3>3 DEF Mailing
    <3>9. ASSUME NEW f \in Emails
          PROVE  /\ sent'[f] <= 1
                 /\ \A p, r \in Requests : Mailing(p, f)' /\ Mailing(r, f)' => p = r
                 /\ \A p \in Requests : Mailing(p, f)' => cooldown'[f] /\ sent'[f] = 0
                 /\ ~cooldown'[f] => sent'[f] = 0
      <4>1. CASE f = e
        BY <4>1, <2>0, <3>4, <3>6, <3>7
      <4>2. CASE f # e
        BY <4>2, <2>0, <3>4, <3>8 DEF WindowInv
      <4> QED
        BY <4>1, <4>2
    <3>10. WindowInv'
      BY <3>9 DEF WindowInv
    <3> QED
      BY <3>5, <3>10 DEF Goal
  <2>2. CASE Done(q) /\ UNCHANGED cooldown
    BY <2>0, <2>2, <1>done, <1>links
  \* The slot may be taken although the command failed; nothing is mailed.
  <2>3. CASE Done(q) /\ cooldown' = [cooldown EXCEPT ![e] = TRUE]
    <3>1. request' \in [Requests -> RequestStates] /\ request'[q].pc # "mail"
          /\ \A p \in Requests \ {q} : request'[p] = request[p]
      BY <2>3, <1>idle DEF Done, LoginShape
    <3>2. cooldown' \in [Emails -> BOOLEAN] /\ \A f \in Emails : cooldown[f] => cooldown'[f]
      BY <2>3 DEF LoginShape
    <3>3. \A p \in Requests, f \in Emails : Mailing(p, f)' => Mailing(p, f)
      BY <3>1 DEF Mailing
    <3>4. LoginShape'
      BY <2>0, <3>1, <3>2 DEF LoginShape
    <3>5. WindowInv'
      BY <2>0, <3>2, <3>3 DEF WindowInv
    <3> QED
      BY <3>4, <3>5 DEF Goal
  <2> QED
    BY <1>6, <2>e, <2>1, <2>2, <2>3 DEF AcquireSlot
<1>7. ASSUME NEW q \in Requests, SendLink(q) PROVE Goal
  <2>1. request[q].email \in Emails /\ request[q].tenant \in TenantIds
    BY <1>7, RequestKnows DEF SendLink
  <2>2. links' \subseteq [email : Emails, tenant : TenantIds]
    BY <1>7, <2>1, <1>links DEF SendLink
  <2> QED
    BY <1>7, <2>2, <1>done DEF SendLink
<1>8. ASSUME NEW q \in Requests, SendNoAccount(q) PROVE Goal
  <2>0. request[q].pc = "mail" /\ Done(q) /\ UNCHANGED <<cooldown, emailOf, links>>
    BY <1>8 DEF SendNoAccount
  <2>e. PICK e \in Emails : e = request[q].email
    BY <2>0, RequestKnows
  <2>1. CASE UNCHANGED sent
    BY <2>0, <2>1, <1>done, <1>links
  <2>2. CASE sent' = [sent EXCEPT ![e] = @ + 1]
    <3>1. request' \in [Requests -> RequestStates] /\ request'[q].pc # "mail"
          /\ \A p \in Requests \ {q} : request'[p] = request[p]
      BY <2>0, <1>idle DEF Done, LoginShape
    <3>2. Mailing(q, e) /\ cooldown[e] /\ sent[e] = 0
      BY <2>0, <2>e DEF WindowInv, Mailing
    <3>3. sent' \in [Emails -> Nat] /\ sent'[e] = 1 /\ \A f \in Emails \ {e} : sent'[f] = sent[f]
      BY <2>2, <3>2 DEF LoginShape
    <3>4. LoginShape'
      BY <2>0, <3>1, <3>3 DEF LoginShape
    <3>5. \A p \in Requests, f \in Emails : Mailing(p, f)' => Mailing(p, f) /\ f # e
      BY <3>1, <3>2 DEF Mailing, WindowInv
    <3>6. WindowInv'
      BY <2>0, <3>2, <3>3, <3>5 DEF WindowInv
    <3> QED
      BY <3>4, <3>6 DEF Goal
  <2> QED
    BY <1>8, <2>e, <2>1, <2>2 DEF SendNoAccount
<1>9. ASSUME NEW q \in Requests, NEW link \in links, ExchangeMagic(q, link) PROVE Goal
  <2>x. PICK x : x = [pc |-> "exchange", email |-> link.email, tenant |-> link.tenant, key |-> byId[link.tenant]]
    OBVIOUS
  <2>1. link.email \in Emails /\ link.tenant \in TenantIds /\ byId[link.tenant] \in Keys
    BY <1>9, <1>links, <1>t DEF ExchangeMagic
  <2>2. x \in RequestStates /\ x.pc # "mail"
    BY <2>x, <2>1 DEF RequestStates, RequestRecords
  <2>3. request' = [request EXCEPT ![q] = x] /\ UNCHANGED <<cooldown, sent, emailOf, links>>
    BY <1>9, <2>x DEF ExchangeMagic
  <2> QED
    BY <2>2, <2>3, <1>step, <1>links
<1>10. ASSUME NEW q \in Requests, ExchangeFetch(q) PROVE Goal
  <2>1. Done(q) /\ UNCHANGED <<cooldown, sent, emailOf, links>>
    BY <1>10, Zenon DEF ExchangeFetch
  <2> QED
    BY <2>1, <1>done, <1>links
<1>11. ASSUME NEW t \in TenantIds, SessionExpires(t) PROVE Goal
  BY <1>11, <1>same, <1>links DEF SessionExpires
<1>12. ASSUME NEW link \in links, LinkExpires(link) PROVE Goal
  BY <1>12, <1>same, <1>links DEF LinkExpires
<1>13. ASSUME NEW e \in Emails, CooldownExpires(e) PROVE Goal
  <2>1. UNCHANGED <<request, emailOf, links>> /\ \A q \in Requests : ~Mailing(q, e)
    BY <1>13 DEF CooldownExpires, Mailing
  <2>2. /\ cooldown' \in [Emails -> BOOLEAN] /\ sent' \in [Emails -> Nat] /\ sent'[e] = 0
        /\ \A f \in Emails \ {e} : cooldown'[f] = cooldown[f] /\ sent'[f] = sent[f]
    BY <1>13 DEF CooldownExpires, LoginShape
  <2>3. LoginShape'
    BY <2>1, <2>2 DEF LoginShape
  <2>4. \A q \in Requests, f \in Emails : Mailing(q, f)' => Mailing(q, f) /\ f # e
    BY <2>1 DEF Mailing
  <2>5. WindowInv'
    BY <2>2, <2>4 DEF WindowInv
  <2> QED
    BY <2>3, <2>5 DEF Goal
<1>14. CASE UNCHANGED allVars
  BY <1>14, <1>1 DEF allVars
<1>15. ASSUME NEW q \in Requests, RequestSteps(q) PROVE Goal
  BY <1>15, <1>5, <1>6, <1>7, <1>8, <1>9, <1>10, Zenon DEF RequestSteps
<1>16. ASSUME NEW h \in Handlers, NEW t \in TenantIds, RotateKey(h, t) PROVE Goal
  BY <1>16, <1>1 DEF RotateKey
<1> QED
  BY <1>1, <1>2, <1>3, <1>4, <1>11, <1>12, <1>13, <1>14, <1>15, <1>16, Zenon DEF LoginNext

-----------------------------------------------------------------------------
(* The index of addresses.                                                 *)

\* The commands of a pipe for the address index: one, the third, for the
\* address of the record when a tenant that has one is created or deleted.
LEMMA EmailCommands ==
  ASSUME NEW h \in Handlers, handler[h].pc \in WritePcs
  PROVE  LET hd == handler[h]
             named == hd.pc \in {"create", "drop"} /\ hd.record # None /\ hd.record.email # None
         IN  /\ named =>
                  /\ Len(Pipe(h)) = 3
                  /\ Pipe(h)[3] = <<"email", hd.record.email, IF hd.pc = "create" THEN hd.id ELSE None>>
             /\ \A i \in 1 .. Len(Pipe(h)) : Pipe(h)[i][1] = "email" => named /\ i = 3
<1> DEFINE r == handler[h].record
           none == r = None \/ r.email = None
           a == <<"key", handler[h].next, r>>
           b == <<"id", handler[h].id, handler[h].next>>
           c == <<"key", handler[h].key, None>>
           d == <<"id", handler[h].id, None>>
<1>1. CASE handler[h].pc = "create"
  <2>1. CASE none
    <3>1. Pipe(h) = <<a, b>> \o << >>
      BY <1>1, <2>1 DEF Pipe
    <3>2. Pipe(h) = <<a, b>>
      BY <3>1
    <3> QED
      BY <1>1, <2>1, <3>2
  <2>2. CASE ~none
    <3>1. Pipe(h) = <<a, b>> \o << <<"email", r.email, handler[h].id>> >>
      BY <1>1, <2>2 DEF Pipe
    <3>2. Pipe(h) = <<a, b, <<"email", r.email, handler[h].id>>>>
      BY <3>1, ThreeCommands
    <3> QED
      BY <1>1, <2>2, <3>2
  <2> QED
    BY <2>1, <2>2
<1>2. CASE handler[h].pc = "replace"
  <2>1. Pipe(h) = <<a, b, c>>
    BY <1>2 DEF Pipe
  <2> QED
    BY <1>2, <2>1
<1>3. CASE handler[h].pc = "store"
  <2>1. Pipe(h) = <<a>>
    BY <1>3 DEF Pipe
  <2> QED
    BY <1>3, <2>1
<1>4. CASE handler[h].pc = "drop"
  <2>1. CASE none
    <3>1. Pipe(h) = <<c, d>> \o << >>
      BY <1>4, <2>1 DEF Pipe
    <3>2. Pipe(h) = <<c, d>>
      BY <3>1
    <3> QED
      BY <1>4, <2>1, <3>2
  <2>2. CASE ~none
    <3>1. Pipe(h) = <<c, d>> \o << <<"email", r.email, None>> >>
      BY <1>4, <2>2 DEF Pipe
    <3>2. Pipe(h) = <<c, d, <<"email", r.email, None>>>>
      BY <3>1, ThreeCommands
    <3> QED
      BY <1>4, <2>2, <3>2
  <2> QED
    BY <2>1, <2>2
<1> QED
  BY <1>1, <1>2, <1>3, <1>4 DEF WritePcs

\* A request puts its tenant into the address index, or takes it out, under the
\* address of its record.
Names(hd) == hd.pc \in {"create", "drop"} /\ hd.record # None /\ hd.record.email # None
Named(hd) == Put(byEmail, hd.record.email, IF hd.pc = "create" THEN hd.id ELSE None)

\* A single command for the address index changes it at one place.
LEMMA EmailWrittenOnce ==
  ASSUME TenantsTypeOK
  PROVE  \A pipe, n, j : n \in Nat /\ OnlyFor("email", pipe, n, j) =>
           Written(byEmail, "email", pipe, n) = Put(byEmail, pipe[j][2], pipe[j][3])
<1> SUFFICES ASSUME NEW pipe, NEW n \in Nat, NEW j, OnlyFor("email", pipe, n, j)
             PROVE  Written(byEmail, "email", pipe, n) = Put(byEmail, pipe[j][2], pipe[j][3])
  OBVIOUS
<1>1. PICK R : byEmail \in [Emails -> R]
  BY DEF TenantsTypeOK
<1> QED
  BY <1>1, WrittenOnce

\* What the first commands of a pipe, or all of them, do to the address index.
LEMMA EmailEffect ==
  ASSUME NEW h \in Handlers, TenantsShape, handler[h].pc \in WritePcs,
         NEW n \in 0 .. Len(Pipe(h)), Apply(h, n)
  PROVE  /\ byEmail' = byEmail \/ (Names(handler[h]) /\ byEmail' = Named(handler[h]))
         /\ n = Len(Pipe(h)) /\ Names(handler[h]) => byEmail' = Named(handler[h])
<1>p. PICK pipe : pipe = Pipe(h)
  OBVIOUS
<1>hd. PICK hd : hd = handler[h]
  OBVIOUS
<1>t. byEmail \in [Emails -> TenantIds \cup {None}] /\ Len(pipe) \in Nat /\ n \in Nat /\ n <= Len(pipe)
  BY <1>p, PipeShape DEF TenantsShape, TenantsTypeOK
<1>a. byEmail' = Written(byEmail, "email", pipe, n)
  BY <1>p DEF Apply
<1>c. /\ Names(hd) => Len(pipe) = 3 /\ pipe[3] = <<"email", hd.record.email, IF hd.pc = "create" THEN hd.id ELSE None>>
      /\ \A i \in 1 .. Len(pipe) : pipe[i][1] = "email" => Names(hd) /\ i = 3
  BY <1>p, <1>hd, EmailCommands DEF Names
<1>1. CASE Names(hd) /\ n = 3
  <2>1. OnlyFor("email", pipe, n, 3)
    BY <1>1, <1>c, <1>t DEF OnlyFor
  <2>2. Written(byEmail, "email", pipe, n) = Put(byEmail, pipe[3][2], pipe[3][3])
    BY <2>1, <1>t, EmailWrittenOnce DEF TenantsShape
  <2>3. pipe[3][2] = hd.record.email /\ pipe[3][3] = IF hd.pc = "create" THEN hd.id ELSE None
    BY <1>1, <1>c
  <2>4. byEmail' = Named(hd)
    BY <2>2, <2>3, <1>a DEF Named
  <2> QED
    BY <1>1, <1>hd, <2>4
<1>2. CASE ~(Names(hd) /\ n = 3)
  <2>1. \A i \in 1 .. n : pipe[i][1] # "email"
    BY <1>2, <1>c, <1>t
  <2>2. byEmail' = byEmail
    BY <2>1, <1>a, <1>t, WrittenElsewhere
  <2>3. ~(n = Len(pipe) /\ Names(hd))
    BY <1>2, <1>c
  <2> QED
    BY <1>p, <1>hd, <2>2, <2>3
<1> QED
  BY <1>1, <1>2

\* No tenant was created and no address is listed at the start.
LEMMA InitAddresses == LoginInit => AddressInv /\ FoundInv
<1> SUFFICES ASSUME LoginInit PROVE AddressInv /\ FoundInv
  OBVIOUS
<1>1. AddressInv
  BY DEF LoginInit, Init, AddressInv, HoldsAddress, IdleHandler, HoldsRecord
<1>2. FoundInv
  BY DEF LoginInit, FoundInv, Unshared
<1> QED
  BY <1>1, <1>2

\* Every step keeps addresses with their tenants, and the index true to them.
LEMMA NextAddresses ==
    ASSUME TenantsInv, LoginShape, AddressInv, FoundInv, [LoginNext]_allVars
    PROVE  AddressInv' /\ FoundInv'
<1> DEFINE Goal == AddressInv' /\ FoundInv'
<1> SUFFICES Goal
  OBVIOUS
<1> USE TenantsDistinct
<1>t. /\ byKey \in [Keys -> StoredRecords] /\ byId \in [TenantIds -> Keys \cup {None}]
      /\ byEmail \in [Emails -> TenantIds \cup {None}] /\ owner \in [Keys -> TenantIds \cup {None}]
      /\ handler \in [Handlers -> HandlerStates]
      /\ emailOf \in [TenantIds -> Emails \cup {None}]
      /\ TenantsShape /\ Minted
  BY DEF TenantsInv, TenantsShape, TenantsTypeOK, LoginShape, IsolationInv
<1>own. \A k \in Keys : byKey[k] # None => byKey[k].id = owner[k] /\ byKey[k].id \in TenantIds
  BY <1>t DEF TenantsInv, IsolationInv, TenantIsolation, StoredRecords, TenantRecords
<1>a. /\ \A t \in TenantIds : ~Created(t) => emailOf[t] = None
      /\ \A e \in Emails : byEmail[e] # None => Created(byEmail[e]) /\ emailOf[byEmail[e]] = e
      /\ \A k \in Keys : byKey[k] # None => byKey[k].email = emailOf[byKey[k].id]
      /\ \A h \in Handlers : handler[h].pc # "idle" => Created(handler[h].id)
      /\ \A h \in Handlers : HoldsAddress(handler[h], emailOf)
  BY DEF AddressInv
<1>f. \A t \in TenantIds \ disturbed : Unshared(t) => FoundByAddress(t)
  BY DEF FoundInv
<1>h. ASSUME NEW h \in Handlers
      PROVE  /\ handler[h] \in HandlerRecords
             /\ handler[h].pc # "idle" => handler[h].id \in TenantIds
             /\ handler[h].pc = "idle" => handler[h].id = None
             /\ handler[h].pc \in HoldsKey => handler[h].key \in Keys /\ owner[handler[h].key] = handler[h].id
             /\ handler[h].pc \in HoldsRecord => handler[h].record \in TenantRecords
                                                 /\ handler[h].record.id = handler[h].id
  <2>1. handler[h] \in HandlerStates /\ MintedFor(handler[h], owner)
    BY <1>t DEF Minted
  <2> QED
    BY <2>1 DEF HandlerStates, HandlerRecords, MintedFor
\* Whoever was created stays created.
<1>made. ASSUME [Next]_vars, NEW t \in TenantIds, Created(t) PROVE Created(t)'
  <2>1. \A k \in Keys : owner[k] # None => owner'[k] = owner[k]
    BY <1>made, <1>t, OwnerIsKept
  <2> QED
    BY <1>made, <2>1 DEF Created
\* One request moves, or none, and the indexes stay.
<1>step. ASSUME [Next]_vars, UNCHANGED <<redisVars, emailOf>>, disturbed \subseteq disturbed',
                NEW h \in Handlers, NEW x, handler' = [handler EXCEPT ![h] = x],
                x.pc # "idle" => x.id \in TenantIds /\ Created(x.id),
                HoldsAddress(x, emailOf),
                x.pc = "drop" /\ x.id \notin disturbed /\ emailOf[x.id] # None => x.record # None
         PROVE  Goal
  <2>1. handler'[h] = x /\ \A g \in Handlers \ {h} : handler'[g] = handler[g]
    BY <1>step, <1>t
  <2>2. UNCHANGED <<byKey, byId, byEmail, emailOf>>
    BY <1>step DEF redisVars
  <2>3. \A t \in TenantIds : ~Created(t)' => emailOf'[t] = None
    BY <1>step, <2>2, <1>made, <1>a
  <2>4. ASSUME NEW e \in Emails, byEmail'[e] # None PROVE Created(byEmail[e])' /\ emailOf'[byEmail'[e]] = e
    <3>1. byEmail[e] \in TenantIds /\ Created(byEmail[e]) /\ emailOf[byEmail[e]] = e /\ byEmail'[e] = byEmail[e]
      BY <2>2, <2>4, <1>a, <1>t
    <3> PICK t \in TenantIds : t = byEmail[e]
      BY <3>1
    <3>2. Created(t)'
      BY <1>step, <1>made, <3>1
    <3> QED
      BY <2>2, <3>1, <3>2 DEF Created
  <2>5. \A k \in Keys : byKey'[k] # None => byKey'[k].email = emailOf'[byKey'[k].id]
    BY <2>2, <1>a
  <2>6. ASSUME NEW g \in Handlers, handler'[g].pc # "idle" PROVE Created(handler[g].id)'
    <3>1. handler'[g].id \in TenantIds /\ Created(handler'[g].id)
      BY <1>step, <2>1, <2>6, <1>h, <1>a
    <3> PICK t \in TenantIds : t = handler'[g].id
      BY <3>1
    <3>2. Created(t)'
      BY <1>step, <1>made, <3>1
    <3> QED
      BY <3>2 DEF Created
  <2>7. \A g \in Handlers : HoldsAddress(handler'[g], emailOf')
    BY <1>step, <2>1, <2>2, <1>a
  <2>8. AddressInv'
    BY <2>3, <2>4, <2>5, <2>6, <2>7 DEF AddressInv
  <2>9. ASSUME NEW t \in TenantIds \ disturbed', Unshared(t)' PROVE FoundByAddress(t)'
    <3>1. t \notin disturbed /\ Unshared(t)
      BY <1>step, <2>2, <2>9 DEF Unshared
    <3>2. FoundByAddress(t) /\ emailOf[t] # None
      BY <3>1, <1>f DEF Unshared
    <3>3. \A g \in Handlers : handler'[g].id = t /\ handler'[g].pc = "drop" => handler'[g].record # None
      BY <1>step, <2>1, <3>1, <3>2 DEF FoundByAddress
    <3> QED
      BY <2>2, <3>2, <3>3 DEF FoundByAddress
  <2>10. FoundInv'
    BY <2>9 DEF FoundInv
  <2> QED
    BY <2>8, <2>10
\* No request moves, and the indexes stay.
<1>same. ASSUME UNCHANGED <<redisVars, handler, owner, disturbed, emailOf>> PROVE Goal
  BY <1>same DEF redisVars, AddressInv, Created, HoldsAddress, FoundInv, Unshared, FoundByAddress
<1>idle. HoldsAddress(IdleHandler, emailOf) /\ IdleHandler.pc = "idle"
  BY DEF HoldsAddress, IdleHandler, HoldsRecord
<1>fin. ASSUME [Next]_vars, UNCHANGED <<redisVars, emailOf>>, disturbed \subseteq disturbed',
               NEW h \in Handlers, Finish(h)
        PROVE  Goal
  BY <1>fin, <1>idle, <1>step DEF Finish
\* A request goes on for its tenant with the record that it found.
<1>goes. ASSUME [Next]_vars, UNCHANGED <<redisVars, emailOf, disturbed>>,
                NEW h \in Handlers, handler[h].pc # "idle", NEW x, handler' = [handler EXCEPT ![h] = x],
                x.id = handler[h].id, HoldsAddress(x, emailOf), x.pc # "drop"
         PROVE  Goal
  BY <1>goes, <1>h, <1>a, <1>step
\* The record that a request finds under the key it read.
<1>found. ASSUME NEW h \in Handlers, handler[h].pc \in {"rotate", "jwt", "delete"}, byKey[handler[h].key] # None
          PROVE  byKey[handler[h].key].email = emailOf[handler[h].id]
  <2>1. handler[h].key \in Keys /\ owner[handler[h].key] = handler[h].id
    BY <1>found, <1>h DEF HoldsKey
  <2> QED
    BY <1>found, <2>1, <1>own, <1>a
\* A pipe, carried out in full or in part.
<1>pipe. ASSUME [Next]_vars, NEW h \in Handlers, handler[h].pc \in WritePcs,
                NEW n \in 0 .. Len(Pipe(h)), Apply(h, n), UNCHANGED <<owner, emailOf>>,
                disturbed \subseteq disturbed',
                n = Len(Pipe(h)) \/ handler[h].id \in disturbed',
                NEW x, handler' = [handler EXCEPT ![h] = x], x.pc \in {"idle", "invalidate"},
                x.pc = "invalidate" => x.id = handler[h].id
         PROVE  Goal
  <2>hd. PICK hd : hd = handler[h]
    OBVIOUS
  <2>0. /\ hd.id \in TenantIds /\ Created(hd.id) /\ HoldsAddress(hd, emailOf)
        /\ hd.pc \in HoldsRecord => hd.record \in TenantRecords /\ hd.record.id = hd.id
        /\ hd.pc \in WritePcs /\ hd.pc \in HoldsRecord \cup {"drop"}
    BY <1>pipe, <2>hd, <1>h, <1>a DEF WritePcs, HoldsRecord
  <2>1. handler'[h] = x /\ \A g \in Handlers \ {h} : handler'[g] = handler[g]
    BY <1>pipe, <1>t
  <2>2. /\ \A k \in Keys : byKey'[k] # byKey[k] =>
              byKey'[k] = None \/ (hd.pc # "drop" /\ byKey'[k] = hd.record)
        /\ \A t \in TenantIds : t # hd.id => byId'[t] = byId[t]
    BY <1>pipe, <1>t, <2>hd, ApplyIsLocal
  <2>3. /\ byEmail' = byEmail \/ (Names(hd) /\ byEmail' = Named(hd))
        /\ n = Len(Pipe(h)) /\ Names(hd) => byEmail' = Named(hd)
    BY <1>pipe, <1>t, <2>hd, EmailEffect
  <2>4. Names(hd) => hd.record.email = emailOf[hd.id] /\ emailOf[hd.id] \in Emails
    BY <2>0, <1>t DEF Names, HoldsAddress, HoldsRecord
  \* The index changes at the tenant's own address only.
  <2>5. /\ \A e \in Emails : e # emailOf[hd.id] => byEmail'[e] = byEmail[e]
        /\ \A e \in Emails : byEmail'[e] # None => byEmail'[e] = byEmail[e] \/ (e = emailOf[hd.id] /\ byEmail'[e] = hd.id)
        /\ Names(hd) /\ n = Len(Pipe(h)) =>
              byEmail'[emailOf[hd.id]] = IF hd.pc = "create" THEN hd.id ELSE None
    BY <2>3, <2>4, <1>t DEF Named, Put
  <2>c. \A t \in TenantIds : Created(t)' <=> Created(t)
    BY <1>pipe DEF Created
  <2>6. \A t \in TenantIds : ~Created(t)' => emailOf'[t] = None
    BY <1>pipe, <2>c, <1>a
  <2>7. ASSUME NEW e \in Emails, byEmail'[e] # None PROVE Created(byEmail[e])' /\ emailOf'[byEmail'[e]] = e
    <3>1. byEmail'[e] \in TenantIds /\ Created(byEmail'[e]) /\ emailOf[byEmail'[e]] = e
      BY <2>0, <2>5, <2>7, <1>a, <1>t
    <3> QED
      BY <1>pipe, <3>1 DEF Created
  <2>8. ASSUME NEW k \in Keys, byKey'[k] # None PROVE byKey'[k].email = emailOf'[byKey'[k].id]
    <3>1. CASE byKey'[k] = byKey[k]
      BY <1>pipe, <2>8, <3>1, <1>a
    <3>2. CASE hd.pc # "drop" /\ byKey'[k] = hd.record
      BY <1>pipe, <2>0, <3>2 DEF HoldsAddress
    <3> QED
      BY <2>2, <2>8, <3>1, <3>2
  <2>9. ASSUME NEW g \in Handlers, handler'[g].pc # "idle" PROVE Created(handler[g].id)'
    <3>1. Created(handler'[g].id)
      BY <1>pipe, <2>hd, <2>0, <2>1, <2>9, <1>a
    <3> QED
      BY <1>pipe, <3>1 DEF Created
  <2>10. \A g \in Handlers : HoldsAddress(handler'[g], emailOf')
    <3>1. HoldsAddress(x, emailOf)
      BY <1>pipe DEF HoldsAddress, HoldsRecord
    <3> QED
      BY <1>pipe, <2>1, <3>1, <1>a
  <2>11. AddressInv'
    BY <2>6, <2>7, <2>8, <2>9, <2>10 DEF AddressInv
  <2>12. ASSUME NEW t \in TenantIds \ disturbed', Unshared(t)' PROVE FoundByAddress(t)'
    <3>1. t \notin disturbed /\ Unshared(t) /\ FoundByAddress(t)
      BY <1>pipe, <2>12, <1>f DEF Unshared
    <3>2. \A g \in Handlers : handler'[g].id = t /\ handler'[g].pc = "drop" => handler'[g].record # None
      BY <1>pipe, <2>1, <3>1 DEF FoundByAddress
    <3>3. emailOf'[t] = emailOf[t] /\ emailOf[t] \in Emails
      BY <1>pipe, <3>1, <1>t DEF Unshared
    <3>4. CASE t # hd.id
      <4>1. emailOf[t] # emailOf[hd.id]
        BY <2>0, <3>1, <3>4 DEF Unshared
      <4>2. byId'[t] = byId[t] /\ byEmail'[emailOf[t]] = byEmail[emailOf[t]]
        BY <2>2, <2>5, <3>3, <3>4, <4>1
      <4> QED
        BY <3>1, <3>2, <3>3, <4>2 DEF FoundByAddress
    <3>5. CASE t = hd.id
      <4>0. n = Len(Pipe(h)) /\ n \in Nat
        BY <1>pipe, <2>hd, <2>12, <3>5, <1>t, PipeShape
      <4>q. /\ hd.pc \in {"replace", "drop"} => byId[t] = hd.key /\ hd.key \in Keys
            /\ hd.pc \in {"create", "replace", "store"} => hd.next \in Keys
            /\ hd.pc = "replace" => hd.key # hd.next
        <5>1. QuietTenant(t)
          BY <3>1 DEF TenantsInv, QuietInv
        <5>2. ReadHolds(hd, t) /\ MintedFor(hd, owner) /\ hd \in HandlerStates
          BY <2>hd, <3>5, <5>1, <1>t DEF QuietTenant, Minted
        <5> QED
          BY <5>2 DEF ReadHolds, MintedFor, HandlerStates, HoldsKey
      <4>1. CASE hd.pc = "create"
        <5>1. byId' = IF n < 2 THEN byId ELSE [byId EXCEPT ![hd.id] = hd.next]
          BY <1>pipe, <2>hd, <4>1, <4>q, <1>t, ApplyEffect
        <5>2. n >= 2
          BY <1>pipe, <2>hd, <4>0, <4>1, <1>t, PipeShape
        <5>3. byId'[t] = hd.next /\ hd.next # None
          BY <3>5, <4>0, <4>1, <4>q, <5>1, <5>2, <1>t
        <5>4. Names(hd)
          BY <2>0, <3>3, <3>5, <4>1 DEF Names, HoldsAddress, HoldsRecord, TenantRecords
        <5>5. byEmail'[emailOf[t]] = t
          BY <2>5, <3>5, <4>0, <4>1, <5>4
        <5> QED
          BY <3>2, <3>3, <5>3, <5>5 DEF FoundByAddress
      <4>2. CASE hd.pc = "drop"
        <5>1. byId' = IF n < 2 THEN byId ELSE [byId EXCEPT ![hd.id] = None]
          BY <1>pipe, <2>hd, <4>2, <1>t, ApplyEffect
        <5>2. n >= 2
          BY <1>pipe, <2>hd, <4>0, <4>2, <1>t, PipeShape
        <5>3. byId'[t] = None
          BY <3>5, <4>0, <5>1, <5>2, <1>t
        <5>4. Names(hd)
          BY <2>hd, <2>0, <3>1, <3>3, <3>5, <4>2 DEF Names, HoldsAddress, FoundByAddress
        <5>5. byEmail'[emailOf[t]] = None
          BY <2>5, <3>5, <4>0, <4>2, <5>4
        <5> QED
          BY <3>2, <3>3, <5>3, <5>5 DEF FoundByAddress
      <4>3. CASE hd.pc \in {"replace", "store"}
        <5>1. byEmail' = byEmail
          BY <2>3, <4>3 DEF Names
        <5>2. byId'[t] # None <=> byId[t] # None
          <6>1. CASE hd.pc = "replace"
            <7>1. byId' = IF n < 2 THEN byId ELSE [byId EXCEPT ![hd.id] = hd.next]
              BY <1>pipe, <2>hd, <4>q, <6>1, <1>t, ApplyEffect
            <7>2. n = 3
              BY <1>pipe, <2>hd, <4>0, <6>1, <1>t, PipeShape
            <7>3. byId'[t] = hd.next /\ hd.next # None /\ byId[t] # None
              BY <3>5, <4>q, <6>1, <7>1, <7>2, <1>t
            <7> QED
              BY <7>3
          <6>2. CASE hd.pc = "store"
            BY <1>pipe, <2>hd, <6>2, <1>t, ApplyEffect
          <6> QED
            BY <4>3, <6>1, <6>2
        <5> QED
          BY <3>1, <3>2, <3>3, <5>1, <5>2 DEF FoundByAddress
      <4> QED
        BY <2>0, <4>1, <4>2, <4>3 DEF WritePcs
    <3> QED
      BY <3>4, <3>5
  <2>13. FoundInv'
    BY <2>12 DEF FoundInv
  <2> QED
    BY <2>11, <2>13
<1> HIDE DEF Goal
<1>1. CASE ErrorStep
  BY <1>1, <1>same DEF ErrorStep, tenantState, historyVars
\* A tenant is created: nothing in Redis or under way is about it.
<1>2. ASSUME NEW h \in Handlers, NEW t \in TenantIds, NEW k \in Keys, NEW e \in Emails \cup {None},
             NEW s \in Secrets \cup {None}, RegisterEmail(h, t, k, e, s)
      PROVE  Goal
  <2>x. PICK x : x = [pc |-> "create", id |-> t, key |-> None, next |-> k, record |-> Tenant(t, e, s)]
    OBVIOUS
  <2>n. [Next]_vars
    BY <1>2, ServedIsTenantStep DEF CreateStep
  <2>0. /\ handler[h].pc = "idle" /\ owner[k] = None /\ ~Created(t)
        /\ owner' = [owner EXCEPT ![k] = t] /\ emailOf' = [emailOf EXCEPT ![t] = e]
        /\ UNCHANGED redisVars
        /\ Begin(h, t, x)
    BY <1>2, <2>x DEF RegisterEmail, CreateTenant, Created
  <2>1. handler'[h] = x /\ \A g \in Handlers \ {h} : handler'[g] = handler[g]
    BY <2>0, <1>t DEF Begin
  <2>2. disturbed \subseteq disturbed'
    BY <2>0 DEF Begin, Disturb
  <2>3. /\ Created(t)' /\ emailOf'[t] = e
        /\ \A u \in TenantIds \ {t} : emailOf'[u] = emailOf[u] /\ (Created(u)' <=> Created(u))
    BY <2>0, <1>t DEF Created
  <2>4. UNCHANGED <<byKey, byId, byEmail>>
    BY <2>0 DEF redisVars
  <2>5. \A u \in TenantIds : ~Created(u)' => emailOf'[u] = None
    BY <2>3, <1>a
  <2>6. ASSUME NEW f \in Emails, byEmail'[f] # None PROVE Created(byEmail[f])' /\ emailOf'[byEmail'[f]] = f
    <3>1. PICK u \in TenantIds : u = byEmail[f]
      BY <2>4, <2>6, <1>t
    <3>2. Created(u) /\ emailOf[u] = f
      BY <2>4, <2>6, <3>1, <1>a
    <3>3. u # t
      BY <2>0, <3>2
    <3>4. Created(u)' /\ emailOf'[u] = f
      BY <2>3, <3>2, <3>3
    <3> QED
      BY <2>4, <3>1, <3>4 DEF Created
  <2>7. ASSUME NEW j \in Keys, byKey'[j] # None PROVE byKey'[j].email = emailOf'[byKey'[j].id]
    <3>1. byKey[j].id \in TenantIds /\ byKey[j].email = emailOf[byKey[j].id] /\ byKey[j].id = owner[j]
      BY <2>4, <2>7, <1>a, <1>own
    <3>2. byKey[j].id # t
      BY <2>0, <3>1 DEF Created
    <3> QED
      BY <2>3, <2>4, <3>1, <3>2
  <2>8. x.pc = "create" /\ x.id = t /\ x.record.email = e
    BY <2>x DEF Tenant
  <2>9. ASSUME NEW g \in Handlers \ {h}, handler[g].pc # "idle"
        PROVE  handler[g].id \in TenantIds \ {t} /\ Created(handler[g].id)
    BY <2>0, <2>9, <1>h, <1>a
  <2>10. ASSUME NEW g \in Handlers, handler'[g].pc # "idle" PROVE Created(handler[g].id)'
    <3>1. handler'[g].id \in TenantIds /\ (handler'[g].id # t => Created(handler'[g].id))
      BY <2>1, <2>8, <2>9, <2>10
    <3>2. PICK u \in TenantIds : u = handler'[g].id
      BY <3>1
    <3>3. Created(u)'
      BY <2>3, <3>1, <3>2
    <3> QED
      BY <3>2, <3>3 DEF Created
  <2>11. ASSUME NEW g \in Handlers PROVE HoldsAddress(handler'[g], emailOf')
    <3>1. CASE g = h
      BY <2>1, <2>3, <2>8, <3>1 DEF HoldsAddress
    <3>2. CASE g # h /\ handler[g].pc # "idle"
      BY <2>1, <2>3, <2>9, <3>2, <1>a DEF HoldsAddress
    <3>3. CASE g # h /\ handler[g].pc = "idle"
      BY <2>1, <3>3 DEF HoldsAddress, HoldsRecord
    <3> QED
      BY <3>1, <3>2, <3>3
  <2>12. AddressInv'
    BY <2>5, <2>6, <2>7, <2>10, <2>11 DEF AddressInv
  <2>13. ASSUME NEW u \in TenantIds \ disturbed', Unshared(u)' PROVE FoundByAddress(u)'
    <3>1. CASE u = t
      <4>1. byId[t] = None
        BY <2>0, <1>t DEF Minted, Created
      <4>2. emailOf'[t] \in Emails
        BY <2>3, <2>13, <3>1 DEF Unshared
      <4>3. byEmail[emailOf'[t]] # t
        BY <2>0, <4>2, <1>a
      <4>4. \A g \in Handlers : handler'[g].id = t /\ handler'[g].pc = "drop" => handler'[g].record # None
        BY <2>1, <2>8, <2>9
      <4> QED
        BY <2>4, <3>1, <4>1, <4>2, <4>3, <4>4 DEF FoundByAddress
    <3>2. CASE u # t
      <4>1. u \in TenantIds \ disturbed /\ emailOf'[u] = emailOf[u]
        BY <2>2, <2>3, <3>2
      <4>2. emailOf[t] = None
        BY <2>0, <1>a
      <4>3. Unshared(u)
        BY <2>3, <2>13, <3>2, <4>1, <4>2 DEF Unshared
      <4>4. FoundByAddress(u)
        BY <4>1, <4>3, <1>f
      <4>5. \A g \in Handlers : handler'[g].id = u /\ handler'[g].pc = "drop" => handler'[g].record # None
        BY <2>1, <2>8, <4>4 DEF FoundByAddress
      <4> QED
        BY <2>4, <4>1, <4>4, <4>5 DEF FoundByAddress
    <3> QED
      BY <3>1, <3>2
  <2>14. FoundInv'
    BY <2>13 DEF FoundInv
  <2> QED
    BY <2>12, <2>14 DEF Goal
<1>3. CASE ServedStep /\ UNCHANGED emailOf
  <2>n. [Next]_vars /\ UNCHANGED emailOf
    BY <1>3, ServedIsTenantStep
  <2>1. CASE UNCHANGED vars
    BY <2>n, <2>1, <1>same DEF vars, historyVars
  \* The connects and the cache.
  <2>2. ASSUME NEW r \in Resolvers, NEW k \in Keys, Resolve(r, k) PROVE Goal
    BY <2>n, <2>2, <1>same DEF Resolve, historyVars
  <2>3. ASSUME NEW r \in Resolvers, ResolverSteps(r) PROVE Goal
    BY <2>n, <2>3, <1>same DEF ResolverSteps, FetchByHash, CachePut, historyVars
  <2>4. ASSUME NEW k \in Keys, CacheExpires(k) PROVE Goal
    BY <2>n, <2>4, <1>same DEF CacheExpires, historyVars
  <2>5. ASSUME NEW h \in Handlers, NEW t \in TenantIds, NEW op \in {"rotate", "jwt", "delete"}, ReadIndex(h, t, op)
        PROVE  Goal
    <3>1. CASE byId[t] # None
      <4>x. PICK x : x = [pc |-> op, id |-> t, key |-> byId[t], next |-> None, record |-> None]
        OBVIOUS
      <4>1. Begin(h, t, x) /\ UNCHANGED redisVars
        BY <2>5, <3>1, <4>x DEF ReadIndex
      <4>2. x.pc \in {"rotate", "jwt", "delete"} /\ x.id = t
        BY <4>x
      <4>3. Created(t)
        BY <3>1, <1>t DEF Minted, Created
      <4>4. HoldsAddress(x, emailOf)
        BY <4>2 DEF HoldsAddress, HoldsRecord
      <4>5. handler' = [handler EXCEPT ![h] = x] /\ disturbed \subseteq disturbed'
        BY <4>1 DEF Begin, Disturb
      <4> QED
        BY <2>n, <4>1, <4>2, <4>3, <4>4, <4>5, <1>step
    <3>2. CASE byId[t] = None
      BY <2>n, <2>1, <2>5, <3>2 DEF ReadIndex
    <3> QED
      BY <3>1, <3>2
  \* The requests.
  <2>6. ASSUME NEW h \in Handlers, RotateFetch(h) PROVE Goal
    <3>0. handler[h].pc = "rotate" /\ UNCHANGED <<redisVars, disturbed>>
      BY <2>6, Zenon DEF RotateFetch
    <3>1. CASE Finish(h)
      BY <2>n, <3>0, <3>1, <1>fin
    <3>2. ASSUME NEW k \in Fresh, byKey[handler[h].key] # None,
                 handler' = [handler EXCEPT ![h].pc = "replace", ![h].next = k, ![h].record = byKey[handler[h].key]]
          PROVE  Goal
      <4>1. PICK y \in HandlerRecords : y = handler[h]
        BY <1>h
      <4>2. PICK found : found = byKey[handler[h].key]
        OBVIOUS
      <4> DEFINE z == [y EXCEPT !.pc = "replace", !.next = k]
                 x == [z EXCEPT !.record = found]
      <4>3. x.pc = "replace" /\ x.id = handler[h].id /\ x.record = found
        BY <4>1 DEF HandlerRecords
      <4>4. handler' = [handler EXCEPT ![h] = x]
        BY <3>2, <4>1, <4>2, <1>t
      <4> HIDE DEF x
      <4>5. found.email = emailOf[handler[h].id]
        BY <3>0, <3>2, <4>2, <1>found
      <4>6. HoldsAddress(x, emailOf)
        BY <4>3, <4>5 DEF HoldsAddress
      <4> QED
        BY <2>n, <3>0, <4>3, <4>4, <4>6, <1>goes
    <3> QED
      BY <2>6, <3>1, <3>2, Zenon DEF RotateFetch
  <2>7. ASSUME NEW h \in Handlers, NEW s \in Secrets, JwtFetch(h, s) PROVE Goal
    <3>0. handler[h].pc = "jwt" /\ UNCHANGED <<redisVars, disturbed>>
      BY <2>7 DEF JwtFetch, historyVars
    <3>1. CASE Finish(h)
      BY <2>n, <3>0, <3>1, <1>fin
    <3>2. CASE /\ byKey[handler[h].key] # None
               /\ handler' = [handler EXCEPT ![h].pc = "update", ![h].key = None,
                                ![h].record = Tenant(byKey[handler[h].key].id, byKey[handler[h].key].email, s)]
      <4>1. PICK y \in HandlerRecords : y = handler[h]
        BY <1>h
      <4>2. PICK found : found = Tenant(byKey[handler[h].key].id, byKey[handler[h].key].email, s)
        OBVIOUS
      <4> DEFINE z == [y EXCEPT !.pc = "update", !.key = None]
                 x == [z EXCEPT !.record = found]
      <4>3. x.pc = "update" /\ x.id = handler[h].id /\ x.record = found
        BY <4>1 DEF HandlerRecords
      <4>4. handler' = [handler EXCEPT ![h] = x]
        BY <3>2, <4>1, <4>2, <1>t
      <4> HIDE DEF x
      <4>5. found.email = emailOf[handler[h].id]
        BY <3>0, <3>2, <4>2, <1>found DEF Tenant
      <4>6. HoldsAddress(x, emailOf)
        BY <4>3, <4>5 DEF HoldsAddress
      <4> QED
        BY <2>n, <3>0, <4>3, <4>4, <4>6, <1>goes
    <3> QED
      BY <2>7, <3>1, <3>2 DEF JwtFetch
  <2>8. ASSUME NEW h \in Handlers, UpdateIndex(h) PROVE Goal
    <3>0. handler[h].pc = "update" /\ UNCHANGED <<redisVars, disturbed>>
      BY <2>8 DEF UpdateIndex, historyVars
    <3>1. CASE Finish(h)
      BY <2>n, <3>0, <3>1, <1>fin
    <3>2. CASE handler' = [handler EXCEPT ![h].pc = "store", ![h].next = byId[handler[h].id]]
      <4>1. PICK y \in HandlerRecords : y = handler[h]
        BY <1>h
      <4>2. PICK k : k = byId[handler[h].id]
        OBVIOUS
      <4> DEFINE x == [y EXCEPT !.pc = "store", !.next = k]
      <4>3. x.pc = "store" /\ x.id = handler[h].id /\ x.record = handler[h].record
        BY <4>1 DEF HandlerRecords
      <4>4. handler' = [handler EXCEPT ![h] = x]
        BY <3>2, <4>1, <4>2, <1>t
      <4> HIDE DEF x
      <4>5. HoldsAddress(x, emailOf)
        BY <3>0, <4>3, <1>a DEF HoldsAddress, HoldsRecord
      <4> QED
        BY <2>n, <3>0, <4>3, <4>4, <4>5, <1>goes
    <3> QED
      BY <2>8, <3>1, <3>2 DEF UpdateIndex
  <2>9. ASSUME NEW h \in Handlers, DeleteFetch(h) PROVE Goal
    <3>1. PICK y \in HandlerRecords : y = handler[h]
      BY <1>h
    <3>2. PICK found : found = byKey[handler[h].key]
      OBVIOUS
    <3>3. PICK r : r = IF found # None /\ found.email # None THEN found ELSE None
      OBVIOUS
    <3>0. y.pc = "delete" /\ UNCHANGED <<redisVars, disturbed>>
          /\ handler' = [handler EXCEPT ![h].pc = "drop", ![h].record = r]
      BY <2>9, <3>1, <3>2, <3>3 DEF DeleteFetch, historyVars
    <3> DEFINE x == [y EXCEPT !.pc = "drop", !.record = r]
    <3>4. x.pc = "drop" /\ x.id = y.id /\ x.record = r
      BY DEF HandlerRecords
    <3>5. handler' = [handler EXCEPT ![h] = x]
      BY <3>0, <3>1, <1>t
    <3> HIDE DEF x
    <3>6. y.id \in TenantIds /\ Created(y.id) /\ y.key \in Keys
      BY <3>0, <3>1, <1>h, <1>a DEF HoldsKey
    <3>7. found # None => found.email = emailOf[y.id]
      BY <3>0, <3>1, <3>2, <1>found
    <3>8. HoldsAddress(x, emailOf)
      BY <3>3, <3>4, <3>7 DEF HoldsAddress, HoldsRecord
    <3>9. ASSUME y.id \notin disturbed, emailOf[y.id] # None PROVE r # None
      <4>1. QuietTenant(y.id)
        BY <3>6, <3>9 DEF TenantsInv, QuietInv
      <4>2. byId[y.id] = y.key
        BY <3>0, <3>1, <4>1 DEF QuietTenant, ReadHolds, HoldsKey
      <4>3. found # None
        BY <3>1, <3>2, <3>6, <4>1, <4>2 DEF QuietTenant
      <4> QED
        BY <3>3, <3>7, <3>9, <4>3
    <3> QED
      BY <2>n, <3>0, <3>4, <3>5, <3>6, <3>8, <3>9, <1>step
  <2>10. ASSUME NEW h \in Handlers, Write(h) PROVE Goal
    <3>1. PICK k : k = IF handler[h].pc \in {"create", "replace"} THEN handler[h].next ELSE None
      OBVIOUS
    <3>2. PICK t : t = handler[h].id
      OBVIOUS
    <3> DEFINE x == [IdleHandler EXCEPT !.pc = "invalidate", !.id = t, !.next = k]
    <3>3. x.pc = "invalidate" /\ x.id = handler[h].id
      BY <3>2 DEF IdleHandler
    <3>4. /\ handler[h].pc \in WritePcs /\ Apply(h, Len(Pipe(h))) /\ UNCHANGED <<owner, disturbed>>
          /\ handler' = [handler EXCEPT ![h] = x]
      BY <2>10, <3>1, <3>2 DEF Write
    <3> HIDE DEF x
    <3>5. PICK n \in 0 .. Len(Pipe(h)) : n = Len(Pipe(h))
      BY <3>4, <1>t, PipeShape
    <3> QED
      BY <2>n, <3>3, <3>4, <3>5, <1>pipe
  <2>11. ASSUME NEW h \in Handlers, WriteFails(h) PROVE Goal
    <3>1. PICK n \in 0 .. Len(Pipe(h)) : Apply(h, n)
      BY <2>11 DEF WriteFails
    <3>2. handler[h].pc \in WritePcs /\ UNCHANGED owner /\ handler' = [handler EXCEPT ![h] = IdleHandler]
          /\ disturbed' = disturbed \cup {handler[h].id}
      BY <2>11 DEF WriteFails, Finish, Disturb
    <3> QED
      BY <2>n, <3>1, <3>2, <1>idle, <1>pipe
  <2>12. ASSUME NEW h \in Handlers, ReadFails(h) \/ Invalidate(h) PROVE Goal
    BY <2>n, <2>12, <1>fin DEF ReadFails, Invalidate, historyVars
  <2>13. ASSUME NEW h \in Handlers, HandlerSteps(h) PROVE Goal
    BY <2>13, <2>6, <2>7, <2>8, <2>9, <2>10, <2>11, <2>12, Zenon DEF HandlerSteps
  <2>14. CASE TenantSteps
    <3>1. ASSUME NEW h \in Handlers, NEW t \in TenantIds, NEW op \in AdminOps, ReadIndex(h, t, op) PROVE Goal
      BY <3>1, <2>5, AdminOpsAssumption
    <3> QED
      BY <2>14, <2>2, <2>3, <2>4, <2>13, <3>1, Zenon DEF TenantSteps
  <2>15. ASSUME NEW h \in Handlers, NEW t \in TenantIds, ReadIndex(h, t, "rotate") PROVE Goal
    BY <2>15, <2>5
  <2> QED
    BY <1>3, <2>1, <2>14, <2>15 DEF ServedStep
<1>4. CASE CreateStep
  BY <1>4, <1>2 DEF CreateStep
<1> QED
  BY <1>1, <1>3, <1>4, LoginSteps

-----------------------------------------------------------------------------
(* The theorems.                                                           *)

\* With the dashboard on top, resolve_api_key still never answers with another
\* tenant, and a tenant whose requests did not overlap or fail keeps one key, the
\* one its id index names, and the JWT secret it was given last.
THEOREM LoginKeepsTenants ==
    LoginSpec => [](TenantsTypeOK /\ TenantIsolation /\ IndexAgrees /\ IssuedSecretIsStored)
<1>1. LoginInit => TenantsInv
  BY InitLogin
<1>2. TenantsInv /\ [LoginNext]_allVars => TenantsInv'
  BY NextTenantsInv
<1>3. TenantsInv => TenantsTypeOK /\ TenantIsolation /\ IndexAgrees /\ IssuedSecretIsStored
  BY DEF TenantsInv, TenantsShape, IsolationInv, QuietInv, QuietTenant, IndexAgrees, IssuedSecretIsStored
<1> QED
  BY <1>1, <1>2, <1>3, PTL DEF LoginSpec

\* acquire_no_account_slot sends one "no account" mail per address and window,
\* however many requests race for it and whatever Redis answers.
THEOREM OneMailPerWindow == LoginSpec => []NoAccountOncePerWindow
<1> DEFINE IInv == TenantsInv /\ LoginShape /\ WindowInv
<1>1. LoginInit => IInv
  BY InitLogin
<1>2. IInv /\ [LoginNext]_allVars => IInv'
  BY NextTenantsInv, NextLogin
<1>3. IInv => NoAccountOncePerWindow
  BY DEF WindowInv, NoAccountOncePerWindow
<1> HIDE DEF IInv
<1> QED
  BY <1>1, <1>2, <1>3, PTL DEF LoginSpec

\* tenant:email:<address> names a tenant that has the address for itself, and
\* whose requests did not overlap or fail, exactly as long as the tenant exists:
\* over rotations, which store the record again, and up to its deletion, which
\* must have read the address before the record is gone.
THEOREM AddressesAreExact == LoginSpec => []EmailIndexAgrees
<1> DEFINE IInv == TenantsInv /\ LoginShape /\ WindowInv /\ AddressInv /\ FoundInv
<1>1. LoginInit => IInv
  BY InitLogin, InitAddresses
<1>2. IInv /\ [LoginNext]_allVars => IInv'
  BY NextTenantsInv, NextLogin, NextAddresses
<1>3. IInv => EmailIndexAgrees
  BY DEF FoundInv, FoundByAddress, EmailIndexAgrees
<1> HIDE DEF IInv
<1> QED
  BY <1>1, <1>2, <1>3, PTL DEF LoginSpec
==============================================================================
