--------------------------- MODULE CustomerLogin ---------------------------
(***************************************************************************)
(* The customer dashboard of handlers/customer.rs on top of the tenants:   *)
(* login by API key or by a link that is mailed, the "no account" mail     *)
(* with its cooldown in Redis, and the key rotation of a signed-in         *)
(* customer.  Session and link tokens are signed and kept by the customer, *)
(* not by the server: a token is a fact that holds until it expires.       *)
(* `me` changes nothing and is left out, as are signing and mail texts.    *)
(***************************************************************************)
EXTENDS Tenants

CONSTANTS
    Requests,  \* concurrent requests to /auth/request and /auth/magic
    AdminOps   \* bound: the admin requests on tenants that exist, out of "jwt" and "delete"

ASSUME AdminOpsAssumption == AdminOps \subseteq {"jwt", "delete"}

VARIABLES
    sessions,  \* tenants with a session token that has not expired
    links,     \* link tokens mailed and not expired: the address and the tenant
    request,   \* what each request, or the task it spawned, is doing
    cooldown,  \* auth:no-account:<email> is set
    sent,      \* history: "no account" mails sent in the current window
    emailOf    \* history: the address a tenant was created with

loginVars == <<sessions, links, request, cooldown, sent, emailOf>>
allVars == <<vars, loginVars>>

IdleRequest == [pc |-> "idle", email |-> None, tenant |-> None, key |-> None]

LoginInit ==
    /\ Init
    /\ sessions = {}
    /\ links = {}
    /\ request = [q \in Requests |-> IdleRequest]
    /\ cooldown = [e \in Emails |-> FALSE]
    /\ sent = [e \in Emails |-> 0]
    /\ emailOf = [t \in TenantIds |-> None]

Done(q) == request' = [request EXCEPT ![q] = IdleRequest]

RedisError == errors > 0 /\ errors' = errors - 1
tenantState == <<redisVars, cache, handler, resolver, historyVars>>

-----------------------------------------------------------------------------
(* login: the key is resolved as on a connect.                             *)

LoginFromCache(k) ==
    /\ k \in known
    /\ cache[k].value # None
    /\ sessions' = sessions \cup {cache[k].value.id}
    /\ UNCHANGED <<vars, links, request, cooldown, sent, emailOf>>

LoginFetched(r) ==
    /\ CachePut(r)
    /\ resolver[r].fetched # None
    /\ sessions' = sessions \cup {resolver[r].fetched.id}
    /\ UNCHANGED <<links, request, cooldown, sent, emailOf>>

-----------------------------------------------------------------------------
(* request_magic_link                                                      *)

\* The address is looked up; a Redis error sends nothing and changes nothing.
RequestMagicLink(q, e) ==
    /\ request[q].pc = "idle"
    /\ request' = [request EXCEPT ![q] =
                      [pc |-> IF byEmail[e] # None THEN "link" ELSE "slot",
                       email |-> e, tenant |-> byEmail[e], key |-> None]]
    /\ UNCHANGED <<vars, sessions, links, cooldown, sent, emailOf>>

\* Mutant: when in doubt, send.
AcquireSlotFailsOpen(q) ==
    /\ request[q].pc = "slot"
    /\ \/ /\ ~cooldown[request[q].email]
          /\ cooldown' = [cooldown EXCEPT ![request[q].email] = TRUE]
          /\ request' = [request EXCEPT ![q].pc = "mail"]
          /\ UNCHANGED errors
       \/ /\ cooldown[request[q].email]
          /\ Done(q)
          /\ UNCHANGED <<cooldown, errors>>
       \/ /\ RedisError
          /\ request' = [request EXCEPT ![q].pc = "mail"]
          /\ UNCHANGED cooldown
    /\ UNCHANGED <<tenantState, sessions, links, sent, emailOf>>

\* acquire_no_account_slot: SET NX.  A failed command may have been carried out.
AcquireSlot(q) ==
    /\ request[q].pc = "slot"
    /\ \/ /\ ~cooldown[request[q].email]
          /\ cooldown' = [cooldown EXCEPT ![request[q].email] = TRUE]
          /\ request' = [request EXCEPT ![q].pc = "mail"]
          /\ UNCHANGED errors
       \/ /\ cooldown[request[q].email]
          /\ Done(q)
          /\ UNCHANGED <<cooldown, errors>>
       \/ /\ RedisError
          /\ Done(q)
          /\ cooldown' \in {cooldown, [cooldown EXCEPT ![request[q].email] = TRUE]}
    /\ UNCHANGED <<tenantState, sessions, links, sent, emailOf>>

\* The spawned task mails the link; nobody learns of a failure.
SendLink(q) ==
    /\ request[q].pc = "link"
    /\ links' \in {links, links \cup {[email |-> request[q].email, tenant |-> request[q].tenant]}}
    /\ Done(q)
    /\ UNCHANGED <<vars, sessions, cooldown, sent, emailOf>>

SendNoAccount(q) ==
    /\ request[q].pc = "mail"
    /\ sent' \in {sent, [sent EXCEPT ![request[q].email] = @ + 1]}
    /\ Done(q)
    /\ UNCHANGED <<vars, sessions, links, cooldown, emailOf>>

-----------------------------------------------------------------------------
(* exchange_magic                                                          *)

\* get_tenant_by_id reads the id index, then the record; a link may be
\* exchanged as often as its customer likes.
ExchangeMagic(q, link) ==
    /\ request[q].pc = "idle"
    /\ link \in links
    /\ byId[link.tenant] # None
    /\ request' = [request EXCEPT ![q] = [pc |-> "exchange", email |-> link.email,
                                          tenant |-> link.tenant, key |-> byId[link.tenant]]]
    /\ UNCHANGED <<vars, sessions, links, cooldown, sent, emailOf>>

\* A record that is gone, or an error, is "account not found".
ExchangeFetch(q) ==
    /\ request[q].pc = "exchange"
    /\ LET found == byKey[request[q].key]
       IN  \/ /\ sessions' = IF found = None THEN sessions ELSE sessions \cup {found.id}
              /\ UNCHANGED errors
           \/ /\ RedisError
              /\ UNCHANGED sessions
    /\ Done(q)
    /\ UNCHANGED <<tenantState, links, cooldown, sent, emailOf>>

-----------------------------------------------------------------------------
(* Time.                                                                   *)

SessionExpires(t) ==
    /\ t \in sessions
    /\ sessions' = sessions \ {t}
    /\ UNCHANGED <<vars, links, request, cooldown, sent, emailOf>>

LinkExpires(link) ==
    /\ links' = links \ {link}
    /\ UNCHANGED <<vars, sessions, request, cooldown, sent, emailOf>>

\* Ten minutes pass, more than the 10 s that a mail request may take.
CooldownExpires(e) ==
    /\ cooldown[e]
    /\ \A q \in Requests : ~(request[q].pc = "mail" /\ request[q].email = e)
    /\ cooldown' = [cooldown EXCEPT ![e] = FALSE]
    /\ sent' = [sent EXCEPT ![e] = 0]
    /\ UNCHANGED <<vars, sessions, links, request, emailOf>>

-----------------------------------------------------------------------------
(* The steps of Tenants; only a signed-in customer rotates a key.          *)

RotateKey(h, t) == t \in sessions /\ ReadIndex(h, t, "rotate") /\ UNCHANGED loginVars

RegisterEmail(h, t, k, e, s) ==
    /\ CreateTenant(h, t, k, e, s)
    /\ emailOf' = [emailOf EXCEPT ![t] = e]
    /\ UNCHANGED <<sessions, links, request, cooldown, sent>>

TenantSteps ==
    \/ \E r \in Resolvers : (\E k \in Keys : Resolve(r, k)) \/ ResolverSteps(r)
    \/ \E k \in Keys : CacheExpires(k)
    \/ \E h \in Handlers, t \in TenantIds, op \in AdminOps : ReadIndex(h, t, op)
    \/ \E h \in Handlers : HandlerSteps(h)

RequestSteps(q) ==
    \/ \E e \in Emails : RequestMagicLink(q, e)
    \/ AcquireSlot(q)
    \/ SendLink(q)
    \/ SendNoAccount(q)
    \/ \E link \in links : ExchangeMagic(q, link)
    \/ ExchangeFetch(q)

LoginNext ==
    \/ TenantSteps /\ UNCHANGED loginVars
    \/ \E h \in Handlers, t \in TenantIds :
          \/ RotateKey(h, t)
          \/ \E k \in Keys, e \in Emails \cup {None}, s \in Secrets \cup {None} :
                RegisterEmail(h, t, k, e, s)
    \/ \E k \in Keys : LoginFromCache(k)
    \/ \E r \in Resolvers : LoginFetched(r)
    \/ \E q \in Requests : RequestSteps(q)
    \/ \E t \in TenantIds : SessionExpires(t)
    \/ \E link \in links : LinkExpires(link)
    \/ \E e \in Emails : CooldownExpires(e)

\* A lookup that began is finished, and the TTL of the cache passes.
LoginFairness ==
    /\ \A r \in Resolvers : WF_allVars((FetchByHash(r) /\ UNCHANGED loginVars)
                                        \/ (CachePut(r) /\ UNCHANGED loginVars) \/ LoginFetched(r))
    /\ \A k \in Keys : WF_allVars(CacheExpires(k) /\ UNCHANGED loginVars)

LoginSpec == LoginInit /\ [][LoginNext]_allVars /\ LoginFairness

-----------------------------------------------------------------------------
(* Properties.                                                             *)

\* NO_ACCOUNT_COOLDOWN_SECS, "one per address per window": however requests for
\* an address that is registered, deleted or unknown race, and whatever Redis
\* answers, a window sees one "no account" mail at most.
NoAccountOncePerWindow == \A e \in Emails : sent[e] <= 1

\* A tenant whose requests did not overlap or fail, and whose address no other
\* tenant was given, can be found by its address exactly as long as it exists.
\* (delete_tenant drops the index of an address two tenants share.)
Unshared(t) == emailOf[t] # None /\ \A u \in TenantIds \ {t} : emailOf[u] # emailOf[t]
EmailIndexAgrees ==
    \A t \in TenantIds \ disturbed :
        (Unshared(t) /\ ~Busy(t)) => (byId[t] # None <=> byEmail[emailOf[t]] = t)
=============================================================================
