------------------------------ MODULE Tenants ------------------------------
(***************************************************************************)
(* Tenants and their API keys: the three Redis indexes and the in-process  *)
(* lookup cache of tenant.rs, the admin handlers of handlers/admin.rs and  *)
(* the customer's key rotation of handlers/customer.rs.                    *)
(*                                                                         *)
(* Every handler is a chain of Redis round trips with an await between     *)
(* them, so each round trip is an action.  A redis::pipe() is sent over    *)
(* one multiplexed connection and is not interleaved with other commands   *)
(* of this server, but a connection that breaks may cut it short: the      *)
(* caller then sees an error and a prefix of it has been applied.          *)
(*                                                                         *)
(* An API key stands for its hash.  Names, origins and limits of a tenant  *)
(* are left out, and so is `active`, which no operation ever clears.       *)
(***************************************************************************)
EXTENDS Integers, FiniteSets, Sequences

CONSTANTS
    TenantIds, Keys, Emails, Secrets,
    Handlers,     \* concurrent requests to the admin and customer APIs
    Resolvers,    \* concurrent connects that present an API key
    None,
    MaxErrors     \* bound on Redis failures

ASSUME TenantsFinite ==
    /\ IsFiniteSet(TenantIds) /\ IsFiniteSet(Keys)
    /\ IsFiniteSet(Handlers) /\ IsFiniteSet(Resolvers)
ASSUME TenantsDistinct ==
    /\ None \notin TenantIds \cup Keys \cup Emails \cup Secrets
    /\ Handlers \cap Resolvers = {}
    /\ None \notin [id : TenantIds, email : Emails \cup {None}, secret : Secrets \cup {None}]
ASSUME ErrorsAssumption == MaxErrors \in Nat

VARIABLES
    byKey,      \* tenant:key:<hash> -> the tenant's record, or None
    byId,       \* tenant:id:<id> -> key, or None
    byEmail,    \* tenant:email:<email> -> tenant id, or None
    cache,      \* TenantCache: key -> a hit (a record or None, within its TTL) or a miss
    handler,    \* what each admin or customer request is doing
    resolver,   \* what each connect is doing
    owner,      \* history: the tenant a key was minted for, or None
    issued,     \* history: the JWT secret an undisturbed tenant was last given
    known,      \* history: keys that were shown to their tenant
    disturbed,  \* history: tenants with two requests at once or a failed write
    overtaken,  \* history: connects that fetched their answer before a request for the
                \* tenant dropped the cache, or before its write failed
    outdated,   \* history: cache entries of such connects, or from before such a write
    errors      \* Redis failures left

redisVars == <<byKey, byId, byEmail>>
historyVars == <<owner, issued, known, disturbed, overtaken, outdated>>
vars == <<redisVars, cache, handler, resolver, historyVars, errors>>

Tenant(id, email, secret) == [id |-> id, email |-> email, secret |-> secret]
TenantRecords == [id : TenantIds, email : Emails \cup {None}, secret : Secrets \cup {None}]
StoredRecords == TenantRecords \cup {None}

\* A request works on tenant `id`; `key` is the key it read from the index,
\* `next` the key it stores the record under and `record` what it stores.
IdleHandler == [pc |-> "idle", id |-> None, key |-> None, next |-> None, record |-> None]
IdleResolver == [pc |-> "idle", key |-> None, fetched |-> None]

\* What TenantCache::get answers; a cached unknown key is a hit as well.
Miss == [hit |-> FALSE, value |-> None]
Hit(value) == [hit |-> TRUE, value |-> value]

Init ==
    /\ byKey = [k \in Keys |-> None]
    /\ byId = [t \in TenantIds |-> None]
    /\ byEmail = [e \in Emails |-> None]
    /\ cache = [k \in Keys |-> Miss]
    /\ handler = [h \in Handlers |-> IdleHandler]
    /\ resolver = [r \in Resolvers |-> IdleResolver]
    /\ owner = [k \in Keys |-> None]
    /\ issued = [t \in TenantIds |-> None]
    /\ known = {}
    /\ disturbed = {}
    /\ overtaken = {}
    /\ outdated = {}
    /\ errors = MaxErrors

-----------------------------------------------------------------------------
(* resolve_api_key                                                         *)

\* A hit is the answer: it changes nothing.  An entry older than CACHE_TTL is
\* a miss.  (A key that was never minted is only ever unknown.)
Resolve(r, k) ==
    /\ resolver[r].pc = "idle"
    /\ k \in known
    /\ ~cache[k].hit
    /\ resolver' = [resolver EXCEPT ![r] = [pc |-> "fetch", key |-> k, fetched |-> None]]
    /\ UNCHANGED <<redisVars, cache, handler, historyVars, errors>>

\* fetch_by_hash; an error reads as an unknown key.
FetchByHash(r) ==
    /\ resolver[r].pc = "fetch"
    /\ \/ /\ resolver' = [resolver EXCEPT ![r].pc = "put", ![r].fetched = byKey[resolver[r].key]]
          /\ UNCHANGED errors
       \/ /\ errors > 0
          /\ errors' = errors - 1
          /\ resolver' = [resolver EXCEPT ![r].pc = "put"]
    /\ UNCHANGED <<redisVars, cache, handler, historyVars>>

\* The answer is cached, negative or not, whatever happened since the fetch.
CachePut(r) ==
    /\ resolver[r].pc = "put"
    /\ cache' = [cache EXCEPT ![resolver[r].key] = Hit(resolver[r].fetched)]
    /\ resolver' = [resolver EXCEPT ![r] = IdleResolver]
    /\ outdated' = IF r \in overtaken THEN outdated \cup {resolver[r].key}
                                     ELSE outdated \ {resolver[r].key}
    /\ overtaken' = overtaken \ {r}
    /\ UNCHANGED <<redisVars, handler, owner, issued, known, disturbed, errors>>

\* Mutant: the TTL applies to unknown keys only.
CacheKeepsTenants(k) ==
    /\ cache[k] = Hit(None)
    /\ cache' = [cache EXCEPT ![k] = Miss]
    /\ outdated' = outdated \ {k}
    /\ UNCHANGED <<redisVars, handler, resolver, owner, issued, known, disturbed, overtaken, errors>>

\* Mutant: the TTL applies to known keys only.
CacheKeepsUnknown(k) ==
    /\ cache[k].value # None
    /\ cache' = [cache EXCEPT ![k] = Miss]
    /\ outdated' = outdated \ {k}
    /\ UNCHANGED <<redisVars, handler, resolver, owner, issued, known, disturbed, overtaken, errors>>

\* CACHE_TTL passes.
CacheExpires(k) ==
    /\ cache[k].hit
    /\ cache' = [cache EXCEPT ![k] = Miss]
    /\ outdated' = outdated \ {k}
    /\ UNCHANGED <<redisVars, handler, resolver, owner, issued, known, disturbed, overtaken, errors>>

-----------------------------------------------------------------------------
(* The requests.                                                           *)

Busy(t) == \E h \in Handlers : handler[h].id = t

Fresh == {k \in Keys : owner[k] = None}

\* From an overlap or a failed write on, nothing is claimed of a tenant's secret.
Disturb(tenants) ==
    /\ disturbed' = disturbed \cup tenants
    /\ issued' = [t \in TenantIds |-> IF t \in tenants THEN None ELSE issued[t]]

\* A request on tenant t begins.
Begin(h, t, state) ==
    /\ handler[h].pc = "idle"
    /\ handler' = [handler EXCEPT ![h] = state]
    /\ Disturb({u \in {t} : Busy(u)})

\* Mutant: the key that is minted need not be fresh.
CreateTenantAnyKey(h, t, k, email, secret) ==
    /\ \A j \in Keys : owner[j] # t
    /\ owner' = [owner EXCEPT ![k] = t]
    /\ Begin(h, t, [pc |-> "create", id |-> t, key |-> None, next |-> k,
                    record |-> Tenant(t, email, secret)])
    /\ UNCHANGED <<redisVars, cache, resolver, known, overtaken, outdated, errors>>

\* admin create_tenant: a fresh id and a fresh key are minted.
CreateTenant(h, t, k, email, secret) ==
    /\ handler[h].pc = "idle"
    /\ owner[k] = None
    /\ \A j \in Keys : owner[j] # t
    /\ owner' = [owner EXCEPT ![k] = t]
    /\ Begin(h, t, [pc |-> "create", id |-> t, key |-> None, next |-> k,
                    record |-> Tenant(t, email, secret)])
    /\ UNCHANGED <<redisVars, cache, resolver, known, overtaken, outdated, errors>>

\* rotate_api_key, get_tenant_by_id (for rotate_jwt_secret) and delete_tenant
\* start with the id index; an unknown id ends the request with "unknown tenant".
\* A rotation begins only while there are keys left to mint, a bound of the model.
ReadIndex(h, t, op) ==
    /\ handler[h].pc = "idle"
    /\ \/ /\ byId[t] # None
          /\ op = "rotate" => Fresh # {}
          /\ Begin(h, t, [pc |-> op, id |-> t, key |-> byId[t], next |-> None, record |-> None])
          /\ UNCHANGED <<redisVars, cache, resolver, owner, known, overtaken, outdated, errors>>
       \/ /\ byId[t] = None
          /\ UNCHANGED vars

Finish(h) == handler' = [handler EXCEPT ![h] = IdleHandler]

\* Mutant: a record that is gone is not noticed.
RotateFetchUnchecked(h) ==
    /\ handler[h].pc = "rotate"
    /\ \E k \in Fresh :
          /\ owner' = [owner EXCEPT ![k] = handler[h].id]
          /\ handler' = [handler EXCEPT ![h].pc = "replace", ![h].next = k,
                                        ![h].record = byKey[handler[h].key]]
    /\ UNCHANGED <<redisVars, cache, resolver, issued, known, disturbed, overtaken, outdated, errors>>

\* Mutant: the record is stored again without its JWT secret.
RotateFetchDropsSecret(h) ==
    /\ handler[h].pc = "rotate"
    /\ LET found == byKey[handler[h].key]
       IN  \/ /\ found = None
              /\ Finish(h)
              /\ UNCHANGED owner
           \/ /\ found # None
              /\ \E k \in Fresh :
                    /\ owner' = [owner EXCEPT ![k] = handler[h].id]
                    /\ handler' = [handler EXCEPT ![h].pc = "replace", ![h].next = k,
                                                  ![h].record = Tenant(found.id, found.email, None)]
    /\ UNCHANGED <<redisVars, cache, resolver, issued, known, disturbed, overtaken, outdated, errors>>

\* rotate_api_key: the record is read, then a key is minted.
RotateFetch(h) ==
    /\ handler[h].pc = "rotate"
    /\ LET found == byKey[handler[h].key]
       IN  \/ /\ found = None
              /\ Finish(h)
              /\ UNCHANGED owner
           \/ /\ found # None
              /\ \E k \in Fresh :
                    /\ owner' = [owner EXCEPT ![k] = handler[h].id]
                    /\ handler' = [handler EXCEPT ![h].pc = "replace", ![h].next = k,
                                                  ![h].record = found]
    /\ UNCHANGED <<redisVars, cache, resolver, issued, known, disturbed, overtaken, outdated, errors>>

\* rotate_jwt_secret: the record is read and gets a new secret.
JwtFetch(h, secret) ==
    /\ handler[h].pc = "jwt"
    /\ LET found == byKey[handler[h].key]
       IN  \/ /\ found = None
              /\ Finish(h)
           \/ /\ found # None
              /\ handler' = [handler EXCEPT ![h].pc = "update", ![h].key = None,
                                ![h].record = Tenant(found.id, found.email, secret)]
    /\ UNCHANGED <<redisVars, cache, resolver, historyVars, errors>>

\* update_tenant reads the id index again.
UpdateIndex(h) ==
    /\ handler[h].pc = "update"
    /\ \/ /\ byId[handler[h].id] = None
          /\ Finish(h)
       \/ /\ byId[handler[h].id] # None
          /\ handler' = [handler EXCEPT ![h].pc = "store", ![h].next = byId[handler[h].id]]
    /\ UNCHANGED <<redisVars, cache, resolver, historyVars, errors>>

\* Mutant: the record is not loaded, so its email is not known.
DeleteFetchSkipsRecord(h) ==
    /\ handler[h].pc = "delete"
    /\ handler' = [handler EXCEPT ![h].pc = "drop"]
    /\ UNCHANGED <<redisVars, cache, resolver, historyVars, errors>>

\* delete_tenant reads the record for its email, if it has one.
DeleteFetch(h) ==
    /\ handler[h].pc = "delete"
    /\ LET found == byKey[handler[h].key]
           named == found # None /\ found.email # None
       IN  handler' = [handler EXCEPT ![h].pc = "drop", ![h].record = IF named THEN found ELSE None]
    /\ UNCHANGED <<redisVars, cache, resolver, historyVars, errors>>

\* Mutant: a rotation leaves the old key in Redis.
PipeKeepsOldKey(h) ==
    LET r == handler[h].record
        put == <<"key", handler[h].next, r>>
        email(id) == IF r = None \/ r.email = None THEN << >> ELSE << <<"email", r.email, id>> >>
    IN  CASE handler[h].pc = "create" ->
               <<put, <<"id", handler[h].id, handler[h].next>>>>
                   \o email(handler[h].id)
          [] handler[h].pc = "replace" -> <<put, <<"id", handler[h].id, handler[h].next>>>>
          [] handler[h].pc = "store" -> <<put>>
          [] handler[h].pc = "drop" ->
               <<<<"key", handler[h].key, None>>, <<"id", handler[h].id, None>>>>
                   \o email(None)

\* Mutant: a rotation deletes the old key before it stores the new one.
PipeDeletesFirst(h) ==
    LET r == handler[h].record
        put == <<"key", handler[h].next, r>>
        email(id) == IF r = None \/ r.email = None THEN << >> ELSE << <<"email", r.email, id>> >>
    IN  CASE handler[h].pc = "create" ->
               <<put, <<"id", handler[h].id, handler[h].next>>>>
                   \o email(handler[h].id)
          [] handler[h].pc = "replace" ->
               <<<<"key", handler[h].key, None>>, put, <<"id", handler[h].id, handler[h].next>>>>
          [] handler[h].pc = "store" -> <<put>>
          [] handler[h].pc = "drop" ->
               <<<<"key", handler[h].key, None>>, <<"id", handler[h].id, None>>>>
                   \o email(None)

\* The commands of each pipe, in order: the index written, its key, the value.
Pipe(h) ==
    LET r == handler[h].record
        put == <<"key", handler[h].next, r>>
        email(id) == IF r = None \/ r.email = None THEN << >> ELSE << <<"email", r.email, id>> >>
    IN  CASE handler[h].pc = "create" ->
               <<put, <<"id", handler[h].id, handler[h].next>>>>
                   \o email(handler[h].id)
          [] handler[h].pc = "replace" ->
               <<put, <<"id", handler[h].id, handler[h].next>>, <<"key", handler[h].key, None>>>>
          [] handler[h].pc = "store" -> <<put>>
          [] handler[h].pc = "drop" ->
               <<<<"key", handler[h].key, None>>, <<"id", handler[h].id, None>>>>
                   \o email(None)

\* The first n commands of a pipe are carried out on one index.
Written(old, index, pipe, n) ==
    [x \in DOMAIN old |->
        IF \E i \in 1 .. n : pipe[i][1] = index /\ pipe[i][2] = x
        THEN pipe[CHOOSE i \in 1 .. n : pipe[i][1] = index /\ pipe[i][2] = x][3]
        ELSE old[x]]

Apply(h, n) ==
    /\ byKey' = Written(byKey, "key", Pipe(h), n)
    /\ byId' = Written(byId, "id", Pipe(h), n)
    /\ byEmail' = Written(byEmail, "email", Pipe(h), n)

WritePcs == {"create", "replace", "store", "drop"}

Write(h) ==
    /\ handler[h].pc \in WritePcs
    /\ Apply(h, Len(Pipe(h)))
    /\ handler' = [handler EXCEPT ![h] =
                      [IdleHandler EXCEPT !.pc = "invalidate", !.id = handler[h].id,
                          !.next = IF handler[h].pc \in {"create", "replace"}
                                   THEN handler[h].next ELSE None]]
    /\ issued' = [issued EXCEPT ![handler[h].id] =
                     IF handler[h].pc \in {"create", "store"} /\ handler[h].id \notin disturbed
                     THEN handler[h].record.secret ELSE @]
    /\ UNCHANGED <<cache, resolver, owner, known, disturbed, overtaken, outdated, errors>>

\* The connects that hold a record of tenant t which they have yet to cache.
Fetched(t) == {r \in Resolvers : resolver[r].fetched # None /\ resolver[r].fetched.id = t}

\* The connection breaks: the request ends with "storage error" and the cache
\* is left as it is.
WriteFails(h) ==
    /\ handler[h].pc \in WritePcs
    /\ errors > 0
    /\ errors' = errors - 1
    /\ \E n \in 0 .. Len(Pipe(h)) : Apply(h, n)
    /\ Disturb({handler[h].id})
    /\ overtaken' = overtaken \cup Fetched(handler[h].id)
    /\ outdated' = outdated \cup
          {k \in Keys : cache[k].value # None /\ cache[k].value.id = handler[h].id}
    /\ Finish(h)
    /\ UNCHANGED <<cache, resolver, owner, known>>

\* The read before it fails: the request ends.
ReadFails(h) ==
    /\ handler[h].pc \in {"rotate", "jwt", "update", "delete"}
    /\ errors > 0
    /\ errors' = errors - 1
    /\ Finish(h)
    /\ UNCHANGED <<redisVars, cache, resolver, historyVars>>

\* Mutant: only the entry of the key that was minted is dropped.
InvalidateNewKey(h) ==
    /\ handler[h].pc = "invalidate"
    /\ cache' = [k \in Keys |-> IF k = handler[h].next THEN Miss ELSE cache[k]]
    /\ overtaken' = overtaken \cup Fetched(handler[h].id)
    /\ outdated' = {}
    /\ known' = known \cup ({handler[h].next} \ {None})
    /\ Finish(h)
    /\ UNCHANGED <<redisVars, resolver, owner, issued, disturbed, errors>>

\* invalidate_all, and the answer to the caller: the key that was minted, if any.
Invalidate(h) ==
    /\ handler[h].pc = "invalidate"
    /\ cache' = [k \in Keys |-> Miss]
    /\ overtaken' = overtaken \cup Fetched(handler[h].id)
    /\ outdated' = {}
    /\ known' = known \cup ({handler[h].next} \ {None})
    /\ Finish(h)
    /\ UNCHANGED <<redisVars, resolver, owner, issued, disturbed, errors>>

-----------------------------------------------------------------------------
ResolverSteps(r) == FetchByHash(r) \/ CachePut(r)

\* The steps a request takes by itself.
HandlerSteps(h) ==
    \/ RotateFetch(h)
    \/ \E s \in Secrets : JwtFetch(h, s)
    \/ UpdateIndex(h)
    \/ DeleteFetch(h)
    \/ Write(h)
    \/ WriteFails(h)
    \/ ReadFails(h)
    \/ Invalidate(h)

Next ==
    \/ \E r \in Resolvers : (\E k \in Keys : Resolve(r, k)) \/ ResolverSteps(r)
    \/ \E k \in Keys : CacheExpires(k)
    \/ \E h \in Handlers, t \in TenantIds :
          \/ \E k \in Keys, e \in Emails \cup {None}, s \in Secrets \cup {None} :
                CreateTenant(h, t, k, e, s)
          \/ \E op \in {"rotate", "jwt", "delete"} : ReadIndex(h, t, op)
    \/ \E h \in Handlers : HandlerSteps(h)

Spec == Init /\ [][Next]_vars

-----------------------------------------------------------------------------
(* Properties.                                                             *)

HandlerPcs == {"idle", "rotate", "jwt", "update", "delete", "invalidate"} \cup WritePcs

\* The indexes and the cache of tenant.rs keep their types, and a request that
\* is about to write knows what to write where.
TenantsTypeOK ==
    /\ byKey \in [Keys -> StoredRecords]
    /\ byId \in [TenantIds -> Keys \cup {None}]
    /\ byEmail \in [Emails -> TenantIds \cup {None}]
    /\ cache \in [Keys -> [hit : BOOLEAN, value : StoredRecords]]
    /\ \A h \in Handlers :
          /\ handler[h].pc \in HandlerPcs
          /\ handler[h].pc # "idle" => handler[h].id \in TenantIds
          /\ handler[h].pc \in {"create", "replace", "store"} =>
                handler[h].next \in Keys /\ handler[h].record \in TenantRecords
    /\ \A r \in Resolvers : resolver[r].pc \in {"idle", "fetch", "put"}
    /\ owner \in [Keys -> TenantIds \cup {None}]
    /\ issued \in [TenantIds -> Secrets \cup {None}]
    /\ known \subseteq Keys /\ disturbed \subseteq TenantIds
    /\ overtaken \subseteq Resolvers /\ outdated \subseteq Keys
    /\ errors \in 0 .. MaxErrors

\* resolve_api_key never answers with another tenant: however requests for
\* several tenants, failed writes and lookups interleave, a key stored, fetched
\* or cached belongs to the tenant it was minted for.
TenantIsolation ==
    /\ \A k \in Keys : byKey[k] # None => byKey[k].id = owner[k]
    /\ \A k \in Keys : cache[k].value # None => cache[k].value.id = owner[k]
    /\ \A r \in Resolvers : resolver[r].fetched # None =>
          resolver[r].fetched.id = owner[resolver[r].key]

\* A tenant whose requests did not overlap or fail has one key, the one its id
\* index names: no revoked key of it is left in Redis and the key it has is there.
IndexAgrees ==
    \A t \in TenantIds \ disturbed : \A k \in Keys :
        (byKey[k] # None /\ byKey[k].id = t) <=> byId[t] = k

\* rotate_jwt_secret "is returned exactly once": for such a tenant the secret
\* that was returned last is the one that is stored, over key rotations as well,
\* unless a request that will say otherwise is under way.  (What connects are
\* verified with is what is cached: CachedIsCurrent.)
IssuedSecretIsStored ==
    \A t \in TenantIds \ disturbed :
        (byId[t] # None /\ ~Busy(t)) => byKey[byId[t]].secret = issued[t]

\* "the old secret stops verifying immediately after cache invalidation", and a
\* revoked key is refused: once the request that wrote has dropped the cache,
\* resolve_api_key grants no record but the one stored, however requests for the same
\* or other tenants overlap.  The exceptions are a lookup that fetched before the
\* cache was dropped and stores its answer after (tenant.rs:143-147), and what a
\* failed write, which drops nothing, leaves cached; both last for one TTL.
AboutToInvalidate(t) == \E h \in Handlers : handler[h].pc = "invalidate" /\ handler[h].id = t
CachedIsCurrent ==
    \A k \in Keys \ outdated :
        ~AboutToInvalidate(owner[k]) => cache[k].value \in {None, byKey[k]}

\* rotate_api_key stores the new key before it deletes the old one, in a pipe
\* that is not a transaction: however rotations, secret changes and deletions of a tenant
\* overlap, and wherever a broken connection cuts a pipe, only a deletion takes
\* away the working key that its id index names.
HasWorkingKey(t) == byId[t] # None /\ byKey[byId[t]] # None
RotationKeepsAWorkingKey ==
    [][\A t \in TenantIds :
          (HasWorkingKey(t) /\ ~HasWorkingKey(t)') =>
              \E h \in Handlers : handler[h].pc = "drop" /\ handler[h].id = t]_vars

\* resolve_api_key caches stale answers for one TTL only: a key that stays out
\* of Redis is in the end never granted, even when the lookup that read it before its
\* removal stored it after invalidate_all.
RemovedKeyIsRefused ==
    \A k \in Keys : <>[](byKey[k] = None) => <>[](cache[k].value = None)

\* A failed lookup refuses a valid key for one TTL only.
StoredKeyIsAccepted ==
    \A k \in Keys : <>[](byKey[k] # None) => <>[](cache[k] # Hit(None))
=============================================================================
