--------------------------- MODULE TenantsProofs ---------------------------
(***************************************************************************)
(* Theorems about Tenants, for any number of tenants, keys, requests,      *)
(* connects and Redis failures.                                            *)
(***************************************************************************)
EXTENDS Tenants, SequenceTheorems, TLAPS

-----------------------------------------------------------------------------
(* The inductive invariants.                                               *)

HandlerRecords ==
    [pc : HandlerPcs, id : TenantIds \cup {None}, key : Keys \cup {None},
     next : Keys \cup {None}, record : StoredRecords]
ResolverRecords == [pc : {"idle", "fetch", "put"}, key : Keys \cup {None}, fetched : StoredRecords]

\* The requests that hold a key they read from the id index.
HoldsKey == {"rotate", "jwt", "delete", "replace", "drop"}
\* The requests that hold a record they are going to store.
HoldsRecord == {"create", "replace", "update", "store"}

\* The types of the requests and connects, in full.
HandlerStates ==
    {x \in HandlerRecords :
        /\ x.pc = "idle" <=> x.id = None
        /\ x.pc \in HoldsKey => x.key \in Keys
        /\ x.pc \in HoldsRecord => x.record \in TenantRecords
        /\ x.pc \in {"create", "replace", "store"} => x.next \in Keys}
ResolverStates ==
    {x \in ResolverRecords :
        /\ x.pc # "idle" => x.key \in Keys
        /\ x.pc # "put" => x.fetched = None}
TenantsShape ==
    /\ TenantsTypeOK
    /\ handler \in [Handlers -> HandlerStates]
    /\ resolver \in [Resolvers -> ResolverStates]

\* What a request read or minted belongs to the tenant it works on.
MintedFor(x, own) ==
    /\ x.pc \in HoldsKey => own[x.key] = x.id
    /\ x.pc \in HoldsRecord => x.record.id = x.id
    /\ x.pc \in {"create", "replace", "store"} => own[x.next] = x.id
    /\ x.pc = "replace" => x.key # x.next
Minted ==
    /\ \A t \in TenantIds : byId[t] # None => owner[byId[t]] = t
    /\ \A h \in Handlers : MintedFor(handler[h], owner)

IsolationInv == Minted /\ TenantIsolation

\* What a request for tenant t read still holds when it writes.
ReadHolds(x, t) ==
    /\ x.pc \in HoldsKey => byId[t] = x.key
    /\ x.pc = "create" => byId[t] = None
    /\ x.pc = "store" => byId[t] = x.next
    /\ x.pc = "replace" => x.record.secret = issued[t]

\* A tenant that is not disturbed has one request at a time, whose reads hold;
\* the id index names its only key, which is stored with the secret it was told.
QuietTenant(t) ==
    /\ \A g, h \in Handlers : handler[g].id = t /\ handler[h].id = t => g = h
    /\ \A h \in Handlers : handler[h].id = t => ReadHolds(handler[h], t)
    /\ \A k \in Keys : (byKey[k] # None /\ byKey[k].id = t) <=> byId[t] = k
    /\ byId[t] # None => byKey[byId[t]].secret = issued[t]

QuietInv == \A t \in TenantIds \ disturbed : QuietTenant(t)

\* What is cached, or fetched and about to be cached, is what is stored, unless
\* it was overtaken or the request that wrote has yet to drop the cache.
Current(v, k) == v \in {None, byKey[k]} \/ AboutToInvalidate(owner[k])
CacheInv ==
    /\ \A k \in Keys \ outdated : Current(cache[k].value, k)
    /\ \A r \in Resolvers \ overtaken :
          resolver[r].fetched # None => Current(resolver[r].fetched, resolver[r].key)

-----------------------------------------------------------------------------
(* What a pipe writes.                                                     *)

\* A third command after two.
LEMMA ThreeCommands == ASSUME NEW a, NEW b, NEW c PROVE <<a, b>> \o <<c>> = <<a, b, c>>
<1> DEFINE S == {a, b, c}
<1>1. <<a, b>> \in Seq(S) /\ <<c>> \in Seq(S) /\ <<a, b, c>> \in Seq(S)
  OBVIOUS
<1>2. Len(<<a, b>>) = 2 /\ Len(<<c>>) = 1 /\ Len(<<a, b, c>>) = 3
  OBVIOUS
<1>3. <<a, b>> \o <<c>> \in Seq(S) /\ Len(<<a, b>> \o <<c>>) = 3
  BY <1>1, <1>2, ConcatProperties
<1>4. \A i \in 1 .. 3 : (<<a, b>> \o <<c>>)[i] = <<a, b, c>>[i]
  BY <1>1, <1>2, ConcatProperties
<1> QED
  BY <1>1, <1>2, <1>3, <1>4, SeqEqual

\* The commands of a pipe by the kind of request; those after the first ones
\* are for the email index.
LEMMA PipeShape ==
  ASSUME NEW h \in Handlers, TenantsShape, handler[h].pc \in WritePcs
  PROVE  LET hd == handler[h] IN
         /\ Len(Pipe(h)) \in Nat
         /\ \A i \in 1 .. Len(Pipe(h)) : Pipe(h)[i][1] = "email" => Pipe(h)[i][3] \in {hd.id, None}
         /\ hd.pc = "create" =>
              /\ Len(Pipe(h)) >= 2
              /\ Pipe(h)[1] = <<"key", hd.next, hd.record>>
              /\ Pipe(h)[2] = <<"id", hd.id, hd.next>>
              /\ \A i \in 3 .. Len(Pipe(h)) : Pipe(h)[i][1] = "email"
         /\ hd.pc = "replace" =>
              /\ Len(Pipe(h)) = 3
              /\ Pipe(h)[1] = <<"key", hd.next, hd.record>>
              /\ Pipe(h)[2] = <<"id", hd.id, hd.next>>
              /\ Pipe(h)[3] = <<"key", hd.key, None>>
         /\ hd.pc = "store" =>
              /\ Len(Pipe(h)) = 1
              /\ Pipe(h)[1] = <<"key", hd.next, hd.record>>
         /\ hd.pc = "drop" =>
              /\ Len(Pipe(h)) >= 2
              /\ Pipe(h)[1] = <<"key", hd.key, None>>
              /\ Pipe(h)[2] = <<"id", hd.id, None>>
              /\ \A i \in 3 .. Len(Pipe(h)) : Pipe(h)[i][1] = "email"
<1> DEFINE r == handler[h].record
           none == r = None \/ r.email = None
<1>1. CASE handler[h].pc = "create"
  <2>1. CASE none
    <3>1. Pipe(h) = <<<<"key", handler[h].next, r>>, <<"id", handler[h].id, handler[h].next>>>> \o << >>
      BY <1>1, <2>1 DEF Pipe
    <3>2. Pipe(h) = <<<<"key", handler[h].next, r>>, <<"id", handler[h].id, handler[h].next>>>>
      BY <3>1
    <3> QED
      BY <1>1, <3>2
  <2>2. CASE ~none
    <3>1. Pipe(h) = <<<<"key", handler[h].next, r>>, <<"id", handler[h].id, handler[h].next>>>>
                       \o << <<"email", r.email, handler[h].id>> >>
      BY <1>1, <2>2 DEF Pipe
    <3>2. Pipe(h) = <<<<"key", handler[h].next, r>>, <<"id", handler[h].id, handler[h].next>>,
                       <<"email", r.email, handler[h].id>>>>
      BY <3>1, ThreeCommands
    <3> QED
      BY <1>1, <3>2
  <2> QED
    BY <2>1, <2>2
<1>2. CASE handler[h].pc = "replace"
  <2>1. Pipe(h) = <<<<"key", handler[h].next, r>>, <<"id", handler[h].id, handler[h].next>>,
                    <<"key", handler[h].key, None>>>>
    BY <1>2 DEF Pipe
  <2> QED
    BY <1>2, <2>1
<1>3. CASE handler[h].pc = "store"
  <2>1. Pipe(h) = <<<<"key", handler[h].next, r>>>>
    BY <1>3 DEF Pipe
  <2> QED
    BY <1>3, <2>1
<1>4. CASE handler[h].pc = "drop"
  <2>1. CASE none
    <3>1. Pipe(h) = <<<<"key", handler[h].key, None>>, <<"id", handler[h].id, None>>>> \o << >>
      BY <1>4, <2>1 DEF Pipe
    <3>2. Pipe(h) = <<<<"key", handler[h].key, None>>, <<"id", handler[h].id, None>>>>
      BY <3>1
    <3> QED
      BY <1>4, <3>2
  <2>2. CASE ~none
    <3>1. Pipe(h) = <<<<"key", handler[h].key, None>>, <<"id", handler[h].id, None>>>>
                       \o << <<"email", r.email, None>> >>
      BY <1>4, <2>2 DEF Pipe
    <3>2. Pipe(h) = <<<<"key", handler[h].key, None>>, <<"id", handler[h].id, None>>,
                       <<"email", r.email, None>>>>
      BY <3>1, ThreeCommands
    <3> QED
      BY <1>4, <3>2
  <2> QED
    BY <2>1, <2>2
<1> QED
  BY <1>1, <1>2, <1>3, <1>4 DEF WritePcs

\* An index that no command of the prefix is for is left alone.
LEMMA WrittenElsewhere ==
  ASSUME NEW D, NEW R, NEW old \in [D -> R], NEW index, NEW pipe, NEW n \in Nat,
         \A i \in 1 .. n : pipe[i][1] # index
  PROVE  Written(old, index, pipe, n) = old
BY DEF Written

\* Command j is the only one of the first n that is for the index.
OnlyFor(index, pipe, n, j) ==
    j \in 1 .. n /\ pipe[j][1] = index /\ \A i \in 1 .. n : pipe[i][1] = index => i = j

\* One entry of an index is written.
Put(old, x, v) == [old EXCEPT ![x] = v]

\* An index that exactly one command is for is changed at one place.
LEMMA WrittenOnce ==
  ASSUME NEW D, NEW R, NEW old \in [D -> R], NEW index, NEW pipe, NEW n \in Nat,
         NEW j, OnlyFor(index, pipe, n, j)
  PROVE  Written(old, index, pipe, n) = Put(old, pipe[j][2], pipe[j][3])
<1> USE DEF OnlyFor, Put
<1>1. ASSUME NEW x \in D PROVE Written(old, index, pipe, n)[x] = Put(old, pipe[j][2], pipe[j][3])[x]
  <2>1. CASE x = pipe[j][2]
    <3>1. (CHOOSE i \in 1 .. n : pipe[i][1] = index /\ pipe[i][2] = x) = j
      BY <2>1
    <3> QED
      BY <2>1, <3>1 DEF Written
  <2>2. CASE x # pipe[j][2]
    BY <2>2 DEF Written
  <2> QED
    BY <2>1, <2>2
<1> QED
  BY <1>1 DEF Written

\* An index keeps its type when every command for it writes a value of it.
LEMMA WrittenType ==
  ASSUME NEW D, NEW R, NEW old \in [D -> R], NEW index, NEW pipe, NEW n \in Nat,
         \A i \in 1 .. n : pipe[i][1] = index => pipe[i][3] \in R
  PROVE  Written(old, index, pipe, n) \in [D -> R]
<1>1. ASSUME NEW x \in D PROVE Written(old, index, pipe, n)[x] \in R
  <2>1. CASE \E i \in 1 .. n : pipe[i][1] = index /\ pipe[i][2] = x
    <3> DEFINE c == CHOOSE i \in 1 .. n : pipe[i][1] = index /\ pipe[i][2] = x
    <3>1. c \in 1 .. n /\ pipe[c][1] = index
      BY <2>1
    <3>2. Written(old, index, pipe, n)[x] = pipe[c][3]
      BY <2>1 DEF Written
    <3> QED
      BY <3>1, <3>2
  <2>2. CASE ~\E i \in 1 .. n : pipe[i][1] = index /\ pipe[i][2] = x
    BY <2>2 DEF Written
  <2> QED
    BY <2>1, <2>2
<1> QED
  BY <1>1 DEF Written

\* The same for the index of keys and that of ids.
LEMMA IndexWrittenOnce ==
  ASSUME TenantsTypeOK
  PROVE  \A pipe, n, j : n \in Nat =>
           /\ OnlyFor("key", pipe, n, j) => Written(byKey, "key", pipe, n) = Put(byKey, pipe[j][2], pipe[j][3])
           /\ OnlyFor("id", pipe, n, j) => Written(byId, "id", pipe, n) = Put(byId, pipe[j][2], pipe[j][3])
<1>t. byKey \in [Keys -> StoredRecords] /\ byId \in [TenantIds -> Keys \cup {None}]
  BY DEF TenantsTypeOK
<1> SUFFICES ASSUME NEW pipe, NEW n \in Nat, NEW j
             PROVE  /\ OnlyFor("key", pipe, n, j) => Written(byKey, "key", pipe, n) = Put(byKey, pipe[j][2], pipe[j][3])
                    /\ OnlyFor("id", pipe, n, j) => Written(byId, "id", pipe, n) = Put(byId, pipe[j][2], pipe[j][3])
  OBVIOUS
<1>1. OnlyFor("key", pipe, n, j) => Written(byKey, "key", pipe, n) = Put(byKey, pipe[j][2], pipe[j][3])
  BY <1>t, WrittenOnce
<1>2. OnlyFor("id", pipe, n, j) => Written(byId, "id", pipe, n) = Put(byId, pipe[j][2], pipe[j][3])
  <2>1. PICK R : byId \in [TenantIds -> R]
    BY <1>t
  <2> QED
    BY <2>1, WrittenOnce
<1> QED
  BY <1>1, <1>2

\* The effect of the first n commands of each kind of pipe.
LEMMA ApplyEffect ==
  ASSUME NEW h \in Handlers, TenantsShape, handler[h].pc \in WritePcs,
         handler[h].pc = "replace" => handler[h].key # handler[h].next,
         NEW n \in 0 .. Len(Pipe(h)), Apply(h, n)
  PROVE  LET hd == handler[h] IN
         /\ byEmail' \in [Emails -> TenantIds \cup {None}]
         /\ hd.pc = "create" =>
              /\ byKey' = IF n = 0 THEN byKey ELSE [byKey EXCEPT ![hd.next] = hd.record]
              /\ byId' = IF n < 2 THEN byId ELSE [byId EXCEPT ![hd.id] = hd.next]
         /\ hd.pc = "replace" =>
              /\ n < 3 => byKey' = IF n = 0 THEN byKey ELSE [byKey EXCEPT ![hd.next] = hd.record]
              /\ n = 3 => byKey' = [byKey EXCEPT ![hd.next] = hd.record, ![hd.key] = None]
              /\ byId' = IF n < 2 THEN byId ELSE [byId EXCEPT ![hd.id] = hd.next]
         /\ hd.pc = "store" =>
              /\ byKey' = IF n = 0 THEN byKey ELSE [byKey EXCEPT ![hd.next] = hd.record]
              /\ byId' = byId
         /\ hd.pc = "drop" =>
              /\ byKey' = IF n = 0 THEN byKey ELSE [byKey EXCEPT ![hd.key] = None]
              /\ byId' = IF n < 2 THEN byId ELSE [byId EXCEPT ![hd.id] = None]
<1> DEFINE hd == handler[h]
<1>p. PICK pipe : pipe = Pipe(h)
  OBVIOUS
<1>t. /\ byKey \in [Keys -> StoredRecords]
      /\ byId \in [TenantIds -> Keys \cup {None}]
      /\ byEmail \in [Emails -> TenantIds \cup {None}]
      /\ hd.id \in TenantIds /\ n \in Nat
  BY PipeShape DEF TenantsShape, TenantsTypeOK, WritePcs
<1>a. /\ byKey' = Written(byKey, "key", pipe, n)
      /\ byId' = Written(byId, "id", pipe, n)
      /\ byEmail' = Written(byEmail, "email", pipe, n)
  BY <1>p DEF Apply
<1>len. Len(pipe) \in Nat /\ n <= Len(pipe)
  BY <1>p, PipeShape
<1>wk. /\ (\A i \in 1 .. n : pipe[i][1] # "key") => Written(byKey, "key", pipe, n) = byKey
       /\ \A j \in 1 .. n : OnlyFor("key", pipe, n, j) =>
               Written(byKey, "key", pipe, n) = Put(byKey, pipe[j][2], pipe[j][3])
  <2>1. ASSUME \A i \in 1 .. n : pipe[i][1] # "key" PROVE Written(byKey, "key", pipe, n) = byKey
    BY <1>t, <2>1, WrittenElsewhere
  <2>2. ASSUME NEW j \in 1 .. n, OnlyFor("key", pipe, n, j)
        PROVE  Written(byKey, "key", pipe, n) = Put(byKey, pipe[j][2], pipe[j][3])
    <3>1. TenantsTypeOK /\ n \in Nat
      BY <1>t DEF TenantsShape
    <3> QED
      BY <3>1, <2>2, IndexWrittenOnce
  <2> QED
    BY <2>1, <2>2
<1>wi. /\ (\A i \in 1 .. n : pipe[i][1] # "id") => Written(byId, "id", pipe, n) = byId
       /\ \A j \in 1 .. n : OnlyFor("id", pipe, n, j) =>
               Written(byId, "id", pipe, n) = Put(byId, pipe[j][2], pipe[j][3])
  <2>1. ASSUME \A i \in 1 .. n : pipe[i][1] # "id" PROVE Written(byId, "id", pipe, n) = byId
    BY <1>t, <2>1, WrittenElsewhere
  <2>2. ASSUME NEW j \in 1 .. n, OnlyFor("id", pipe, n, j)
        PROVE  Written(byId, "id", pipe, n) = Put(byId, pipe[j][2], pipe[j][3])
    <3>1. TenantsTypeOK /\ n \in Nat
      BY <1>t DEF TenantsShape
    <3> QED
      BY <3>1, <2>2, IndexWrittenOnce
  <2> QED
    BY <2>1, <2>2
<1>1. byEmail' \in [Emails -> TenantIds \cup {None}]
  <2>1. \A i \in 1 .. n : pipe[i][1] = "email" => pipe[i][3] \in TenantIds \cup {None}
    BY PipeShape, <1>t, <1>len, <1>p
  <2> QED
    BY <2>1, <1>t, <1>a, WrittenType
<1>2. ASSUME hd.pc = "create" \/ hd.pc = "replace" \/ hd.pc = "store", n # 0,
             \A i \in 1 .. n : pipe[i][1] = "key" => i = 1
      PROVE  byKey' = [byKey EXCEPT ![hd.next] = hd.record]
  <2>1. pipe[1] = <<"key", hd.next, hd.record>> /\ 1 \in 1 .. n
    BY <1>2, <1>t, PipeShape, <1>p
  <2>2. Written(byKey, "key", pipe, n) = Put(byKey, pipe[1][2], pipe[1][3])
    BY <1>2, <2>1, <1>wk DEF OnlyFor
  <2> QED
    BY <2>1, <2>2, <1>a DEF Put
<1>3. ASSUME n = 0 PROVE byKey' = byKey /\ byId' = byId
  BY <1>3, <1>t, <1>a, <1>wk, <1>wi
<1>4. ASSUME hd.pc = "create" \/ hd.pc = "replace", n # 0
      PROVE  byId' = IF n < 2 THEN byId ELSE [byId EXCEPT ![hd.id] = hd.next]
  <2>1. pipe[1] = <<"key", hd.next, hd.record>> /\ pipe[2] = <<"id", hd.id, hd.next>>
    BY <1>4, PipeShape, <1>p
  <2>2. \A i \in 3 .. n : pipe[i][1] # "id"
    <3>1. CASE hd.pc = "create"
      <4>1. \A i \in 3 .. Len(pipe) : pipe[i][1] = "email"
        BY <3>1, PipeShape, <1>p
      <4> QED
        BY <4>1, <1>len, <1>t
    <3>2. CASE hd.pc = "replace"
      <4>1. Len(pipe) = 3 /\ pipe[3][1] = "key"
        BY <3>2, PipeShape, <1>p
      <4> QED
        BY <4>1, <1>len, <1>t
    <3> QED
      BY <1>4, <3>1, <3>2
  <2>3. CASE n < 2
    <3>1. \A i \in 1 .. n : pipe[i][1] # "id"
      BY <2>1, <2>3, <1>t
    <3>2. Written(byId, "id", pipe, n) = byId
      BY <3>1, <1>wk, <1>wi DEF OnlyFor
    <3> QED
      BY <2>3, <3>2, <1>a
  <2>4. CASE n >= 2
    <3>1. 2 \in 1 .. n /\ pipe[2][1] = "id" /\ \A i \in 1 .. n : pipe[i][1] = "id" => i = 2
      BY <2>1, <2>2, <2>4, <1>t
    <3>2. Written(byId, "id", pipe, n) = Put(byId, pipe[2][2], pipe[2][3])
      BY <3>1, <1>wk, <1>wi DEF OnlyFor
    <3> QED
      BY <2>1, <2>4, <3>2, <1>a, <1>t DEF Put
  <2> QED
    BY <2>3, <2>4, <1>t
<1>5. CASE hd.pc = "create"
  <2>1. \A i \in 1 .. n : pipe[i][1] = "key" => i = 1
    <3>1. \A i \in 3 .. Len(pipe) : pipe[i][1] = "email"
      BY <1>5, PipeShape, <1>p
    <3>2. pipe[2][1] = "id"
      BY <1>5, PipeShape, <1>p
    <3> QED
      BY <3>1, <3>2, <1>len, <1>t
  <2> QED
    BY <1>1, <1>2, <1>3, <1>4, <1>5, <2>1, <1>t
<1>6. CASE hd.pc = "replace"
  <2>1. /\ Len(pipe) = 3 /\ pipe[1] = <<"key", hd.next, hd.record>>
        /\ pipe[2] = <<"id", hd.id, hd.next>> /\ pipe[3] = <<"key", hd.key, None>>
    BY <1>6, PipeShape, <1>p
  <2>2. ASSUME n < 3 PROVE \A i \in 1 .. n : pipe[i][1] = "key" => i = 1
    BY <2>1, <2>2, <1>t
  <2>3. ASSUME n = 3 PROVE byKey' = [byKey EXCEPT ![hd.next] = hd.record, ![hd.key] = None]
    <3> DEFINE put == [byKey EXCEPT ![hd.next] = hd.record, ![hd.key] = None]
    <3>k. hd.key # hd.next
      BY <1>6
    <3>1. ASSUME NEW x \in Keys PROVE byKey'[x] = put[x]
      <4>1. CASE x = hd.next
        <5>1. (CHOOSE i \in 1 .. n : pipe[i][1] = "key" /\ pipe[i][2] = x) = 1
          BY <2>1, <2>3, <4>1, <3>k
        <5>2. \E i \in 1 .. n : pipe[i][1] = "key" /\ pipe[i][2] = x
          BY <2>1, <2>3, <4>1
        <5>3. byKey'[x] = pipe[1][3]
          BY <1>a, <1>t, <5>1, <5>2 DEF Written
        <5> QED
          BY <2>1, <4>1, <3>k, <5>3, <1>t
      <4>2. CASE x = hd.key
        <5>1. (CHOOSE i \in 1 .. n : pipe[i][1] = "key" /\ pipe[i][2] = x) = 3
          BY <2>1, <2>3, <4>2, <3>k
        <5>2. \E i \in 1 .. n : pipe[i][1] = "key" /\ pipe[i][2] = x
          BY <2>1, <2>3, <4>2
        <5>3. byKey'[x] = pipe[3][3]
          BY <1>a, <1>t, <5>1, <5>2 DEF Written
        <5> QED
          BY <2>1, <4>2, <3>k, <5>3, <1>t
      <4>3. CASE x # hd.next /\ x # hd.key
        <5>1. ~\E i \in 1 .. n : pipe[i][1] = "key" /\ pipe[i][2] = x
          BY <2>1, <2>3, <4>3
        <5>2. byKey'[x] = byKey[x]
          BY <1>a, <1>t, <5>1 DEF Written
        <5> QED
          BY <4>3, <5>2, <1>t
      <4> QED
        BY <4>1, <4>2, <4>3
    <3>2. DOMAIN byKey' = Keys /\ DOMAIN put = Keys
      BY <1>a, <1>t DEF Written
    <3>3. byKey' = [x \in DOMAIN byKey' |-> byKey'[x]]
      BY <1>a DEF Written
    <3> QED
      BY <3>1, <3>2, <3>3
  <2> QED
    BY <1>1, <1>2, <1>3, <1>4, <1>6, <2>2, <2>3, <1>t
<1>7. CASE hd.pc = "store"
  <2>1. Len(pipe) = 1 /\ pipe[1] = <<"key", hd.next, hd.record>>
    BY <1>7, PipeShape, <1>p
  <2>2. \A i \in 1 .. n : pipe[i][1] = "key" => i = 1
    BY <2>1, <1>len, <1>t
  <2>3. \A i \in 1 .. n : pipe[i][1] # "id"
    BY <2>1, <1>len, <1>t
  <2>4. byId' = byId
    BY <2>3, <1>t, <1>a, <1>wk, <1>wi
  <2> QED
    BY <1>1, <1>2, <1>3, <1>7, <2>2, <2>4, <1>t
<1>8. CASE hd.pc = "drop"
  <2>1. pipe[1] = <<"key", hd.key, None>> /\ pipe[2] = <<"id", hd.id, None>>
    BY <1>8, PipeShape, <1>p
  <2>2. \A i \in 3 .. n : pipe[i][1] = "email"
    <3>1. \A i \in 3 .. Len(pipe) : pipe[i][1] = "email"
      BY <1>8, PipeShape, <1>p
    <3> QED
      BY <3>1, <1>len, <1>t
  <2>3. ASSUME n # 0 PROVE byKey' = [byKey EXCEPT ![hd.key] = None]
    <3>1. 1 \in 1 .. n /\ pipe[1][1] = "key" /\ \A i \in 1 .. n : pipe[i][1] = "key" => i = 1
      BY <2>1, <2>2, <2>3, <1>t
    <3>2. Written(byKey, "key", pipe, n) = Put(byKey, pipe[1][2], pipe[1][3])
      BY <3>1, <1>wk, <1>wi DEF OnlyFor
    <3> QED
      BY <2>1, <3>2, <1>a DEF Put
  <2>4. ASSUME n < 2 PROVE byId' = byId
    <3>1. \A i \in 1 .. n : pipe[i][1] # "id"
      BY <2>1, <2>4, <1>t
    <3> QED
      BY <3>1, <1>t, <1>a, <1>wk, <1>wi
  <2>5. ASSUME n >= 2 PROVE byId' = [byId EXCEPT ![hd.id] = None]
    <3>1. 2 \in 1 .. n /\ pipe[2][1] = "id" /\ \A i \in 1 .. n : pipe[i][1] = "id" => i = 2
      BY <2>1, <2>2, <2>5, <1>t
    <3>2. Written(byId, "id", pipe, n) = Put(byId, pipe[2][2], pipe[2][3])
      BY <3>1, <1>wk, <1>wi DEF OnlyFor
    <3> QED
      BY <2>1, <3>2, <1>a DEF Put
  <2> QED
    BY <1>1, <1>3, <1>8, <2>3, <2>4, <2>5, <1>t
<1> QED
  BY <1>5, <1>6, <1>7, <1>8 DEF WritePcs

-----------------------------------------------------------------------------
(* Type correctness.                                                       *)

\* Every request is idle at the start.
LEMMA InitShape == Init => TenantsShape
<1> SUFFICES ASSUME Init PROVE TenantsShape
  OBVIOUS
<1>1. IdleHandler \in HandlerStates /\ IdleResolver \in ResolverStates
  BY TenantsDistinct DEF IdleHandler, IdleResolver, HandlerStates, ResolverStates, HandlerRecords, ResolverRecords,
     HandlerPcs, WritePcs, StoredRecords, HoldsKey, HoldsRecord
<1>2. Miss \in [hit : BOOLEAN, value : StoredRecords]
  BY DEF Miss, StoredRecords
<1> QED
  BY <1>1, <1>2, ErrorsAssumption, TenantsDistinct
     DEF Init, TenantsShape, TenantsTypeOK, StoredRecords, IdleHandler, IdleResolver, HandlerPcs

\* A rotation that read its record either found none and ends, or has minted a key.
LEMMA RotateOutcome ==
  ASSUME NEW h \in Handlers, RotateFetch(h)
  PROVE  /\ handler[h].pc = "rotate"
         /\ redisVars' = redisVars /\ cache' = cache /\ resolver' = resolver /\ issued' = issued
         /\ known' = known /\ disturbed' = disturbed /\ overtaken' = overtaken
         /\ outdated' = outdated /\ errors' = errors
         /\ byKey[handler[h].key] = None => Finish(h) /\ owner' = owner
BY Zenon DEF RotateFetch

\* Every step of a lookup, an admin request or a key rotation keeps the types,
\* a pipe that is cut short included.
LEMMA NextShape == TenantsShape /\ Minted /\ [Next]_vars => TenantsShape'
<1> SUFFICES ASSUME TenantsShape, Minted, [Next]_vars PROVE TenantsShape'
  OBVIOUS
<1> USE TenantsDistinct DEF vars, redisVars, historyVars
<1>t. /\ TenantsTypeOK
      /\ handler \in [Handlers -> HandlerStates]
      /\ resolver \in [Resolvers -> ResolverStates]
  BY DEF TenantsShape
<1>h. ASSUME handler' \in [Handlers -> HandlerStates]
      PROVE  \A h \in Handlers :
                /\ handler'[h].pc \in HandlerPcs
                /\ handler'[h].pc # "idle" => handler'[h].id \in TenantIds
                /\ handler'[h].pc \in {"create", "replace", "store"} =>
                      handler'[h].next \in Keys /\ handler'[h].record \in TenantRecords
  BY <1>h DEF HandlerStates, HandlerRecords, HoldsRecord
<1>goal. ASSUME byKey' \in [Keys -> StoredRecords], byId' \in [TenantIds -> Keys \cup {None}],
                byEmail' \in [Emails -> TenantIds \cup {None}],
                cache' \in [Keys -> [hit : BOOLEAN, value : StoredRecords]],
                handler' \in [Handlers -> HandlerStates],
                resolver' \in [Resolvers -> ResolverStates],
                owner' \in [Keys -> TenantIds \cup {None}],
                issued' \in [TenantIds -> Secrets \cup {None}],
                known' \subseteq Keys, disturbed' \subseteq TenantIds,
                overtaken' \subseteq Resolvers, outdated' \subseteq Keys, errors' \in 0 .. MaxErrors
         PROVE  TenantsShape'
  BY <1>goal, <1>h DEF TenantsShape, TenantsTypeOK, ResolverStates, ResolverRecords
<1>types. /\ byKey \in [Keys -> StoredRecords] /\ byId \in [TenantIds -> Keys \cup {None}]
          /\ byEmail \in [Emails -> TenantIds \cup {None}]
          /\ cache \in [Keys -> [hit : BOOLEAN, value : StoredRecords]]
          /\ owner \in [Keys -> TenantIds \cup {None}]
          /\ issued \in [TenantIds -> Secrets \cup {None}]
          /\ known \subseteq Keys /\ disturbed \subseteq TenantIds /\ errors \in 0 .. MaxErrors
          /\ overtaken \subseteq Resolvers /\ outdated \subseteq Keys
  BY <1>t DEF TenantsTypeOK
<1>idle. IdleHandler \in HandlerStates /\ IdleResolver \in ResolverStates /\ Miss \in [hit : BOOLEAN, value : StoredRecords]
  BY DEF IdleHandler, IdleResolver, HandlerStates, ResolverStates, HandlerRecords, ResolverRecords,
     HandlerPcs, WritePcs, StoredRecords, HoldsKey, HoldsRecord, Miss
<1>fin. ASSUME NEW h \in Handlers, Finish(h) PROVE handler' \in [Handlers -> HandlerStates]
  BY <1>fin, <1>t, <1>idle DEF Finish
<1>err. errors > 0 => errors - 1 \in 0 .. MaxErrors
  BY <1>types, ErrorsAssumption
<1>dist. ASSUME NEW T \in SUBSET TenantIds, Disturb(T)
         PROVE  disturbed' \subseteq TenantIds /\ issued' \in [TenantIds -> Secrets \cup {None}]
  BY <1>dist, <1>types DEF Disturb
<1>1. ASSUME NEW r \in Resolvers, NEW k \in Keys, Resolve(r, k) PROVE TenantsShape'
  <2>1. [pc |-> "fetch", key |-> k, fetched |-> None] \in ResolverStates
    BY DEF ResolverStates, ResolverRecords, StoredRecords
  <2> QED
    BY <1>1, <2>1, <1>t, <1>types, <1>goal DEF Resolve
<1>2. ASSUME NEW r \in Resolvers, FetchByHash(r) PROVE TenantsShape'
  <2>0. /\ resolver[r] \in ResolverRecords /\ resolver[r].key \in Keys /\ resolver[r].fetched = None
        /\ byKey[resolver[r].key] \in StoredRecords
    BY <1>2, <1>t, <1>types DEF FetchByHash, ResolverStates
  <2>1. resolver' \in [Resolvers -> ResolverStates]
    <3>1. CASE resolver' = [resolver EXCEPT ![r].pc = "put", ![r].fetched = byKey[resolver[r].key]]
      <4>1. [resolver[r] EXCEPT !.pc = "put", !.fetched = byKey[resolver[r].key]] \in ResolverStates
        BY <2>0 DEF ResolverStates, ResolverRecords
      <4> QED
        BY <3>1, <4>1, <1>t
    <3>2. CASE resolver' = [resolver EXCEPT ![r].pc = "put"]
      <4>1. [resolver[r] EXCEPT !.pc = "put"] \in ResolverStates
        BY <2>0 DEF ResolverStates, ResolverRecords
      <4> QED
        BY <3>2, <4>1, <1>t
    <3> QED
      BY <1>2, <3>1, <3>2 DEF FetchByHash
  <2>2. errors' \in 0 .. MaxErrors
    BY <1>2, <1>err, <1>types DEF FetchByHash
  <2> QED
    BY <1>2, <2>1, <2>2, <1>t, <1>types, <1>goal DEF FetchByHash
<1>3. ASSUME NEW r \in Resolvers, CachePut(r) PROVE TenantsShape'
  <2>1. resolver[r].key \in Keys /\ resolver[r].fetched \in StoredRecords
    BY <1>3, <1>t DEF CachePut, ResolverStates, ResolverRecords
  <2>2. Hit(resolver[r].fetched) \in [hit : BOOLEAN, value : StoredRecords]
    BY <2>1 DEF Hit
  <2>3. overtaken' \subseteq Resolvers /\ outdated' \subseteq Keys
    BY <1>3, <2>1, <1>types DEF CachePut
  <2> QED
    BY <1>3, <2>1, <2>2, <2>3, <1>t, <1>types, <1>idle, <1>goal DEF CachePut
<1>4. ASSUME NEW k \in Keys, CacheExpires(k) PROVE TenantsShape'
  BY <1>4, <1>t, <1>types, <1>idle, <1>goal DEF CacheExpires
<1>5. ASSUME NEW h \in Handlers, NEW t \in TenantIds, NEW k \in Keys, NEW e \in Emails \cup {None},
             NEW s \in Secrets \cup {None}, CreateTenant(h, t, k, e, s)
      PROVE  TenantsShape'
  <2> DEFINE x == [pc |-> "create", id |-> t, key |-> None, next |-> k, record |-> Tenant(t, e, s)]
  <2>1. x \in HandlerStates
    BY DEF HandlerStates, HandlerRecords, HandlerPcs, WritePcs, StoredRecords, TenantRecords, Tenant, HoldsKey, HoldsRecord
  <2>2. handler' \in [Handlers -> HandlerStates] /\ Disturb({u \in {t} : Busy(u)})
    BY <1>5, <2>1, <1>t DEF CreateTenant, Begin
  <2>3. disturbed' \subseteq TenantIds /\ issued' \in [TenantIds -> Secrets \cup {None}]
    BY <2>2, <1>dist
  <2>4. owner' \in [Keys -> TenantIds \cup {None}]
    BY <1>5, <1>types DEF CreateTenant
  <2> QED
    BY <1>5, <2>2, <2>3, <2>4, <1>t, <1>types, <1>goal DEF CreateTenant
<1>6. ASSUME NEW h \in Handlers, NEW t \in TenantIds, NEW op \in {"rotate", "jwt", "delete"}, ReadIndex(h, t, op)
      PROVE  TenantsShape'
  <2>1. CASE byId[t] = None
    <3>1. UNCHANGED vars
      BY <1>6, <2>1 DEF ReadIndex
    <3> QED
      BY <3>1, <1>t, <1>types, <1>goal
  <2>2. CASE byId[t] # None
    <3> DEFINE x == [pc |-> op, id |-> t, key |-> byId[t], next |-> None, record |-> None]
    <3>0. byId[t] \in Keys
      BY <2>2, <1>types
    <3>1. x \in HandlerStates
      BY <3>0 DEF HandlerStates, HandlerRecords, HandlerPcs, WritePcs, StoredRecords, HoldsKey, HoldsRecord
    <3>2. handler' \in [Handlers -> HandlerStates] /\ Disturb({u \in {t} : Busy(u)})
      BY <1>6, <2>2, <3>1, <1>t DEF ReadIndex, Begin
    <3>3. disturbed' \subseteq TenantIds /\ issued' \in [TenantIds -> Secrets \cup {None}]
      BY <3>2, <1>dist
    <3> QED
      BY <1>6, <2>2, <3>2, <3>3, <1>t, <1>types, <1>goal DEF ReadIndex
  <2> QED
    BY <2>1, <2>2
<1>7. ASSUME NEW h \in Handlers, RotateFetch(h) PROVE TenantsShape'
  <2>r. /\ handler[h].pc = "rotate"
        /\ redisVars' = redisVars /\ cache' = cache /\ resolver' = resolver /\ issued' = issued
        /\ known' = known /\ disturbed' = disturbed /\ overtaken' = overtaken
        /\ outdated' = outdated /\ errors' = errors
    BY <1>7, RotateOutcome
  <2>0. handler[h] \in HandlerRecords /\ handler[h].pc = "rotate" /\ handler[h].key \in Keys /\ handler[h].id \in TenantIds
    BY <2>r, <1>t DEF HandlerStates, HandlerRecords, HoldsKey
  <2>1. CASE byKey[handler[h].key] = None
    <3>1. Finish(h) /\ owner' = owner
      BY <1>7, <2>1, RotateOutcome
    <3> QED
      BY <2>r, <3>1, <1>fin, <1>t, <1>types, <1>goal
  <2>2. CASE byKey[handler[h].key] # None
    <3>1. PICK k \in Fresh : /\ owner' = [owner EXCEPT ![k] = handler[h].id]
                             /\ handler' = [handler EXCEPT ![h].pc = "replace", ![h].next = k,
                                                           ![h].record = byKey[handler[h].key]]
      BY <1>7, <2>2, Zenon DEF RotateFetch
    <3>2. k \in Keys /\ byKey[handler[h].key] \in TenantRecords
      BY <2>0, <2>2, <1>types DEF Fresh, StoredRecords
    <3>3. [handler[h] EXCEPT !.pc = "replace", !.next = k, !.record = byKey[handler[h].key]] \in HandlerStates
      BY <2>0, <3>2 DEF HandlerStates, HandlerRecords, HandlerPcs, WritePcs, StoredRecords, HoldsKey, HoldsRecord
    <3>4. handler' \in [Handlers -> HandlerStates]
      BY <3>1, <3>3, <1>t
    <3>5. owner' \in [Keys -> TenantIds \cup {None}]
      BY <3>1, <3>2, <2>0, <1>types
    <3> QED
      BY <2>r, <3>4, <3>5, <1>t, <1>types, <1>goal
  <2> QED
    BY <2>1, <2>2
<1>8. ASSUME NEW h \in Handlers, NEW s \in Secrets, JwtFetch(h, s) PROVE TenantsShape'
  <2>0. handler[h] \in HandlerRecords /\ handler[h].pc = "jwt" /\ handler[h].key \in Keys /\ handler[h].id \in TenantIds
    BY <1>8, <1>t DEF JwtFetch, HandlerStates, HandlerRecords, HoldsKey
  <2>1. CASE byKey[handler[h].key] = None
    BY <1>8, <2>1, <1>fin, <1>t, <1>types, <1>goal DEF JwtFetch
  <2>2. CASE byKey[handler[h].key] # None
    <3> DEFINE found == byKey[handler[h].key]
               new == Tenant(found.id, found.email, s)
    <3>1. new \in TenantRecords
      BY <2>0, <2>2, <1>types DEF StoredRecords, TenantRecords, Tenant
    <3>2. handler' = [handler EXCEPT ![h].pc = "update", ![h].key = None, ![h].record = new]
      BY <1>8, <2>2 DEF JwtFetch
    <3>3. [handler[h] EXCEPT !.pc = "update", !.key = None, !.record = new] \in HandlerStates
      BY <2>0, <3>1 DEF HandlerStates, HandlerRecords, HandlerPcs, WritePcs, StoredRecords, HoldsKey, HoldsRecord
    <3>4. handler' \in [Handlers -> HandlerStates]
      BY <3>2, <3>3, <1>t
    <3> QED
      BY <1>8, <3>4, <1>t, <1>types, <1>goal DEF JwtFetch
  <2> QED
    BY <2>1, <2>2
<1>9. ASSUME NEW h \in Handlers, UpdateIndex(h) PROVE TenantsShape'
  <2>0. /\ handler[h] \in HandlerRecords /\ handler[h].pc = "update" /\ handler[h].id \in TenantIds
        /\ handler[h].record \in TenantRecords
    BY <1>9, <1>t DEF UpdateIndex, HandlerStates, HandlerRecords, HoldsRecord
  <2>1. CASE byId[handler[h].id] = None
    BY <1>9, <2>1, <1>fin, <1>t, <1>types, <1>goal DEF UpdateIndex
  <2>2. CASE byId[handler[h].id] # None
    <3>1. byId[handler[h].id] \in Keys
      BY <2>0, <2>2, <1>types
    <3>2. handler' = [handler EXCEPT ![h].pc = "store", ![h].next = byId[handler[h].id]]
      BY <1>9, <2>2 DEF UpdateIndex
    <3>3. [handler[h] EXCEPT !.pc = "store", !.next = byId[handler[h].id]] \in HandlerStates
      BY <2>0, <3>1 DEF HandlerStates, HandlerRecords, HandlerPcs, WritePcs, StoredRecords, HoldsKey, HoldsRecord
    <3>4. handler' \in [Handlers -> HandlerStates]
      BY <3>2, <3>3, <1>t
    <3> QED
      BY <1>9, <3>4, <1>t, <1>types, <1>goal DEF UpdateIndex
  <2> QED
    BY <2>1, <2>2
<1>10. ASSUME NEW h \in Handlers, DeleteFetch(h) PROVE TenantsShape'
  <2>0. handler[h] \in HandlerRecords /\ handler[h].pc = "delete" /\ handler[h].key \in Keys /\ handler[h].id \in TenantIds
    BY <1>10, <1>t DEF DeleteFetch, HandlerStates, HandlerRecords, HoldsKey
  <2>1. PICK rec \in StoredRecords : handler' = [handler EXCEPT ![h].pc = "drop", ![h].record = rec]
    BY <1>10, <2>0, <1>types DEF DeleteFetch, StoredRecords
  <2>2. [handler[h] EXCEPT !.pc = "drop", !.record = rec] \in HandlerStates
    BY <2>0 DEF HandlerStates, HandlerRecords, HandlerPcs, WritePcs, StoredRecords, HoldsKey, HoldsRecord
  <2>3. handler' \in [Handlers -> HandlerStates]
    BY <2>1, <2>2, <1>t
  <2> QED
    BY <1>10, <2>3, <1>t, <1>types, <1>goal DEF DeleteFetch
\* Whatever prefix of a pipe is carried out, the indexes keep their types.
<1>apply. ASSUME NEW h \in Handlers, handler[h].pc \in WritePcs, NEW n \in 0 .. Len(Pipe(h)), Apply(h, n)
          PROVE  /\ byKey' \in [Keys -> StoredRecords] /\ byId' \in [TenantIds -> Keys \cup {None}]
                 /\ byEmail' \in [Emails -> TenantIds \cup {None}]
  <2>0. /\ handler[h].id \in TenantIds
        /\ handler[h].pc \in {"create", "replace", "store"} =>
             handler[h].next \in Keys /\ handler[h].record \in StoredRecords
        /\ handler[h].pc \in {"replace", "drop"} => handler[h].key \in Keys
        /\ None \in StoredRecords
    BY <1>apply, <1>t DEF HandlerStates, HandlerRecords, WritePcs, HoldsKey, StoredRecords
  <2>1. handler[h].pc = "replace" => handler[h].key # handler[h].next
    BY <1>apply DEF Minted, MintedFor
  <2>2. CASE handler[h].pc = "create"
    BY <1>apply, <2>0, <2>1, <2>2, <1>types, ApplyEffect
  <2>3. CASE handler[h].pc = "replace"
    <3>1. n \in 0 .. 3
      BY <1>apply, <2>3, PipeShape
    <3>2. /\ n < 3 => byKey' = IF n = 0 THEN byKey ELSE [byKey EXCEPT ![handler[h].next] = handler[h].record]
          /\ n = 3 => byKey' = [byKey EXCEPT ![handler[h].next] = handler[h].record, ![handler[h].key] = None]
          /\ byId' = IF n < 2 THEN byId ELSE [byId EXCEPT ![handler[h].id] = handler[h].next]
          /\ byEmail' \in [Emails -> TenantIds \cup {None}]
      BY <1>apply, <2>1, <2>3, ApplyEffect
    <3>3. CASE n < 3
      BY <2>0, <2>3, <3>2, <3>3, <1>types
    <3>4. CASE n = 3
      <4>1. byKey' \in [Keys -> StoredRecords]
        BY <2>0, <2>3, <3>2, <3>4, <1>types
      <4>2. byId' \in [TenantIds -> Keys \cup {None}]
        BY <2>0, <2>3, <3>2, <3>4, <1>types
      <4> QED
        BY <3>2, <4>1, <4>2
    <3> QED
      BY <3>1, <3>3, <3>4
  <2>4. CASE handler[h].pc = "store"
    BY <1>apply, <2>0, <2>1, <2>4, <1>types, ApplyEffect
  <2>5. CASE handler[h].pc = "drop"
    BY <1>apply, <2>0, <2>1, <2>5, <1>types, ApplyEffect
  <2> QED
    BY <1>apply, <2>2, <2>3, <2>4, <2>5 DEF WritePcs
<1>11. ASSUME NEW h \in Handlers, Write(h) PROVE TenantsShape'
  <2>0. /\ handler[h] \in HandlerStates /\ handler[h].id \in TenantIds /\ handler[h].pc \in WritePcs
        /\ handler[h].next \in Keys \cup {None}
        /\ handler[h].pc \in {"create", "store"} => handler[h].record.secret \in Secrets \cup {None}
    BY <1>11, <1>t DEF Write, HandlerStates, HandlerRecords, WritePcs, HoldsRecord, TenantRecords
  <2>1. Len(Pipe(h)) \in 0 .. Len(Pipe(h)) /\ Apply(h, Len(Pipe(h)))
    BY <1>11, <2>0, PipeShape DEF Write
  <2>2. handler' \in [Handlers -> HandlerStates]
    <3> DEFINE nx == IF handler[h].pc \in {"create", "replace"} THEN handler[h].next ELSE None
    <3>1. [IdleHandler EXCEPT !.pc = "invalidate", !.id = handler[h].id, !.next = nx] \in HandlerStates
      BY <2>0 DEF IdleHandler, HandlerStates, HandlerRecords, HandlerPcs, WritePcs, StoredRecords, HoldsKey, HoldsRecord
    <3> QED
      BY <1>11, <3>1, <1>t DEF Write
  <2>3. issued' \in [TenantIds -> Secrets \cup {None}]
    BY <1>11, <2>0, <1>types DEF Write
  <2> QED
    BY <1>11, <2>0, <2>1, <2>2, <2>3, <1>apply, <1>t, <1>types, <1>goal DEF Write
<1>12. ASSUME NEW h \in Handlers, WriteFails(h) PROVE TenantsShape'
  <2>1. PICK n \in 0 .. Len(Pipe(h)) : Apply(h, n)
    BY <1>12 DEF WriteFails
  <2>2. handler[h].pc \in WritePcs /\ handler[h].id \in TenantIds /\ errors' \in 0 .. MaxErrors
    BY <1>12, <1>t, <1>err DEF WriteFails, HandlerStates, HandlerRecords, WritePcs
  <2>3. disturbed' \subseteq TenantIds /\ issued' \in [TenantIds -> Secrets \cup {None}]
    BY <1>12, <2>2, <1>dist DEF WriteFails
  <2>4. handler' \in [Handlers -> HandlerStates]
    BY <1>12, <1>fin DEF WriteFails
  <2>5. /\ byKey' \in [Keys -> StoredRecords] /\ byId' \in [TenantIds -> Keys \cup {None}]
        /\ byEmail' \in [Emails -> TenantIds \cup {None}]
    BY <2>1, <2>2, <1>apply
  <2>6. overtaken' \subseteq Resolvers /\ outdated' \subseteq Keys
    BY <1>12, <1>types DEF WriteFails, Fetched
  <2> QED
    BY <1>12, <2>6, <2>2, <2>3, <2>4, <2>5, <1>t, <1>types, <1>goal DEF WriteFails
<1>13. ASSUME NEW h \in Handlers, ReadFails(h) PROVE TenantsShape'
  BY <1>13, <1>fin, <1>err, <1>t, <1>types, <1>goal DEF ReadFails
<1>14. ASSUME NEW h \in Handlers, Invalidate(h) PROVE TenantsShape'
  <2>1. handler[h].next \in Keys \cup {None}
    BY <1>t DEF HandlerStates, HandlerRecords
  <2>2. known' \subseteq Keys /\ cache' \in [Keys -> [hit : BOOLEAN, value : StoredRecords]]
    BY <1>14, <2>1, <1>idle, <1>types DEF Invalidate
  <2>3. overtaken' \subseteq Resolvers /\ outdated' \subseteq Keys
    BY <1>14, <1>types DEF Invalidate, Fetched
  <2> QED
    BY <1>14, <2>2, <2>3, <1>fin, <1>t, <1>types, <1>goal DEF Invalidate
<1>15. CASE UNCHANGED vars
  BY <1>15, <1>t, <1>types, <1>goal
<1>16. ASSUME NEW h \in Handlers, HandlerSteps(h) PROVE TenantsShape'
  BY <1>16, <1>7, <1>8, <1>9, <1>10, <1>11, <1>12, <1>13, <1>14 DEF HandlerSteps
<1> QED
  BY <1>1, <1>2, <1>3, <1>4, <1>5, <1>6, <1>15, <1>16 DEF Next, ResolverSteps

-----------------------------------------------------------------------------
(* Isolation of tenants.                                                   *)

\* What a pipe, carried out in full or in part, does to keys and tenants: a key
\* of another tenant is not touched, and the working key of its own tenant goes
\* only by a deletion.
LEMMA ApplyIsLocal ==
  ASSUME NEW h \in Handlers, TenantsShape, Minted, handler[h].pc \in WritePcs,
         NEW n \in 0 .. Len(Pipe(h)), Apply(h, n)
  PROVE  LET hd == handler[h] IN
         /\ \A k \in Keys : byKey'[k] # byKey[k] =>
              /\ owner[k] = hd.id
              /\ byKey'[k] = None \/ (hd.pc # "drop" /\ k = hd.next /\ byKey'[k] = hd.record)
         /\ \A t \in TenantIds : t # hd.id => byId'[t] = byId[t]
         /\ byId'[hd.id] # byId[hd.id] =>
              byId'[hd.id] = None \/ (hd.pc \in {"create", "replace"} /\ byId'[hd.id] = hd.next)
         /\ \A t \in TenantIds : t = hd.id /\ hd.pc # "drop" /\ HasWorkingKey(t) => HasWorkingKey(t)'
<1> DEFINE hd == handler[h]
<1>t. /\ byKey \in [Keys -> StoredRecords] /\ byId \in [TenantIds -> Keys \cup {None}]
      /\ hd \in HandlerStates /\ hd.id \in TenantIds /\ hd.id # None
  BY TenantsDistinct DEF TenantsShape, TenantsTypeOK, HandlerStates, HandlerRecords, WritePcs
<1>m. /\ hd.pc \in {"create", "replace", "store"} =>
           /\ hd.next \in Keys /\ owner[hd.next] = hd.id
           /\ hd.record \in TenantRecords /\ hd.record # None /\ hd.next # None
      /\ hd.pc \in {"replace", "drop"} => hd.key \in Keys /\ owner[hd.key] = hd.id
      /\ hd.pc = "replace" => hd.key # hd.next
      /\ n \in Nat
  BY <1>t, TenantsDistinct, PipeShape
     DEF Minted, MintedFor, HandlerStates, HoldsKey, HoldsRecord, TenantRecords
\* From what each command wrote, entry by entry.
<1>goal. ASSUME NEW nk, NEW ni,
                \A k \in Keys : byKey'[k] = nk[k],
                \A t \in TenantIds : byId'[t] = ni[t],
                \A k \in Keys : nk[k] # byKey[k] =>
                    /\ owner[k] = hd.id
                    /\ nk[k] = None \/ (hd.pc # "drop" /\ k = hd.next /\ nk[k] = hd.record),
                \A t \in TenantIds : t # hd.id => ni[t] = byId[t],
                ni[hd.id] # byId[hd.id] =>
                    ni[hd.id] = None \/ (hd.pc \in {"create", "replace"} /\ ni[hd.id] = hd.next),
                hd.pc # "drop" /\ byId[hd.id] # None /\ byKey[byId[hd.id]] # None =>
                    ni[hd.id] \in Keys /\ ni[hd.id] # None /\ nk[ni[hd.id]] # None
         PROVE  /\ \A k \in Keys : byKey'[k] # byKey[k] =>
                     /\ owner[k] = hd.id
                     /\ byKey'[k] = None \/ (hd.pc # "drop" /\ k = hd.next /\ byKey'[k] = hd.record)
                /\ \A t \in TenantIds : t # hd.id => byId'[t] = byId[t]
                /\ byId'[hd.id] # byId[hd.id] =>
                     byId'[hd.id] = None \/ (hd.pc \in {"create", "replace"} /\ byId'[hd.id] = hd.next)
                /\ \A t \in TenantIds : t = hd.id /\ hd.pc # "drop" /\ HasWorkingKey(t) => HasWorkingKey(t)'
  <2>1. \A k \in Keys : byKey'[k] # byKey[k] =>
            /\ owner[k] = hd.id
            /\ byKey'[k] = None \/ (hd.pc # "drop" /\ k = hd.next /\ byKey'[k] = hd.record)
    BY <1>goal
  <2>2. byId'[hd.id] = ni[hd.id]
    BY <1>goal, <1>t
  <2>3. ASSUME NEW t \in TenantIds, t = hd.id, HasWorkingKey(t), hd.pc # "drop"
        PROVE  byId'[t] # None /\ byKey'[byId'[t]] # None
    BY <1>goal, <2>2, <2>3 DEF HasWorkingKey
  <2>4. \A t \in TenantIds : t = hd.id /\ hd.pc # "drop" /\ HasWorkingKey(t) => HasWorkingKey(t)'
    BY <2>3 DEF HasWorkingKey
  <2>5. \A t \in TenantIds : t # hd.id => byId'[t] = byId[t]
    BY <1>goal
  <2>6. byId'[hd.id] # byId[hd.id] =>
            byId'[hd.id] = None \/ (hd.pc \in {"create", "replace"} /\ byId'[hd.id] = hd.next)
    BY <1>goal, <2>2
  <2> QED
    BY <2>1, <2>4, <2>5, <2>6
<1>1. CASE hd.pc = "create"
  <2> DEFINE nk == [k \in Keys |-> IF n > 0 /\ k = hd.next THEN hd.record ELSE byKey[k]]
             ni == [t \in TenantIds |-> IF n > 1 /\ t = hd.id THEN hd.next ELSE byId[t]]
  <2>1. /\ byKey' = IF n = 0 THEN byKey ELSE [byKey EXCEPT ![hd.next] = hd.record]
        /\ byId' = IF n < 2 THEN byId ELSE [byId EXCEPT ![hd.id] = hd.next]
    BY <1>1, <1>m, ApplyEffect
  <2>2. (\A k \in Keys : byKey'[k] = nk[k]) /\ (\A t \in TenantIds : byId'[t] = ni[t])
    BY <2>1, <1>t, <1>m, <1>1
  <2>3. \A k \in Keys : nk[k] # byKey[k] =>
            /\ owner[k] = hd.id
            /\ nk[k] = None \/ (hd.pc # "drop" /\ k = hd.next /\ nk[k] = hd.record)
    BY <1>1, <1>m, <1>t
  <2>4. /\ \A t \in TenantIds : t # hd.id => ni[t] = byId[t]
        /\ ni[hd.id] # byId[hd.id] =>
             ni[hd.id] = None \/ (hd.pc \in {"create", "replace"} /\ ni[hd.id] = hd.next)
    BY <1>1, <1>t
  <2>5. hd.pc # "drop" /\ byId[hd.id] # None /\ byKey[byId[hd.id]] # None =>
            ni[hd.id] \in Keys /\ ni[hd.id] # None /\ nk[ni[hd.id]] # None
    BY <1>1, <1>m, <1>t
  <2> HIDE DEF nk, ni
  <2> QED
    BY <2>2, <2>3, <2>4, <2>5, <1>goal DEF HasWorkingKey
<1>2. CASE hd.pc = "replace"
  <2> DEFINE nk == [k \in Keys |-> IF n = 3 /\ k = hd.key THEN None ELSE IF n > 0 /\ k = hd.next THEN hd.record ELSE byKey[k]]
             ni == [t \in TenantIds |-> IF n > 1 /\ t = hd.id THEN hd.next ELSE byId[t]]
  <2>0. n \in 0 .. 3
    BY <1>2, PipeShape
  <2>1. /\ n < 3 => byKey' = IF n = 0 THEN byKey ELSE [byKey EXCEPT ![hd.next] = hd.record]
        /\ n = 3 => byKey' = [byKey EXCEPT ![hd.next] = hd.record, ![hd.key] = None]
        /\ byId' = IF n < 2 THEN byId ELSE [byId EXCEPT ![hd.id] = hd.next]
    BY <1>2, <1>m, ApplyEffect
  <2>2. (\A k \in Keys : byKey'[k] = nk[k]) /\ (\A t \in TenantIds : byId'[t] = ni[t])
    BY <2>1, <1>t, <1>m, <1>2, <2>0
  <2>3. \A k \in Keys : nk[k] # byKey[k] =>
            /\ owner[k] = hd.id
            /\ nk[k] = None \/ (hd.pc # "drop" /\ k = hd.next /\ nk[k] = hd.record)
    BY <1>2, <1>m, <1>t
  <2>4. /\ \A t \in TenantIds : t # hd.id => ni[t] = byId[t]
        /\ ni[hd.id] # byId[hd.id] =>
             ni[hd.id] = None \/ (hd.pc \in {"create", "replace"} /\ ni[hd.id] = hd.next)
    BY <1>2, <1>t
  <2>5. hd.pc # "drop" /\ byId[hd.id] # None /\ byKey[byId[hd.id]] # None =>
            ni[hd.id] \in Keys /\ ni[hd.id] # None /\ nk[ni[hd.id]] # None
    BY <1>2, <1>m, <1>t, <2>0
  <2> HIDE DEF nk, ni
  <2> QED
    BY <2>2, <2>3, <2>4, <2>5, <1>goal DEF HasWorkingKey
<1>3. CASE hd.pc = "store"
  <2> DEFINE nk == [k \in Keys |-> IF n > 0 /\ k = hd.next THEN hd.record ELSE byKey[k]]
             ni == [t \in TenantIds |-> byId[t]]
  <2>1. /\ byKey' = IF n = 0 THEN byKey ELSE [byKey EXCEPT ![hd.next] = hd.record]
        /\ byId' = byId
    BY <1>3, <1>m, ApplyEffect
  <2>2. (\A k \in Keys : byKey'[k] = nk[k]) /\ (\A t \in TenantIds : byId'[t] = ni[t])
    BY <2>1, <1>t, <1>m, <1>3
  <2>3. \A k \in Keys : nk[k] # byKey[k] =>
            /\ owner[k] = hd.id
            /\ nk[k] = None \/ (hd.pc # "drop" /\ k = hd.next /\ nk[k] = hd.record)
    BY <1>3, <1>m, <1>t
  <2>4. /\ \A t \in TenantIds : t # hd.id => ni[t] = byId[t]
        /\ ni[hd.id] # byId[hd.id] =>
             ni[hd.id] = None \/ (hd.pc \in {"create", "replace"} /\ ni[hd.id] = hd.next)
    BY <1>3, <1>t
  <2>5. hd.pc # "drop" /\ byId[hd.id] # None /\ byKey[byId[hd.id]] # None =>
            ni[hd.id] \in Keys /\ ni[hd.id] # None /\ nk[ni[hd.id]] # None
    BY <1>3, <1>m, <1>t
  <2> HIDE DEF nk, ni
  <2> QED
    BY <2>2, <2>3, <2>4, <2>5, <1>goal DEF HasWorkingKey
<1>4. CASE hd.pc = "drop"
  <2> DEFINE nk == [k \in Keys |-> IF n > 0 /\ k = hd.key THEN None ELSE byKey[k]]
             ni == [t \in TenantIds |-> IF n > 1 /\ t = hd.id THEN None ELSE byId[t]]
  <2>1. /\ byKey' = IF n = 0 THEN byKey ELSE [byKey EXCEPT ![hd.key] = None]
        /\ byId' = IF n < 2 THEN byId ELSE [byId EXCEPT ![hd.id] = None]
    BY <1>4, <1>m, ApplyEffect
  <2>2. (\A k \in Keys : byKey'[k] = nk[k]) /\ (\A t \in TenantIds : byId'[t] = ni[t])
    BY <2>1, <1>t, <1>m, <1>4
  <2>3. \A k \in Keys : nk[k] # byKey[k] =>
            /\ owner[k] = hd.id
            /\ nk[k] = None \/ (hd.pc # "drop" /\ k = hd.next /\ nk[k] = hd.record)
    BY <1>4, <1>m, <1>t
  <2>4. /\ \A t \in TenantIds : t # hd.id => ni[t] = byId[t]
        /\ ni[hd.id] # byId[hd.id] =>
             ni[hd.id] = None \/ (hd.pc \in {"create", "replace"} /\ ni[hd.id] = hd.next)
    BY <1>4, <1>t
  <2>5. hd.pc # "drop" /\ byId[hd.id] # None /\ byKey[byId[hd.id]] # None =>
            ni[hd.id] \in Keys /\ ni[hd.id] # None /\ nk[ni[hd.id]] # None
    BY <1>4, <1>m, <1>t
  <2> HIDE DEF nk, ni
  <2> QED
    BY <2>2, <2>3, <2>4, <2>5, <1>goal DEF HasWorkingKey
<1> QED
  BY <1>1, <1>2, <1>3, <1>4 DEF WritePcs

\* Keys are minted once: a key that has an owner keeps it.
LEMMA OwnerIsKept ==
  ASSUME TenantsShape, [Next]_vars
  PROVE  \A k \in Keys : owner[k] # None => owner'[k] = owner[k]
<1> USE DEF vars, historyVars
<1>t. owner \in [Keys -> TenantIds \cup {None}]
  BY DEF TenantsShape, TenantsTypeOK
<1>1. ASSUME NEW h \in Handlers, NEW t \in TenantIds, NEW k \in Keys, NEW e, NEW s, CreateTenant(h, t, k, e, s)
      PROVE  \A j \in Keys : owner[j] # None => owner'[j] = owner[j]
  BY <1>1, <1>t DEF CreateTenant
<1>2. ASSUME NEW h \in Handlers, RotateFetch(h)
      PROVE  \A j \in Keys : owner[j] # None => owner'[j] = owner[j]
  <2>1. CASE owner' = owner
    BY <2>1
  <2>2. CASE owner' # owner
    <3>1. \E k \in Fresh : owner' = [owner EXCEPT ![k] = handler[h].id]
      BY <1>2, <2>2, Zenon DEF RotateFetch
    <3> QED
      BY <3>1, <1>t DEF Fresh
  <2> QED
    BY <2>1, <2>2
<1>3. ASSUME NEW h \in Handlers, HandlerSteps(h), ~RotateFetch(h) PROVE owner' = owner
  BY <1>3 DEF HandlerSteps, JwtFetch, UpdateIndex, DeleteFetch, Write, WriteFails, ReadFails, Invalidate
<1>4. ASSUME NEW h \in Handlers, NEW t \in TenantIds, NEW op, ReadIndex(h, t, op) PROVE owner' = owner
  BY <1>4 DEF ReadIndex
<1>5. ASSUME NEW r \in Resolvers, (\E k \in Keys : Resolve(r, k)) \/ ResolverSteps(r) PROVE owner' = owner
  BY <1>5 DEF Resolve, ResolverSteps, FetchByHash, CachePut
<1>6. ASSUME NEW k \in Keys, CacheExpires(k) PROVE owner' = owner
  BY <1>6 DEF CacheExpires
<1>7. CASE UNCHANGED vars
  BY <1>7
<1> QED
  BY <1>1, <1>2, <1>3, <1>4, <1>5, <1>6, <1>7 DEF Next

\* Nothing is stored, read or minted at the start.
LEMMA InitIsolation == Init => IsolationInv
BY DEF Init, IsolationInv, Minted, MintedFor, TenantIsolation, IdleHandler, IdleResolver, Miss, HoldsKey, HoldsRecord

\* Every step keeps what is stored, fetched, cached or about to be stored under
\* a key with the tenant that the key was minted for.
LEMMA NextIsolation == TenantsShape /\ IsolationInv /\ [Next]_vars => IsolationInv'
<1> SUFFICES ASSUME TenantsShape, IsolationInv, [Next]_vars PROVE IsolationInv'
  OBVIOUS
<1> USE TenantsDistinct DEF vars, redisVars, historyVars
<1>t. /\ byKey \in [Keys -> StoredRecords] /\ byId \in [TenantIds -> Keys \cup {None}]
      /\ cache \in [Keys -> [hit : BOOLEAN, value : StoredRecords]]
      /\ owner \in [Keys -> TenantIds \cup {None}]
      /\ handler \in [Handlers -> HandlerStates]
      /\ resolver \in [Resolvers -> ResolverStates]
  BY DEF TenantsShape, TenantsTypeOK
<1>i. /\ Minted
      /\ \A t \in TenantIds : byId[t] # None => owner[byId[t]] = t
      /\ \A h \in Handlers : MintedFor(handler[h], owner)
      /\ \A k \in Keys : byKey[k] # None => byKey[k].id = owner[k]
      /\ \A k \in Keys : cache[k].value # None => cache[k].value.id = owner[k]
      /\ \A r \in Resolvers : resolver[r].fetched # None =>
            resolver[r].fetched.id = owner[resolver[r].key]
  BY DEF IsolationInv, Minted, TenantIsolation
<1>own. \A k \in Keys : owner[k] # None => owner'[k] = owner[k]
  BY OwnerIsKept
<1>rec. \A v \in StoredRecords : v # None => v.id \in TenantIds
  BY DEF StoredRecords, TenantRecords
\* What held under the old owners holds under the new ones.
<1>byid. ASSUME NEW t \in TenantIds, byId'[t] = byId[t], byId'[t] # None PROVE owner'[byId'[t]] = t
  BY <1>byid, <1>t, <1>i, <1>own
<1>hnd. ASSUME NEW h \in Handlers PROVE MintedFor(handler[h], owner')
  <2>1. handler[h] \in HandlerStates /\ MintedFor(handler[h], owner)
    BY <1>t, <1>i
  <2>2. handler[h].pc \in HoldsKey \cup HoldsRecord => handler[h].id \in TenantIds
    BY <2>1 DEF HandlerStates, HandlerRecords, HoldsKey, HoldsRecord
  <2>3. handler[h].pc \in HoldsKey => handler[h].key \in Keys
    BY <2>1 DEF HandlerStates
  <2>4. handler[h].pc \in {"create", "replace", "store"} => handler[h].next \in Keys
    BY <2>1 DEF HandlerStates
  <2> QED
    BY <2>1, <2>2, <2>3, <2>4, <1>own DEF MintedFor, HoldsKey, HoldsRecord
<1>key. ASSUME NEW k \in Keys, byKey'[k] = byKey[k], byKey'[k] # None PROVE byKey'[k].id = owner'[k]
  <2>1. byKey[k].id = owner[k] /\ owner[k] # None
    BY <1>key, <1>t, <1>i, <1>rec
  <2> QED
    BY <1>key, <2>1, <1>own
<1>cch. ASSUME NEW k \in Keys, cache'[k].value = cache[k].value, cache'[k].value # None
        PROVE  cache'[k].value.id = owner'[k]
  <2>1. cache[k].value.id = owner[k] /\ owner[k] # None
    BY <1>cch, <1>t, <1>i, <1>rec
  <2> QED
    BY <1>cch, <2>1, <1>own
<1>res. ASSUME NEW r \in Resolvers, resolver'[r] = resolver[r], resolver'[r].fetched # None
        PROVE  resolver'[r].fetched.id = owner'[resolver'[r].key]
  <2>0. resolver[r].key \in Keys /\ resolver[r].fetched \in StoredRecords
    BY <1>res, <1>t DEF ResolverStates, ResolverRecords
  <2>1. resolver[r].fetched.id = owner[resolver[r].key] /\ owner[resolver[r].key] # None
    BY <1>res, <2>0, <1>i, <1>rec
  <2> QED
    BY <1>res, <2>0, <2>1, <1>own
<1>goal. ASSUME \A t \in TenantIds : byId'[t] # byId[t] /\ byId'[t] # None => owner'[byId'[t]] = t,
                \A h \in Handlers : handler'[h] # handler[h] => MintedFor(handler'[h], owner'),
                \A k \in Keys : byKey'[k] # byKey[k] /\ byKey'[k] # None => byKey'[k].id = owner'[k],
                \A k \in Keys : cache'[k].value # cache[k].value /\ cache'[k].value # None =>
                                  cache'[k].value.id = owner'[k],
                \A r \in Resolvers : resolver'[r] # resolver[r] /\ resolver'[r].fetched # None =>
                                  resolver'[r].fetched.id = owner'[resolver'[r].key]
         PROVE  IsolationInv'
  <2>1. \A t \in TenantIds : byId'[t] # None => owner'[byId'[t]] = t
    BY <1>goal, <1>byid
  <2>2. \A h \in Handlers : MintedFor(handler'[h], owner')
    BY <1>goal, <1>hnd
  <2>3. \A k \in Keys : byKey'[k] # None => byKey'[k].id = owner'[k]
    BY <1>goal, <1>key
  <2>4. \A k \in Keys : cache'[k].value # None => cache'[k].value.id = owner'[k]
    BY <1>goal, <1>cch
  <2>5. \A r \in Resolvers : resolver'[r].fetched # None => resolver'[r].fetched.id = owner'[resolver'[r].key]
    BY <1>goal, <1>res
  <2> QED
    BY <2>1, <2>2, <2>3, <2>4, <2>5 DEF IsolationInv, Minted, TenantIsolation
<1>idle. MintedFor(IdleHandler, owner') /\ IdleResolver.fetched = None /\ Miss.value = None
  BY DEF MintedFor, IdleHandler, IdleResolver, Miss, HoldsKey, HoldsRecord
<1>fin. ASSUME NEW h \in Handlers, Finish(h)
        PROVE  \A g \in Handlers : handler'[g] # handler[g] => MintedFor(handler'[g], owner')
  BY <1>fin, <1>t, <1>idle DEF Finish
<1>one. ASSUME NEW h \in Handlers, NEW x, handler' = [handler EXCEPT ![h] = x], MintedFor(x, owner')
        PROVE  \A g \in Handlers : handler'[g] # handler[g] => MintedFor(handler'[g], owner')
  BY <1>one, <1>t
<1>1. ASSUME NEW r \in Resolvers, NEW k \in Keys, Resolve(r, k) PROVE IsolationInv'
  BY <1>1, <1>t, <1>goal DEF Resolve
<1>2. ASSUME NEW r \in Resolvers, FetchByHash(r) PROVE IsolationInv'
  <2>0. resolver[r].key \in Keys /\ resolver[r].fetched = None /\ resolver[r] \in ResolverRecords
    BY <1>2, <1>t DEF FetchByHash, ResolverStates
  <2>1. /\ \A q \in Resolvers \ {r} : resolver'[q] = resolver[q]
        /\ resolver'[r].key = resolver[r].key
        /\ resolver'[r].fetched \in {byKey[resolver[r].key], None}
    BY <1>2, <2>0, <1>t DEF FetchByHash, ResolverRecords
  <2>2. UNCHANGED <<byKey, byId, cache, handler, owner>>
    BY <1>2 DEF FetchByHash
  <2>3. resolver'[r].fetched # None => resolver'[r].fetched.id = owner'[resolver'[r].key]
    BY <2>0, <2>1, <2>2, <1>i
  <2> QED
    BY <2>1, <2>2, <2>3, <1>goal
<1>3. ASSUME NEW r \in Resolvers, CachePut(r) PROVE IsolationInv'
  <2>0. resolver[r].key \in Keys
    BY <1>3, <1>t DEF CachePut, ResolverStates
  <2>1. \A k \in Keys : k # resolver[r].key => cache'[k] = cache[k]
    BY <1>3, <1>t DEF CachePut
  <2>2. cache'[resolver[r].key].value = resolver[r].fetched
    BY <1>3, <2>0, <1>t DEF CachePut, Hit
  <2>3. resolver' = [resolver EXCEPT ![r] = IdleResolver] /\ UNCHANGED <<byKey, byId, handler, owner>>
    BY <1>3 DEF CachePut
  <2>4. cache'[resolver[r].key].value # None => cache'[resolver[r].key].value.id = owner'[resolver[r].key]
    BY <2>2, <2>3, <1>i
  <2>5. \A q \in Resolvers : resolver'[q] = resolver[q] \/ resolver'[q].fetched = None
    BY <2>3, <1>idle, <1>t
  <2> QED
    BY <2>1, <2>3, <2>4, <2>5, <1>goal
<1>4. ASSUME NEW k \in Keys, CacheExpires(k) PROVE IsolationInv'
  <2>1. \A j \in Keys : cache'[j] = cache[j] \/ cache'[j].value = None
    BY <1>4, <1>t, <1>idle DEF CacheExpires
  <2> QED
    BY <1>4, <2>1, <1>goal DEF CacheExpires
<1>5. ASSUME NEW h \in Handlers, NEW t \in TenantIds, NEW k \in Keys, NEW e \in Emails \cup {None},
             NEW s \in Secrets \cup {None}, CreateTenant(h, t, k, e, s)
      PROVE  IsolationInv'
  <2> DEFINE x == [pc |-> "create", id |-> t, key |-> None, next |-> k, record |-> Tenant(t, e, s)]
  <2>1. handler' = [handler EXCEPT ![h] = x] /\ owner' = [owner EXCEPT ![k] = t]
    BY <1>5 DEF CreateTenant, Begin
  <2>2. MintedFor(x, owner')
    BY <2>1, <1>t DEF MintedFor, Tenant, HoldsKey, HoldsRecord
  <2>3. \A g \in Handlers : handler'[g] # handler[g] => MintedFor(handler'[g], owner')
    BY <2>1, <2>2, <1>one
  <2>4. UNCHANGED <<byKey, byId, cache, resolver>>
    BY <1>5 DEF CreateTenant
  <2> QED
    BY <2>3, <2>4, <1>goal
<1>6. ASSUME NEW h \in Handlers, NEW t \in TenantIds, NEW op \in {"rotate", "jwt", "delete"}, ReadIndex(h, t, op)
      PROVE  IsolationInv'
  <2>1. CASE byId[t] = None
    BY <1>6, <2>1, <1>goal DEF ReadIndex
  <2>2. CASE byId[t] # None
    <3> DEFINE x == [pc |-> op, id |-> t, key |-> byId[t], next |-> None, record |-> None]
    <3>1. handler' = [handler EXCEPT ![h] = x] /\ owner' = owner
      BY <1>6, <2>2 DEF ReadIndex, Begin
    <3>2. MintedFor(x, owner')
      BY <2>2, <3>1, <1>i DEF MintedFor, HoldsKey, HoldsRecord
    <3>3. \A g \in Handlers : handler'[g] # handler[g] => MintedFor(handler'[g], owner')
      BY <3>1, <3>2, <1>one
    <3>4. UNCHANGED <<byKey, byId, cache, resolver>>
      BY <1>6, <2>2 DEF ReadIndex
    <3> QED
      BY <3>3, <3>4, <1>goal
  <2> QED
    BY <2>1, <2>2
<1>7. ASSUME NEW h \in Handlers, RotateFetch(h) PROVE IsolationInv'
  <2>r. handler[h].pc = "rotate" /\ redisVars' = redisVars /\ cache' = cache /\ resolver' = resolver
    BY <1>7, RotateOutcome
  <2>0. /\ handler[h] \in HandlerRecords /\ handler[h].pc = "rotate" /\ handler[h].key \in Keys
        /\ handler[h].id \in TenantIds /\ owner[handler[h].key] = handler[h].id
    BY <2>r, <1>t, <1>i DEF HandlerStates, HandlerRecords, HoldsKey, MintedFor
  <2>1. UNCHANGED <<byKey, byId, cache, resolver>>
    BY <2>r
  <2>2. CASE byKey[handler[h].key] = None
    <3>1. Finish(h) /\ owner' = owner
      BY <1>7, <2>2, RotateOutcome
    <3> QED
      BY <2>1, <3>1, <1>fin, <1>goal
  <2>3. CASE byKey[handler[h].key] # None
    <3>1. PICK k \in Fresh : /\ owner' = [owner EXCEPT ![k] = handler[h].id]
                             /\ handler' = [handler EXCEPT ![h].pc = "replace", ![h].next = k,
                                                           ![h].record = byKey[handler[h].key]]
      BY <1>7, <2>3, Zenon DEF RotateFetch
    <3> DEFINE x == [handler[h] EXCEPT !.pc = "replace", !.next = k, !.record = byKey[handler[h].key]]
    <3>2. k \in Keys /\ k # handler[h].key
      BY <2>0 DEF Fresh
    <3>3. /\ x.pc = "replace" /\ x.next = k /\ x.key = handler[h].key /\ x.id = handler[h].id
          /\ x.record = byKey[handler[h].key]
      BY <2>0 DEF HandlerRecords
    <3>4. owner'[k] = handler[h].id /\ owner'[handler[h].key] = handler[h].id
      BY <2>0, <3>1, <3>2, <1>t
    <3>5. byKey[handler[h].key].id = handler[h].id
      BY <2>0, <2>3, <1>i
    <3>6. MintedFor(x, owner')
      BY <3>2, <3>3, <3>4, <3>5 DEF MintedFor
    <3>7. handler' = [handler EXCEPT ![h] = x]
      BY <3>1, <1>t
    <3>8. \A g \in Handlers : handler'[g] # handler[g] => MintedFor(handler'[g], owner')
      BY <3>6, <3>7, <1>one
    <3> QED
      BY <2>1, <3>8, <1>goal
  <2> QED
    BY <2>2, <2>3
<1>8. ASSUME NEW h \in Handlers, NEW s \in Secrets, JwtFetch(h, s) PROVE IsolationInv'
  <2>0. /\ handler[h] \in HandlerRecords /\ handler[h].pc = "jwt" /\ handler[h].key \in Keys
        /\ handler[h].id \in TenantIds /\ owner[handler[h].key] = handler[h].id
    BY <1>8, <1>t, <1>i DEF JwtFetch, HandlerStates, HandlerRecords, HoldsKey, MintedFor
  <2>1. UNCHANGED <<byKey, byId, cache, resolver>>
    BY <1>8 DEF JwtFetch
  <2>2. CASE byKey[handler[h].key] = None
    BY <1>8, <2>1, <2>2, <1>fin, <1>goal DEF JwtFetch
  <2>3. CASE byKey[handler[h].key] # None
    <3> DEFINE found == byKey[handler[h].key]
               new == Tenant(found.id, found.email, s)
               x == [handler[h] EXCEPT !.pc = "update", !.key = None, !.record = new]
    <3>1. handler' = [handler EXCEPT ![h] = x]
      BY <1>8, <2>3, <1>t DEF JwtFetch
    <3>2. x.pc = "update" /\ x.id = handler[h].id /\ x.record.id = handler[h].id
      BY <2>0, <2>3, <1>i DEF HandlerRecords, Tenant
    <3>3. MintedFor(x, owner')
      BY <3>2 DEF MintedFor, HoldsKey, HoldsRecord
    <3>4. \A g \in Handlers : handler'[g] # handler[g] => MintedFor(handler'[g], owner')
      BY <3>1, <3>3, <1>one
    <3> QED
      BY <2>1, <3>4, <1>goal
  <2> QED
    BY <2>2, <2>3
<1>9. ASSUME NEW h \in Handlers, UpdateIndex(h) PROVE IsolationInv'
  <2>0. /\ handler[h] \in HandlerRecords /\ handler[h].pc = "update"
        /\ handler[h].id \in TenantIds /\ handler[h].record.id = handler[h].id
    BY <1>9, <1>t, <1>i DEF UpdateIndex, HandlerStates, HandlerRecords, HoldsRecord, MintedFor
  <2>1. UNCHANGED <<byKey, byId, cache, resolver, owner>>
    BY <1>9 DEF UpdateIndex
  <2>2. CASE byId[handler[h].id] = None
    BY <1>9, <2>1, <2>2, <1>fin, <1>goal DEF UpdateIndex
  <2>3. CASE byId[handler[h].id] # None
    <3> DEFINE x == [handler[h] EXCEPT !.pc = "store", !.next = byId[handler[h].id]]
    <3>1. handler' = [handler EXCEPT ![h] = x]
      BY <1>9, <2>3, <1>t DEF UpdateIndex
    <3>2. /\ x.pc = "store" /\ x.id = handler[h].id /\ x.record.id = handler[h].id
          /\ x.next = byId[handler[h].id]
      BY <2>0 DEF HandlerRecords
    <3>3. MintedFor(x, owner')
      BY <2>0, <2>1, <2>3, <3>2, <1>i DEF MintedFor, HoldsKey, HoldsRecord
    <3>4. \A g \in Handlers : handler'[g] # handler[g] => MintedFor(handler'[g], owner')
      BY <3>1, <3>3, <1>one
    <3> QED
      BY <2>1, <3>4, <1>goal
  <2> QED
    BY <2>2, <2>3
<1>10. ASSUME NEW h \in Handlers, DeleteFetch(h) PROVE IsolationInv'
  <2>0. /\ handler[h] \in HandlerRecords /\ handler[h].pc = "delete" /\ owner[handler[h].key] = handler[h].id
    BY <1>10, <1>t, <1>i DEF DeleteFetch, HandlerStates, HandlerRecords, HoldsKey, MintedFor
  <2>1. UNCHANGED <<byKey, byId, cache, resolver, owner>>
    BY <1>10 DEF DeleteFetch
  <2>2. PICK rec : handler' = [handler EXCEPT ![h].pc = "drop", ![h].record = rec]
    BY <1>10 DEF DeleteFetch
  <2> DEFINE x == [handler[h] EXCEPT !.pc = "drop", !.record = rec]
  <2>3. handler' = [handler EXCEPT ![h] = x]
    BY <2>2, <1>t
  <2>4. x.pc = "drop" /\ x.id = handler[h].id /\ x.key = handler[h].key
    BY <2>0 DEF HandlerRecords
  <2>5. MintedFor(x, owner')
    BY <2>0, <2>1, <2>4 DEF MintedFor, HoldsRecord
  <2>6. \A g \in Handlers : handler'[g] # handler[g] => MintedFor(handler'[g], owner')
    BY <2>3, <2>5, <1>one
  <2> QED
    BY <2>1, <2>6, <1>goal
\* Any prefix of a pipe.
<1>apply. ASSUME NEW h \in Handlers, handler[h].pc \in WritePcs, NEW n \in 0 .. Len(Pipe(h)), Apply(h, n),
                 owner' = owner
          PROVE  /\ \A t \in TenantIds : byId'[t] # byId[t] /\ byId'[t] # None => owner'[byId'[t]] = t
                 /\ \A k \in Keys : byKey'[k] # byKey[k] /\ byKey'[k] # None => byKey'[k].id = owner'[k]
  <2>1. MintedFor(handler[h], owner)
    BY <1>i
  <2>2. /\ \A k \in Keys : byKey'[k] # byKey[k] =>
              /\ owner[k] = handler[h].id
              /\ byKey'[k] = None \/ (handler[h].pc # "drop" /\ byKey'[k] = handler[h].record)
        /\ \A t \in TenantIds : t # handler[h].id => byId'[t] = byId[t]
        /\ byId'[handler[h].id] # byId[handler[h].id] => byId'[handler[h].id] = None \/
              (handler[h].pc \in {"create", "replace"} /\ byId'[handler[h].id] = handler[h].next)
    BY <1>apply, <1>i, ApplyIsLocal
  <2>3. handler[h].pc # "drop" => handler[h].record.id = handler[h].id /\ owner[handler[h].next] = handler[h].id
    BY <1>apply, <2>1 DEF MintedFor, WritePcs, HoldsRecord
  <2> QED
    BY <1>apply, <2>2, <2>3
<1>11. ASSUME NEW h \in Handlers, Write(h) PROVE IsolationInv'
  <2>0. handler[h].pc \in WritePcs /\ UNCHANGED <<cache, resolver, owner>>
    BY <1>11 DEF Write
  <2>1. Len(Pipe(h)) \in 0 .. Len(Pipe(h)) /\ Apply(h, Len(Pipe(h)))
    BY <1>11, <2>0, PipeShape DEF Write
  <2> DEFINE nx == IF handler[h].pc \in {"create", "replace"} THEN handler[h].next ELSE None
             x == [IdleHandler EXCEPT !.pc = "invalidate", !.id = handler[h].id, !.next = nx]
  <2>2. handler' = [handler EXCEPT ![h] = x]
    BY <1>11 DEF Write
  <2>3. MintedFor(x, owner')
    BY DEF MintedFor, IdleHandler, HoldsKey, HoldsRecord
  <2>4. \A g \in Handlers : handler'[g] # handler[g] => MintedFor(handler'[g], owner')
    BY <2>2, <2>3, <1>one
  <2>5. /\ \A t \in TenantIds : byId'[t] # byId[t] /\ byId'[t] # None => owner'[byId'[t]] = t
        /\ \A k \in Keys : byKey'[k] # byKey[k] /\ byKey'[k] # None => byKey'[k].id = owner'[k]
    BY <2>0, <2>1, <1>apply
  <2> QED
    BY <2>0, <2>4, <2>5, <1>goal
<1>12. ASSUME NEW h \in Handlers, WriteFails(h) PROVE IsolationInv'
  <2>1. PICK n \in 0 .. Len(Pipe(h)) : Apply(h, n)
    BY <1>12 DEF WriteFails
  <2>2. handler[h].pc \in WritePcs /\ UNCHANGED <<cache, resolver, owner>> /\ Finish(h)
    BY <1>12 DEF WriteFails
  <2>3. /\ \A t \in TenantIds : byId'[t] # byId[t] /\ byId'[t] # None => owner'[byId'[t]] = t
        /\ \A k \in Keys : byKey'[k] # byKey[k] /\ byKey'[k] # None => byKey'[k].id = owner'[k]
    BY <2>1, <2>2, <1>apply
  <2>4. \A g \in Handlers : handler'[g] # handler[g] => MintedFor(handler'[g], owner')
    BY <2>2, <1>fin
  <2> QED
    BY <2>2, <2>3, <2>4, <1>goal
<1>13. ASSUME NEW h \in Handlers, ReadFails(h) PROVE IsolationInv'
  BY <1>13, <1>fin, <1>goal DEF ReadFails
<1>14. ASSUME NEW h \in Handlers, Invalidate(h) PROVE IsolationInv'
  <2>1. \A k \in Keys : cache'[k].value = None
    BY <1>14, <1>idle DEF Invalidate
  <2> QED
    BY <1>14, <2>1, <1>fin, <1>goal DEF Invalidate
<1>15. CASE UNCHANGED vars
  BY <1>15, <1>goal
<1>16. ASSUME NEW h \in Handlers, HandlerSteps(h) PROVE IsolationInv'
  BY <1>16, <1>7, <1>8, <1>9, <1>10, <1>11, <1>12, <1>13, <1>14 DEF HandlerSteps
<1> QED
  BY <1>1, <1>2, <1>3, <1>4, <1>5, <1>6, <1>15, <1>16 DEF Next, ResolverSteps

\* Type correctness of the tenant model for every value of the constants.
THEOREM TenantsTypeCorrect == Spec => []TenantsTypeOK
<1>1. TenantsShape /\ IsolationInv /\ [Next]_vars => (TenantsShape /\ IsolationInv)'
  BY NextShape, NextIsolation DEF IsolationInv
<1>2. TenantsShape => TenantsTypeOK
  BY DEF TenantsShape
<1> QED
  BY InitShape, InitIsolation, <1>1, <1>2, PTL DEF Spec

\* resolve_api_key never answers with a tenant other than the one the key was
\* minted for, whatever requests, failed pipes and lookups interleave.
THEOREM TenantsAreIsolated == Spec => []TenantIsolation
<1>1. TenantsShape /\ IsolationInv /\ [Next]_vars => (TenantsShape /\ IsolationInv)'
  BY NextShape, NextIsolation DEF IsolationInv
<1>2. IsolationInv => TenantIsolation
  BY DEF IsolationInv
<1> QED
  BY InitShape, InitIsolation, <1>1, <1>2, PTL DEF Spec

-----------------------------------------------------------------------------
(* Working keys, the id index and the secrets.                             *)

\* A pipe takes the working key of no tenant but the one that is deleted.
LEMMA ApplyKeepsWorkingKeys ==
  ASSUME NEW h \in Handlers, TenantsShape, Minted, handler[h].pc \in WritePcs,
         NEW n \in 0 .. Len(Pipe(h)), Apply(h, n),
         NEW t \in TenantIds, HasWorkingKey(t), ~HasWorkingKey(t)'
  PROVE  handler[h].pc = "drop" /\ handler[h].id = t
<1>1. CASE t = handler[h].id
  BY <1>1, ApplyIsLocal
<1>2. CASE t # handler[h].id
  <2>1. byId'[t] = byId[t] /\ byId[t] \in Keys /\ owner[byId[t]] = t /\ byKey[byId[t]] # None
    BY <1>2, ApplyIsLocal, TenantsDistinct DEF HasWorkingKey, Minted, TenantsShape, TenantsTypeOK
  <2>2. byKey'[byId[t]] = byKey[byId[t]]
    BY <1>2, <2>1, ApplyIsLocal
  <2>3. byId'[t] # None /\ byKey'[byId'[t]] # None
    BY <2>1, <2>2 DEF HasWorkingKey
  <2> QED
    BY <2>3 DEF HasWorkingKey
<1> QED
  BY <1>1, <1>2

\* Only the pipes of requests write the indexes.
LEMMA OnlyPipesWrite ==
  ASSUME [Next]_vars
  PROVE  \/ UNCHANGED redisVars
         \/ \E h \in Handlers : Write(h) \/ WriteFails(h)
<1> USE DEF vars, redisVars, historyVars
<1>1. ASSUME NEW h \in Handlers, HandlerSteps(h) PROVE UNCHANGED redisVars \/ Write(h) \/ WriteFails(h)
  <2>0. RotateFetch(h) => UNCHANGED redisVars
    BY Zenon DEF RotateFetch
  <2>1. UpdateIndex(h) => UNCHANGED redisVars
    BY DEF UpdateIndex
  <2>2. (DeleteFetch(h) => UNCHANGED redisVars) /\ (ReadFails(h) => UNCHANGED redisVars)
    BY DEF DeleteFetch, ReadFails
  <2>3. ASSUME NEW s \in Secrets, JwtFetch(h, s) PROVE UNCHANGED redisVars
    BY <2>3 DEF JwtFetch
  <2>4. Invalidate(h) => UNCHANGED redisVars
    BY DEF Invalidate
  <2> QED
    BY <1>1, <2>0, <2>1, <2>2, <2>3, <2>4 DEF HandlerSteps
<1>2. ASSUME NEW h \in Handlers, NEW t \in TenantIds, NEW op, ReadIndex(h, t, op) PROVE UNCHANGED redisVars
  BY <1>2 DEF ReadIndex
<1>3. ASSUME NEW h \in Handlers, NEW t \in TenantIds, NEW k \in Keys, NEW e, NEW s, CreateTenant(h, t, k, e, s)
      PROVE  UNCHANGED redisVars
  BY <1>3 DEF CreateTenant
<1>4. ASSUME NEW r \in Resolvers, (\E k \in Keys : Resolve(r, k)) \/ ResolverSteps(r) PROVE UNCHANGED redisVars
  BY <1>4 DEF Resolve, ResolverSteps, FetchByHash, CachePut
<1>5. ASSUME NEW k \in Keys, CacheExpires(k) PROVE UNCHANGED redisVars
  BY <1>5 DEF CacheExpires
<1>6. CASE UNCHANGED vars
  BY <1>6
<1> QED
  BY <1>1, <1>2, <1>3, <1>4, <1>5, <1>6 DEF Next

\* However rotations, secret changes and deletions overlap, and wherever a
\* broken connection cuts a pipe, only a deletion takes away the key that a
\* tenant's id index names.
THEOREM RotationIsSafe == Spec => RotationKeepsAWorkingKey
<1>1. TenantsShape /\ IsolationInv /\ [Next]_vars => (TenantsShape /\ IsolationInv)'
  BY NextShape, NextIsolation DEF IsolationInv
<1>2. ASSUME TenantsShape, IsolationInv, [Next]_vars, NEW t \in TenantIds, HasWorkingKey(t), ~HasWorkingKey(t)'
      PROVE  \E h \in Handlers : handler[h].pc = "drop" /\ handler[h].id = t
  <2>1. ~UNCHANGED redisVars
    BY <1>2 DEF HasWorkingKey, redisVars
  <2>2. PICK h \in Handlers : Write(h) \/ WriteFails(h)
    BY <1>2, <2>1, OnlyPipesWrite
  <2>3. handler[h].pc \in WritePcs
    BY <2>2 DEF Write, WriteFails
  <2>4. PICK n \in 0 .. Len(Pipe(h)) : Apply(h, n)
    BY <1>2, <2>2, <2>3, PipeShape DEF Write, WriteFails
  <2> QED
    BY <1>2, <2>3, <2>4, ApplyKeepsWorkingKeys DEF IsolationInv
<1>3. TenantsShape /\ IsolationInv /\ [Next]_vars =>
        [\A t \in TenantIds : (HasWorkingKey(t) /\ ~HasWorkingKey(t)') =>
              \E h \in Handlers : handler[h].pc = "drop" /\ handler[h].id = t]_vars
  BY <1>2
<1> QED
  BY InitShape, InitIsolation, <1>1, <1>3, PTL DEF Spec, RotationKeepsAWorkingKey

\* What is done for other tenants leaves a quiet tenant quiet.
LEMMA QuietElsewhere ==
  ASSUME TenantsShape, IsolationInv, NEW t \in TenantIds, QuietTenant(t),
         byId'[t] = byId[t], issued'[t] = issued[t],
         \A k \in Keys : owner[k] = t => byKey'[k] = byKey[k],
         \A k \in Keys : byKey'[k] = byKey[k] \/ byKey'[k] = None \/ byKey'[k].id # t,
         \A g \in Handlers : handler'[g] = handler[g] \/ (handler[g].id # t /\ handler'[g].id # t)
  PROVE  QuietTenant(t)'
<1>1. \A g \in Handlers : handler'[g].id = t => handler'[g] = handler[g] /\ handler[g].id = t
  OBVIOUS
<1>2. \A g, h \in Handlers : handler'[g].id = t /\ handler'[h].id = t => g = h
  BY <1>1 DEF QuietTenant
<1>3. \A h \in Handlers : handler'[h].id = t => ReadHolds(handler[h], t)' 
  BY <1>1 DEF QuietTenant, ReadHolds
<1>4. \A k \in Keys : (byKey'[k] # None /\ byKey'[k].id = t) <=> (byKey[k] # None /\ byKey[k].id = t)
  BY DEF IsolationInv, TenantIsolation
<1>5. \A k \in Keys : (byKey'[k] # None /\ byKey'[k].id = t) <=> byId'[t] = k
  BY <1>4 DEF QuietTenant
<1>6. byId'[t] # None => byKey'[byId'[t]].secret = issued'[t]
  <2>1. byId[t] # None => byId[t] \in Keys /\ owner[byId[t]] = t
    BY DEF TenantsShape, TenantsTypeOK, IsolationInv, Minted
  <2> QED
    BY <2>1 DEF QuietTenant
<1> QED
  BY <1>2, <1>3, <1>5, <1>6 DEF QuietTenant

\* A step of the only request of a quiet tenant that writes nothing.
LEMMA QuietAlone ==
  ASSUME NEW t \in TenantIds, QuietTenant(t), NEW h \in Handlers,
         byKey' = byKey, byId' = byId, issued'[t] = issued[t],
         \A g \in Handlers \ {h} : handler'[g] = handler[g] /\ handler[g].id # t,
         handler'[h].id = t => ReadHolds(handler'[h], t)
  PROVE  QuietTenant(t)'
<1>1. \A g \in Handlers : handler'[g].id = t => g = h
  OBVIOUS
<1>2. \A g \in Handlers : handler'[g].id = t => ReadHolds(handler[g], t)'
  BY <1>1 DEF ReadHolds
<1>3. \A k \in Keys : (byKey'[k] # None /\ byKey'[k].id = t) <=> byId'[t] = k
  BY DEF QuietTenant
<1>4. byId'[t] # None => byKey'[byId'[t]].secret = issued'[t]
  BY DEF QuietTenant
<1> QED
  BY <1>1, <1>2, <1>3, <1>4 DEF QuietTenant

\* The pipe of the only request of a quiet tenant, carried out in full.
LEMMA QuietWrite ==
  ASSUME TenantsShape, IsolationInv, NEW h \in Handlers, NEW t \in TenantIds, QuietTenant(t),
         handler[h].id = t, t \notin disturbed, Write(h)
  PROVE  QuietTenant(t)'
<1> DEFINE hd == handler[h]
<1> USE TenantsDistinct
<1>t. /\ byKey \in [Keys -> StoredRecords] /\ byId \in [TenantIds -> Keys \cup {None}]
      /\ issued \in [TenantIds -> Secrets \cup {None}]
      /\ handler \in [Handlers -> HandlerStates]
      /\ hd \in HandlerStates /\ hd.pc \in WritePcs
  BY DEF TenantsShape, TenantsTypeOK, Write
<1>m. /\ hd.pc \in {"create", "replace", "store"} =>
           /\ hd.next \in Keys /\ hd.record \in TenantRecords /\ hd.record # None /\ hd.record.id = t
      /\ hd.pc \in {"replace", "drop"} => hd.key \in Keys
      /\ hd.pc = "replace" => hd.key # hd.next
  BY <1>t DEF IsolationInv, Minted, MintedFor, HandlerStates, HoldsKey, HoldsRecord, TenantRecords
<1>r. /\ hd.pc \in {"replace", "drop"} => byId[t] = hd.key
      /\ hd.pc = "create" => byId[t] = None
      /\ hd.pc = "store" => byId[t] = hd.next
      /\ hd.pc = "replace" => hd.record.secret = issued[t]
  BY DEF QuietTenant, ReadHolds, HoldsKey
<1>q. \A k \in Keys : (byKey[k] # None /\ byKey[k].id = t) <=> byId[t] = k
  BY DEF QuietTenant
<1>n. PICK n \in 0 .. Len(Pipe(h)) : n = Len(Pipe(h)) /\ Apply(h, n)
  BY <1>t, PipeShape DEF Write
<1>i. issued'[t] = IF hd.pc \in {"create", "store"} THEN hd.record.secret ELSE issued[t]
  BY <1>t DEF Write
<1>h. /\ \A g \in Handlers \ {h} : handler'[g] = handler[g] /\ handler[g].id # t
      /\ handler'[h].pc = "invalidate"
  BY <1>t DEF Write, QuietTenant, IdleHandler
<1>goal. ASSUME \A k \in Keys : (byKey'[k] # None /\ byKey'[k].id = t) <=> byId'[t] = k,
                byId'[t] # None => byKey'[byId'[t]].secret = issued'[t]
         PROVE  QuietTenant(t)'
  <2>1. \A g \in Handlers : handler'[g].id = t => g = h
    BY <1>h
  <2>2. \A g \in Handlers : handler'[g].id = t => ReadHolds(handler[g], t)'
    BY <2>1, <1>h DEF ReadHolds, HoldsKey
  <2> QED
    BY <1>goal, <2>1, <2>2 DEF QuietTenant
<1>1. CASE hd.pc = "create"
  <2>1. n >= 2 /\ byKey' = [byKey EXCEPT ![hd.next] = hd.record] /\ byId' = [byId EXCEPT ![hd.id] = hd.next]
    BY <1>1, <1>n, <1>t, <1>m, ApplyEffect, PipeShape
  <2>2. byId'[t] = hd.next /\ \A k \in Keys : byKey'[k] = IF k = hd.next THEN hd.record ELSE byKey[k]
    BY <2>1, <1>t, <1>m
  <2> QED
    BY <1>1, <2>2, <1>m, <1>r, <1>q, <1>i, <1>goal
<1>2. CASE hd.pc = "replace"
  <2>0. n = 3
    BY <1>2, <1>n, <1>t, PipeShape
  <2>1. /\ byKey' = [byKey EXCEPT ![hd.next] = hd.record, ![hd.key] = None]
        /\ byId' = [byId EXCEPT ![hd.id] = hd.next]
    <3>1. /\ n = 3 => byKey' = [byKey EXCEPT ![hd.next] = hd.record, ![hd.key] = None]
          /\ byId' = IF n < 2 THEN byId ELSE [byId EXCEPT ![hd.id] = hd.next]
      BY <1>2, <1>n, <1>t, <1>m, ApplyEffect
    <3> QED
      BY <2>0, <3>1
  <2>2. byId'[t] = hd.next
    BY <2>1, <1>t
  <2>3. \A k \in Keys : byKey'[k] = IF k = hd.key THEN None ELSE IF k = hd.next THEN hd.record ELSE byKey[k]
    <3>0. PICK r : r = hd.record
      OBVIOUS
    <3>1. PICK a \in Keys, b \in Keys : a = hd.next /\ b = hd.key /\ a # b
      BY <1>2, <1>m
    <3>2. byKey' = [byKey EXCEPT ![a] = r, ![b] = None]
      BY <2>1, <3>0, <3>1
    <3> QED
      BY <3>0, <3>1, <3>2, <1>t
  <2> QED
    BY <1>2, <2>2, <2>3, <1>m, <1>r, <1>q, <1>i, <1>goal
<1>3. CASE hd.pc = "store"
  <2>1. n = 1 /\ byKey' = [byKey EXCEPT ![hd.next] = hd.record] /\ byId' = byId
    BY <1>3, <1>n, <1>t, <1>m, ApplyEffect, PipeShape
  <2>2. byId'[t] = byId[t] /\ \A k \in Keys : byKey'[k] = IF k = hd.next THEN hd.record ELSE byKey[k]
    BY <2>1, <1>t, <1>m
  <2> QED
    BY <1>3, <2>2, <1>m, <1>r, <1>q, <1>i, <1>goal
<1>4. CASE hd.pc = "drop"
  <2>1. n >= 2 /\ byKey' = [byKey EXCEPT ![hd.key] = None] /\ byId' = [byId EXCEPT ![hd.id] = None]
    BY <1>4, <1>n, <1>t, <1>m, ApplyEffect, PipeShape
  <2>2. byId'[t] = None /\ \A k \in Keys : byKey'[k] = IF k = hd.key THEN None ELSE byKey[k]
    BY <1>4, <2>1, <1>t, <1>m
  <2> QED
    BY <1>4, <2>2, <1>m, <1>r, <1>q, <1>goal
<1> QED
  BY <1>t, <1>1, <1>2, <1>3, <1>4 DEF WritePcs

\* Nothing is stored and no request is under way at the start.
LEMMA InitQuiet == Init => QuietInv
BY TenantsDistinct DEF Init, QuietInv, QuietTenant, IdleHandler

\* A step disturbs a tenant or leaves it quiet.
LEMMA NextQuiet == TenantsShape /\ IsolationInv /\ QuietInv /\ [Next]_vars => QuietInv'
<1> SUFFICES ASSUME TenantsShape, IsolationInv, QuietInv, [Next]_vars PROVE QuietInv'
  OBVIOUS
<1> USE TenantsDistinct DEF vars, redisVars, historyVars
<1>t. /\ byKey \in [Keys -> StoredRecords] /\ byId \in [TenantIds -> Keys \cup {None}]
      /\ issued \in [TenantIds -> Secrets \cup {None}]
      /\ handler \in [Handlers -> HandlerStates]
  BY DEF TenantsShape, TenantsTypeOK
<1>id. \A h \in Handlers : handler[h].pc # "idle" => handler[h].id \in TenantIds
  BY <1>t DEF HandlerStates, HandlerRecords
<1>q. \A t \in TenantIds \ disturbed : QuietTenant(t)
  BY DEF QuietInv
<1>others. ASSUME NEW t \in TenantIds, t \notin disturbed, NEW h \in Handlers, handler[h].id = t
           PROVE  \A g \in Handlers \ {h} : handler[g].id # t
  BY <1>others, <1>q DEF QuietTenant
\* Nothing is written and the requests stay.
<1>same. ASSUME byKey' = byKey, byId' = byId, issued' = issued, disturbed' = disturbed, handler' = handler
         PROVE  QuietInv'
  BY <1>same, <1>q, QuietElsewhere DEF QuietInv
\* Nothing is written and request h takes a step for its tenant, or ends.
<1>step. ASSUME NEW h \in Handlers, NEW x,
                byKey' = byKey, byId' = byId, issued' = issued, disturbed' = disturbed,
                handler[h].id \in TenantIds, handler' = [handler EXCEPT ![h] = x],
                x.id = None \/ (x.id = handler[h].id /\ (handler[h].id \notin disturbed => ReadHolds(x, x.id)))
         PROVE  QuietInv'
  <2> SUFFICES ASSUME NEW t \in TenantIds, t \notin disturbed PROVE QuietTenant(t)'
    BY <1>step DEF QuietInv
  <2>1. handler'[h] = x /\ \A g \in Handlers \ {h} : handler'[g] = handler[g]
    BY <1>step, <1>t
  <2>2. CASE handler[h].id = t
    BY <1>step, <2>1, <2>2, <1>q, <1>others, QuietAlone
  <2>3. CASE handler[h].id # t
    BY <1>step, <2>1, <2>3, <1>q, QuietElsewhere
  <2> QED
    BY <2>2, <2>3
<1>fin. ASSUME NEW h \in Handlers, handler[h].pc # "idle", Finish(h), 
               byKey' = byKey, byId' = byId, issued' = issued, disturbed' = disturbed
        PROVE  QuietInv'
  BY <1>fin, <1>id, <1>step DEF Finish, IdleHandler
\* A request for tenant u begins.
<1>begin. ASSUME NEW h \in Handlers, NEW u \in TenantIds, NEW x, Begin(h, u, x),
                 byKey' = byKey, byId' = byId, x.id = u, ReadHolds(x, u)
          PROVE  QuietInv'
  <2> SUFFICES ASSUME NEW t \in TenantIds, t \notin disturbed' PROVE QuietTenant(t)'
    BY DEF QuietInv
  <2>1. /\ handler'[h] = x /\ \A g \in Handlers \ {h} : handler'[g] = handler[g]
        /\ handler[h].id = None
        /\ t \notin disturbed /\ t \notin {v \in {u} : Busy(v)}
    BY <1>begin, <1>t DEF Begin, Disturb, HandlerStates
  <2>2. issued'[t] = issued[t]
    BY <1>begin, <2>1 DEF Begin, Disturb
  <2>3. CASE t = u
    <3>1. \A g \in Handlers : handler[g].id # t
      BY <2>1, <2>3 DEF Busy
    <3> QED
      BY <1>begin, <2>1, <2>2, <2>3, <3>1, <1>q, QuietAlone
  <2>4. CASE t # u
    BY <1>begin, <2>1, <2>2, <2>4, <1>q, QuietElsewhere
  <2> QED
    BY <2>3, <2>4
<1>1. ASSUME NEW r \in Resolvers, (\E k \in Keys : Resolve(r, k)) \/ ResolverSteps(r) PROVE QuietInv'
  BY <1>1, <1>same DEF Resolve, ResolverSteps, FetchByHash, CachePut
<1>2. ASSUME NEW k \in Keys, CacheExpires(k) PROVE QuietInv'
  BY <1>2, <1>same DEF CacheExpires
<1>3. ASSUME NEW h \in Handlers, NEW t \in TenantIds, NEW k \in Keys, NEW e \in Emails \cup {None},
             NEW s \in Secrets \cup {None}, CreateTenant(h, t, k, e, s)
      PROVE  QuietInv'
  <2> DEFINE x == [pc |-> "create", id |-> t, key |-> None, next |-> k, record |-> Tenant(t, e, s)]
  <2>1. Begin(h, t, x) /\ byKey' = byKey /\ byId' = byId
    BY <1>3 DEF CreateTenant
  <2>2. byId[t] = None
    BY <1>3, <1>t DEF CreateTenant, IsolationInv, Minted
  <2>3. x.id = t /\ ReadHolds(x, t)
    BY <2>2 DEF ReadHolds, HoldsKey
  <2> QED
    BY <2>1, <2>3, <1>begin
<1>4. ASSUME NEW h \in Handlers, NEW t \in TenantIds, NEW op \in {"rotate", "jwt", "delete"}, ReadIndex(h, t, op)
      PROVE  QuietInv'
  <2> DEFINE x == [pc |-> op, id |-> t, key |-> byId[t], next |-> None, record |-> None]
  <2>1. x.id = t /\ ReadHolds(x, t)
    BY DEF ReadHolds
  <2>2. CASE UNCHANGED vars
    BY <2>2, <1>same
  <2>3. CASE Begin(h, t, x) /\ byKey' = byKey /\ byId' = byId
    BY <2>1, <2>3, <1>begin
  <2> QED
    BY <1>4, <2>2, <2>3 DEF ReadIndex
<1>5. ASSUME NEW h \in Handlers, RotateFetch(h) PROVE QuietInv'
  <2>1. handler[h].pc = "rotate" /\ UNCHANGED <<byKey, byId, issued, disturbed>>
    BY <1>5, Zenon DEF RotateFetch
  <2>2. CASE byKey[handler[h].key] = None
    BY <1>5, <2>1, <2>2, <1>fin DEF RotateFetch
  <2>3. CASE byKey[handler[h].key] # None
    <3>0. PICK k \in Fresh : /\ owner' = [owner EXCEPT ![k] = handler[h].id]
                             /\ handler' = [handler EXCEPT ![h].pc = "replace", ![h].next = k,
                                                           ![h].record = byKey[handler[h].key]]
      BY <1>5, <2>3, Zenon DEF RotateFetch
    <3> DEFINE x == [handler[h] EXCEPT !.pc = "replace", !.next = k, !.record = byKey[handler[h].key]]
    <3>1. handler' = [handler EXCEPT ![h] = x]
      BY <3>0, <1>t
    <3>2. handler[h] \in HandlerRecords /\ handler[h].key \in Keys
      BY <2>1, <1>t DEF HandlerStates, HoldsKey
    <3>3. x.id = handler[h].id /\ x.pc = "replace" /\ x.key = handler[h].key /\ x.record = byKey[handler[h].key]
      BY <3>2 DEF HandlerRecords
    <3>4. ASSUME handler[h].id \notin disturbed PROVE ReadHolds(x, x.id)
      <4>1. byId[handler[h].id] = handler[h].key /\ byId[handler[h].id] # None
        BY <2>1, <3>2, <3>4, <1>id, <1>q DEF QuietTenant, ReadHolds, HoldsKey
      <4>2. byKey[handler[h].key].secret = issued[handler[h].id]
        BY <2>1, <3>4, <4>1, <1>id, <1>q DEF QuietTenant
      <4> HIDE DEF x
      <4> QED
        BY <3>3, <4>1, <4>2 DEF ReadHolds
    <3>5. handler[h].id \in TenantIds
      BY <2>1, <1>id
    <3> HIDE DEF x
    <3> QED
      BY <2>1, <3>1, <3>3, <3>4, <3>5, <1>step
  <2> QED
    BY <2>2, <2>3
<1>6. ASSUME NEW h \in Handlers, NEW s \in Secrets, JwtFetch(h, s) PROVE QuietInv'
  <2> DEFINE found == byKey[handler[h].key]
             x == [handler[h] EXCEPT !.pc = "update", !.key = None, !.record = Tenant(found.id, found.email, s)]
  <2>1. handler[h].pc = "jwt" /\ UNCHANGED <<byKey, byId, issued, disturbed>>
    BY <1>6 DEF JwtFetch
  <2>2. CASE found = None
    BY <1>6, <2>1, <2>2, <1>fin DEF JwtFetch
  <2>3. CASE found # None
    <3>1. handler' = [handler EXCEPT ![h] = x]
      BY <1>6, <2>3, <1>t DEF JwtFetch
    <3>2. x.id = handler[h].id /\ x.pc = "update"
      BY <1>t DEF HandlerStates, HandlerRecords
    <3> HIDE DEF x
    <3>3. ReadHolds(x, x.id)
      BY <3>2 DEF ReadHolds, HoldsKey
    <3> QED
      BY <2>1, <3>1, <3>2, <3>3, <1>id, <1>step
  <2> QED
    BY <2>2, <2>3
<1>7. ASSUME NEW h \in Handlers, UpdateIndex(h) PROVE QuietInv'
  <2> DEFINE x == [handler[h] EXCEPT !.pc = "store", !.next = byId[handler[h].id]]
  <2>1. handler[h].pc = "update" /\ UNCHANGED <<byKey, byId, issued, disturbed>>
    BY <1>7 DEF UpdateIndex
  <2>2. CASE Finish(h)
    BY <2>1, <2>2, <1>fin
  <2>3. CASE handler' = [handler EXCEPT ![h].pc = "store", ![h].next = byId[handler[h].id]]
    <3>1. handler' = [handler EXCEPT ![h] = x]
      BY <2>3, <1>t
    <3>2. x.id = handler[h].id /\ x.pc = "store" /\ x.next = byId[handler[h].id]
      BY <1>t DEF HandlerStates, HandlerRecords
    <3> HIDE DEF x
    <3>3. ReadHolds(x, x.id)
      BY <3>2 DEF ReadHolds, HoldsKey
    <3> QED
      BY <2>1, <3>1, <3>2, <3>3, <1>id, <1>step
  <2> QED
    BY <1>7, <2>2, <2>3 DEF UpdateIndex
<1>8. ASSUME NEW h \in Handlers, DeleteFetch(h) PROVE QuietInv'
  <2>1. handler[h].pc = "delete" /\ UNCHANGED <<byKey, byId, issued, disturbed>>
    BY <1>8 DEF DeleteFetch
  <2>2. PICK v : handler' = [handler EXCEPT ![h].pc = "drop", ![h].record = v]
    BY <1>8 DEF DeleteFetch
  <2> DEFINE x == [handler[h] EXCEPT !.pc = "drop", !.record = v]
  <2>3. handler' = [handler EXCEPT ![h] = x]
    BY <2>2, <1>t
  <2>4. x.id = handler[h].id /\ x.pc = "drop" /\ x.key = handler[h].key
    BY <1>t DEF HandlerStates, HandlerRecords
  <2> HIDE DEF x
  <2>5. ASSUME handler[h].id \notin disturbed PROVE ReadHolds(x, x.id)
    <3>1. byId[handler[h].id] = handler[h].key
      BY <2>1, <2>5, <1>id, <1>q DEF QuietTenant, ReadHolds, HoldsKey
    <3> QED
      BY <2>4, <3>1 DEF ReadHolds
  <2> QED
    BY <2>1, <2>3, <2>4, <2>5, <1>id, <1>step
\* A pipe for another tenant.
<1>pipe. ASSUME NEW h \in Handlers, handler[h].pc \in WritePcs, NEW n \in 0 .. Len(Pipe(h)), Apply(h, n),
                NEW x, handler' = [handler EXCEPT ![h] = x], x.id \in {handler[h].id, None},
                NEW t \in TenantIds, t \notin disturbed, t # handler[h].id, issued'[t] = issued[t]
         PROVE  QuietTenant(t)'
  <2>1. Minted /\ QuietTenant(t)
    BY <1>pipe, <1>q DEF IsolationInv
  <2>2. byId'[t] = byId[t] /\ \A k \in Keys : owner[k] = t => byKey'[k] = byKey[k]
    BY <1>pipe, <2>1, ApplyIsLocal
  <2>3. \A k \in Keys : byKey'[k] = byKey[k] \/ byKey'[k] = None \/
                          (handler[h].pc # "drop" /\ byKey'[k] = handler[h].record)
    BY <1>pipe, <2>1, ApplyIsLocal
  <2>4. handler[h].pc # "drop" => handler[h].record.id # t
    BY <1>pipe, <2>1 DEF Minted, MintedFor, HoldsRecord, WritePcs
  <2>5. \A g \in Handlers : handler'[g] = handler[g] \/ (handler[g].id # t /\ handler'[g].id # t)
    BY <1>pipe, <1>t
  <2> QED
    BY <1>pipe, <2>1, <2>2, <2>3, <2>4, <2>5, QuietElsewhere
<1>9. ASSUME NEW h \in Handlers, Write(h) PROVE QuietInv'
  <2> SUFFICES ASSUME NEW t \in TenantIds, t \notin disturbed PROVE QuietTenant(t)'
    BY <1>9 DEF QuietInv, Write
  <2>1. CASE t = handler[h].id
    BY <1>9, <2>1, <1>q, QuietWrite
  <2>2. CASE t # handler[h].id
    <3> DEFINE x == [IdleHandler EXCEPT !.pc = "invalidate", !.id = handler[h].id,
                        !.next = IF handler[h].pc \in {"create", "replace"} THEN handler[h].next ELSE None]
    <3>1. handler' = [handler EXCEPT ![h] = x] /\ handler[h].pc \in WritePcs /\ x.id = handler[h].id
      BY <1>9 DEF Write, IdleHandler
    <3>2. PICK n \in 0 .. Len(Pipe(h)) : Apply(h, n)
      BY <1>9, <3>1, PipeShape DEF Write
    <3>3. issued'[t] = issued[t]
      BY <1>9, <2>2, <1>t DEF Write
    <3> HIDE DEF x
    <3> QED
      BY <2>2, <3>1, <3>2, <3>3, <1>pipe
  <2> QED
    BY <2>1, <2>2
<1>10. ASSUME NEW h \in Handlers, WriteFails(h) PROVE QuietInv'
  <2> SUFFICES ASSUME NEW t \in TenantIds, t \notin disturbed' PROVE QuietTenant(t)'
    BY DEF QuietInv
  <2>1. t \notin disturbed /\ t # handler[h].id /\ issued'[t] = issued[t]
    BY <1>10 DEF WriteFails, Disturb
  <2>2. PICK n \in 0 .. Len(Pipe(h)) : Apply(h, n)
    BY <1>10 DEF WriteFails
  <2>3. handler[h].pc \in WritePcs /\ handler' = [handler EXCEPT ![h] = IdleHandler] /\ IdleHandler.id = None
    BY <1>10 DEF WriteFails, Finish, IdleHandler
  <2> QED
    BY <2>1, <2>2, <2>3, <1>pipe
<1>11. ASSUME NEW h \in Handlers, ReadFails(h) PROVE QuietInv'
  BY <1>11, <1>fin DEF ReadFails
<1>12. ASSUME NEW h \in Handlers, Invalidate(h) PROVE QuietInv'
  BY <1>12, <1>fin DEF Invalidate
<1>13. CASE UNCHANGED vars
  BY <1>13, <1>same
<1>14. ASSUME NEW h \in Handlers, HandlerSteps(h) PROVE QuietInv'
  BY <1>14, <1>5, <1>6, <1>7, <1>8, <1>9, <1>10, <1>11, <1>12 DEF HandlerSteps
<1> QED
  BY <1>1, <1>2, <1>3, <1>4, <1>13, <1>14 DEF Next

\* A tenant whose requests neither overlapped nor failed has exactly the key
\* that its id index names: no revoked key is left and its key is stored.
THEOREM IndexIsExact == Spec => []IndexAgrees
<1>1. TenantsShape /\ IsolationInv /\ QuietInv /\ [Next]_vars => (TenantsShape /\ IsolationInv /\ QuietInv)'
  BY NextShape, NextIsolation, NextQuiet DEF IsolationInv
<1>2. QuietInv => IndexAgrees
  BY DEF QuietInv, QuietTenant, IndexAgrees
<1> QED
  BY InitShape, InitIsolation, InitQuiet, <1>1, <1>2, PTL DEF Spec

\* The JWT secret such a tenant was told last is the one its record holds.
THEOREM SecretIsStored == Spec => []IssuedSecretIsStored
<1>1. TenantsShape /\ IsolationInv /\ QuietInv /\ [Next]_vars => (TenantsShape /\ IsolationInv /\ QuietInv)'
  BY NextShape, NextIsolation, NextQuiet DEF IsolationInv
<1>2. QuietInv => IssuedSecretIsStored
  BY DEF QuietInv, QuietTenant, IssuedSecretIsStored
<1> QED
  BY InitShape, InitIsolation, InitQuiet, <1>1, <1>2, PTL DEF Spec

-----------------------------------------------------------------------------
(* What is cached is what is stored.                                       *)

\* Nothing is cached at the start.
LEMMA InitCache == Init => CacheInv
BY DEF Init, CacheInv, Current, Miss, IdleResolver

\* A lookup caches what it fetched; a write is followed by an invalidation, which
\* drops every entry and overtakes the lookups of the tenant written.
LEMMA NextCache == TenantsShape /\ IsolationInv /\ CacheInv /\ [Next]_vars => CacheInv'
<1> SUFFICES ASSUME TenantsShape, IsolationInv, CacheInv, [Next]_vars PROVE CacheInv'
  OBVIOUS
<1> DEFINE Goal == CacheInv'
<1> SUFFICES Goal
  OBVIOUS
<1> HIDE DEF Goal
<1> USE TenantsDistinct
<1>t. /\ byKey \in [Keys -> StoredRecords]
      /\ cache \in [Keys -> [hit : BOOLEAN, value : StoredRecords]]
      /\ owner \in [Keys -> TenantIds \cup {None}]
      /\ handler \in [Handlers -> HandlerStates]
      /\ resolver \in [Resolvers -> ResolverStates]
  BY DEF TenantsShape, TenantsTypeOK
<1>rec. \A v \in StoredRecords : v # None => v.id \in TenantIds /\ v.id # None
  BY DEF StoredRecords, TenantRecords
<1>i. /\ \A k \in Keys : cache[k].value # None => cache[k].value.id = owner[k] /\ owner[k] # None
      /\ \A r \in Resolvers : resolver[r].fetched # None =>
            /\ resolver[r].key \in Keys
            /\ resolver[r].fetched.id = owner[resolver[r].key] /\ owner[resolver[r].key] # None
  <2>1. \A k \in Keys : cache[k].value \in StoredRecords
    BY <1>t
  <2>2. \A r \in Resolvers : /\ resolver[r].fetched \in StoredRecords
                             /\ resolver[r].fetched # None => resolver[r].key \in Keys
    BY <1>t DEF ResolverStates, ResolverRecords
  <2> QED
    BY <2>1, <2>2, <1>rec DEF IsolationInv, TenantIsolation
<1>own. \A k \in Keys : owner[k] # None => owner'[k] = owner[k]
  BY OwnerIsKept
\* What was current stays so when neither its record nor the requests about to
\* invalidate change.
<1>keep. ASSUME NEW k \in Keys, NEW v, owner[k] # None, Current(v, k), byKey'[k] = byKey[k],
                AboutToInvalidate(owner[k]) => \E h \in Handlers : handler'[h].pc = "invalidate"
                                                                /\ handler'[h].id = owner[k]
         PROVE  v \in {None, byKey'[k]} \/ \E h \in Handlers : handler'[h].pc = "invalidate"
                                                             /\ handler'[h].id = owner'[k]
  BY <1>keep, <1>own DEF Current
<1>goal. ASSUME \A k \in Keys \ outdated' :
                   cache'[k].value \in {None, byKey'[k]}
                   \/ \E h \in Handlers : handler'[h].pc = "invalidate" /\ handler'[h].id = owner'[k],
                \A r \in Resolvers \ overtaken' : resolver'[r].fetched # None =>
                   resolver'[r].fetched \in {None, byKey'[resolver'[r].key]}
                   \/ \E h \in Handlers : handler'[h].pc = "invalidate"
                                         /\ handler'[h].id = owner'[resolver'[r].key]
         PROVE  Goal
  BY <1>goal, Zenon DEF Goal, CacheInv, Current, AboutToInvalidate
\* A step that writes no record and whose requests keep their invalidations.
<1>quiet. ASSUME byKey' = byKey,
                 \A h \in Handlers : handler[h].pc = "invalidate" => handler'[h] = handler[h],
                 \A k \in Keys \ outdated' :
                    \/ cache'[k].value = None
                    \/ k \notin outdated /\ cache'[k] = cache[k]
                    \/ \E r \in Resolvers \ overtaken :
                          resolver[r].key = k /\ resolver[r].fetched = cache'[k].value,
                 \A r \in Resolvers \ overtaken' :
                    \/ resolver'[r].fetched = None
                    \/ r \notin overtaken /\ resolver'[r] = resolver[r]
                    \/ resolver'[r].fetched = byKey[resolver'[r].key]
          PROVE  Goal
  <2>1. \A t : AboutToInvalidate(t) => \E h \in Handlers : handler'[h].pc = "invalidate" /\ handler'[h].id = t
    BY <1>quiet DEF AboutToInvalidate
  <2>2. ASSUME NEW k \in Keys \ outdated', cache'[k].value # None
        PROVE  Current(cache'[k].value, k) /\ owner[k] # None
    <3>1. CASE k \notin outdated /\ cache'[k] = cache[k]
      BY <3>1, <2>2, <1>i DEF CacheInv
    <3>2. ASSUME NEW r \in Resolvers \ overtaken, resolver[r].key = k, resolver[r].fetched = cache'[k].value
          PROVE  Current(cache'[k].value, k) /\ owner[k] # None
      BY <3>2, <2>2, <1>i DEF CacheInv
    <3> QED
      BY <3>1, <3>2, <2>2, <1>quiet
  <2>3. ASSUME NEW r \in Resolvers \ overtaken', resolver'[r].fetched # None,
               resolver'[r].fetched # byKey[resolver'[r].key]
        PROVE  /\ resolver'[r].key \in Keys /\ owner[resolver'[r].key] # None
               /\ Current(resolver'[r].fetched, resolver'[r].key)
    BY <2>3, <1>quiet, <1>i DEF CacheInv
  <2>4. \A k \in Keys \ outdated' :
           cache'[k].value \in {None, byKey'[k]}
           \/ \E h \in Handlers : handler'[h].pc = "invalidate" /\ handler'[h].id = owner'[k]
    <3> SUFFICES ASSUME NEW k \in Keys \ outdated', cache'[k].value # None
                 PROVE  cache'[k].value \in {None, byKey'[k]}
                        \/ \E h \in Handlers : handler'[h].pc = "invalidate" /\ handler'[h].id = owner'[k]
      OBVIOUS
    <3> PICK v : v = cache'[k].value
      OBVIOUS
    <3>1. Current(v, k) /\ owner[k] # None /\ byKey'[k] = byKey[k]
      BY <2>2, <1>quiet
    <3> QED
      BY <3>1, <2>1, <1>keep
  <2>5. \A r \in Resolvers \ overtaken' : resolver'[r].fetched # None =>
           resolver'[r].fetched \in {None, byKey'[resolver'[r].key]}
           \/ \E h \in Handlers : handler'[h].pc = "invalidate"
                                 /\ handler'[h].id = owner'[resolver'[r].key]
    <3> SUFFICES ASSUME NEW r \in Resolvers \ overtaken', resolver'[r].fetched # None
                 PROVE  resolver'[r].fetched \in {None, byKey'[resolver'[r].key]}
                        \/ \E h \in Handlers : handler'[h].pc = "invalidate"
                                              /\ handler'[h].id = owner'[resolver'[r].key]
      OBVIOUS
    <3>1. CASE resolver'[r].fetched = byKey[resolver'[r].key]
      BY <3>1, <1>quiet
    <3>2. CASE resolver'[r].fetched # byKey[resolver'[r].key]
      <4> PICK v, k : v = resolver'[r].fetched /\ k = resolver'[r].key
        OBVIOUS
      <4>1. k \in Keys /\ Current(v, k) /\ owner[k] # None /\ byKey'[k] = byKey[k]
        BY <2>3, <3>2, <1>quiet
      <4>2. v \in {None, byKey'[k]} \/ \E h \in Handlers : handler'[h].pc = "invalidate"
                                                         /\ handler'[h].id = owner'[k]
        BY <4>1, <2>1, <1>keep
      <4> QED
        BY <4>2
    <3> QED
      BY <3>1, <3>2
  <2> QED
    BY <2>4, <2>5, <1>goal
\* Most steps also leave the cache, the lookups and their history alone.
<1>same. ASSUME byKey' = byKey, cache' = cache, resolver' = resolver, overtaken' = overtaken,
                outdated' = outdated,
                \A h \in Handlers : handler[h].pc = "invalidate" => handler'[h] = handler[h]
         PROVE  Goal
  BY <1>same, <1>quiet
<1>one. ASSUME NEW h \in Handlers, handler[h].pc # "invalidate", NEW y, handler' = [handler EXCEPT ![h] = y]
        PROVE  \A g \in Handlers : handler[g].pc = "invalidate" => handler'[g] = handler[g]
  BY <1>one, <1>t
<1>fin. ASSUME NEW h \in Handlers, handler[h].pc # "invalidate", Finish(h)
        PROVE  \A g \in Handlers : handler[g].pc = "invalidate" => handler'[g] = handler[g]
  BY <1>fin, <1>t DEF Finish
<1>1. ASSUME NEW r \in Resolvers, NEW k \in Keys, Resolve(r, k) PROVE Goal
  <2>1. \A q \in Resolvers : resolver'[q] = resolver[q] \/ resolver'[q].fetched = None
    BY <1>1, <1>t DEF Resolve
  <2>2. UNCHANGED <<byKey, cache, handler, overtaken, outdated>>
    BY <1>1 DEF Resolve, redisVars, historyVars
  <2> QED
    BY <2>1, <2>2, <1>quiet
<1>2. ASSUME NEW r \in Resolvers, FetchByHash(r) PROVE Goal
  <2>0. resolver[r].key \in Keys /\ resolver[r].fetched = None /\ resolver[r] \in ResolverRecords
    BY <1>2, <1>t DEF FetchByHash, ResolverStates
  <2>1. /\ \A q \in Resolvers \ {r} : resolver'[q] = resolver[q]
        /\ resolver'[r].key = resolver[r].key
        /\ resolver'[r].fetched \in {byKey[resolver[r].key], None}
    BY <1>2, <2>0, <1>t DEF FetchByHash, ResolverRecords
  <2>2. UNCHANGED <<byKey, cache, handler, overtaken, outdated>>
    BY <1>2 DEF FetchByHash, redisVars, historyVars
  <2> QED
    BY <2>1, <2>2, <1>quiet
<1>3. ASSUME NEW r \in Resolvers, CachePut(r) PROVE Goal
  <2>1. \A k \in Keys : k # resolver[r].key => cache'[k] = cache[k]
    BY <1>3, <1>t DEF CachePut
  <2>2. \A k \in Keys : k = resolver[r].key => cache'[k].value = resolver[r].fetched
    BY <1>3, <1>t DEF CachePut, Hit
  <2>3. \A q \in Resolvers : (q # r /\ resolver'[q] = resolver[q]) \/ resolver'[q].fetched = None
    BY <1>3, <1>t DEF CachePut, IdleResolver
  <2>4. /\ UNCHANGED <<byKey, handler>>
        /\ overtaken' = overtaken \ {r}
        /\ outdated' = IF r \in overtaken THEN outdated \cup {resolver[r].key}
                                         ELSE outdated \ {resolver[r].key}
    BY <1>3 DEF CachePut, redisVars
  <2>5. \A k \in Keys \ outdated' :
            \/ k \notin outdated /\ cache'[k] = cache[k]
            \/ r \notin overtaken /\ resolver[r].key = k /\ resolver[r].fetched = cache'[k].value
    BY <2>1, <2>2, <2>4
  <2> QED
    BY <2>3, <2>4, <2>5, <1>quiet
<1>4. ASSUME NEW k \in Keys, CacheExpires(k) PROVE Goal
  <2>1. \A j \in Keys : (j # k /\ cache'[j] = cache[j]) \/ cache'[j].value = None
    BY <1>4, <1>t DEF CacheExpires, Miss
  <2>2. UNCHANGED <<byKey, handler, resolver, overtaken>> /\ outdated' = outdated \ {k}
    BY <1>4 DEF CacheExpires, redisVars
  <2> QED
    BY <2>1, <2>2, <1>quiet
<1>5. ASSUME NEW h \in Handlers, NEW t \in TenantIds, NEW k \in Keys, NEW e \in Emails \cup {None},
             NEW s \in Secrets \cup {None}, CreateTenant(h, t, k, e, s)
      PROVE  Goal
  <2>1. handler[h].pc = "idle" /\ \E y : handler' = [handler EXCEPT ![h] = y]
    BY <1>5 DEF CreateTenant, Begin
  <2>2. UNCHANGED <<byKey, cache, resolver, overtaken, outdated>>
    BY <1>5 DEF CreateTenant, redisVars
  <2> QED
    BY <2>1, <2>2, <1>one, <1>same
<1>6. ASSUME NEW h \in Handlers, NEW t \in TenantIds, NEW op \in {"rotate", "jwt", "delete"}, ReadIndex(h, t, op)
      PROVE  Goal
  <2>1. UNCHANGED <<byKey, cache, resolver, overtaken, outdated>>
    BY <1>6 DEF ReadIndex, redisVars, historyVars, vars
  <2>2. handler' = handler \/ (handler[h].pc = "idle" /\ \E y : handler' = [handler EXCEPT ![h] = y])
    BY <1>6 DEF ReadIndex, Begin, vars
  <2> QED
    BY <2>1, <2>2, <1>one, <1>same
<1>7. ASSUME NEW h \in Handlers, RotateFetch(h) PROVE Goal
  <2>1. UNCHANGED <<byKey, cache, resolver, overtaken, outdated>> /\ handler[h].pc = "rotate"
    BY <1>7, RotateOutcome DEF redisVars
  <2>2. \A g \in Handlers : handler[g].pc = "invalidate" => handler'[g] = handler[g]
    <3>1. CASE Finish(h)
      BY <2>1, <3>1, <1>fin
    <3>2. CASE ~Finish(h)
      <4>1. PICK k \in Fresh : handler' = [handler EXCEPT ![h].pc = "replace", ![h].next = k,
                                                      ![h].record = byKey[handler[h].key]]
        BY <1>7, <3>2, Zenon DEF RotateFetch
      <4> QED
        BY <2>1, <4>1, <1>t
    <3> QED
      BY <3>1, <3>2
  <2> QED
    BY <2>1, <2>2, <1>same
<1>8. ASSUME NEW h \in Handlers, NEW s \in Secrets, JwtFetch(h, s) PROVE Goal
  <2>1. UNCHANGED <<byKey, cache, resolver, overtaken, outdated>>
    BY <1>8 DEF JwtFetch, redisVars, historyVars
  <2>2. \A g \in Handlers : handler[g].pc = "invalidate" => handler'[g] = handler[g]
    BY <1>8, <1>t DEF JwtFetch, Finish
  <2> QED
    BY <2>1, <2>2, <1>same
<1>9. ASSUME NEW h \in Handlers, UpdateIndex(h) PROVE Goal
  <2>1. UNCHANGED <<byKey, cache, resolver, overtaken, outdated>>
    BY <1>9 DEF UpdateIndex, redisVars, historyVars
  <2>2. \A g \in Handlers : handler[g].pc = "invalidate" => handler'[g] = handler[g]
    BY <1>9, <1>t DEF UpdateIndex, Finish
  <2> QED
    BY <2>1, <2>2, <1>same
<1>10. ASSUME NEW h \in Handlers, DeleteFetch(h) PROVE Goal
  <2>1. UNCHANGED <<byKey, cache, resolver, overtaken, outdated>>
    BY <1>10 DEF DeleteFetch, redisVars, historyVars
  <2>2. \A g \in Handlers : handler[g].pc = "invalidate" => handler'[g] = handler[g]
    BY <1>10, <1>t DEF DeleteFetch
  <2> QED
    BY <2>1, <2>2, <1>same
<1>11. ASSUME NEW h \in Handlers, Write(h) PROVE Goal
  <2> PICK t : t = handler[h].id
    OBVIOUS
  <2>0. handler[h].pc \in WritePcs /\ handler[h].pc # "invalidate"
    BY <1>11 DEF Write, WritePcs
  <2>1. Len(Pipe(h)) \in 0 .. Len(Pipe(h)) /\ Apply(h, Len(Pipe(h)))
    BY <1>11, <2>0, PipeShape DEF Write
  <2>2. \A k \in Keys : byKey'[k] # byKey[k] => owner[k] = t
    BY <2>0, <2>1, ApplyIsLocal DEF IsolationInv
  <2>3. UNCHANGED <<cache, resolver, owner, overtaken, outdated>>
    BY <1>11 DEF Write
  <2>4. /\ handler'[h].pc = "invalidate" /\ handler'[h].id = t
        /\ \A g \in Handlers : handler[g].pc = "invalidate" => handler'[g] = handler[g]
    BY <1>11, <2>0, <1>t DEF Write, IdleHandler
  <2>5. ASSUME NEW k \in Keys, NEW v, owner[k] # None, Current(v, k)
        PROVE  v \in {None, byKey'[k]} \/ \E g \in Handlers : handler'[g].pc = "invalidate"
                                                           /\ handler'[g].id = owner'[k]
    <3>1. CASE owner[k] = t
      BY <3>1, <2>3, <2>4
    <3>2. CASE owner[k] # t
      <4>1. AboutToInvalidate(owner[k]) => \E g \in Handlers : handler'[g].pc = "invalidate"
                                                             /\ handler'[g].id = owner[k]
        BY <2>4 DEF AboutToInvalidate
      <4> QED
        BY <2>2, <2>5, <3>2, <4>1, <1>keep
    <3> QED
      BY <3>1, <3>2
  <2>6. \A k \in Keys \ outdated' :
           cache'[k].value \in {None, byKey'[k]}
           \/ \E g \in Handlers : handler'[g].pc = "invalidate" /\ handler'[g].id = owner'[k]
    <3> SUFFICES ASSUME NEW k \in Keys \ outdated, cache[k].value # None
                 PROVE  cache[k].value \in {None, byKey'[k]}
                        \/ \E g \in Handlers : handler'[g].pc = "invalidate" /\ handler'[g].id = owner'[k]
      BY <2>3
    <3>1. Current(cache[k].value, k) /\ owner[k] # None
      BY <1>i DEF CacheInv
    <3> QED
      BY <3>1, <2>5
  <2>7. \A r \in Resolvers \ overtaken' : resolver'[r].fetched # None =>
           resolver'[r].fetched \in {None, byKey'[resolver'[r].key]}
           \/ \E g \in Handlers : handler'[g].pc = "invalidate"
                                 /\ handler'[g].id = owner'[resolver'[r].key]
    <3> SUFFICES ASSUME NEW r \in Resolvers \ overtaken, resolver[r].fetched # None
                 PROVE  resolver[r].fetched \in {None, byKey'[resolver[r].key]}
                        \/ \E g \in Handlers : handler'[g].pc = "invalidate"
                                              /\ handler'[g].id = owner'[resolver[r].key]
      BY <2>3
    <3>1. /\ resolver[r].key \in Keys /\ owner[resolver[r].key] # None
          /\ Current(resolver[r].fetched, resolver[r].key)
      BY <1>i DEF CacheInv
    <3> QED
      BY <3>1, <2>5
  <2> QED
    BY <2>6, <2>7, <1>goal
<1>12. ASSUME NEW h \in Handlers, WriteFails(h) PROVE Goal
  <2> PICK t : t = handler[h].id
    OBVIOUS
  <2>0. handler[h].pc \in WritePcs /\ handler[h].pc # "invalidate"
    BY <1>12 DEF WriteFails, WritePcs
  <2>1. PICK n \in 0 .. Len(Pipe(h)) : Apply(h, n)
    BY <1>12 DEF WriteFails
  <2>2. \A k \in Keys : byKey'[k] # byKey[k] => owner[k] = t
    BY <2>0, <2>1, ApplyIsLocal DEF IsolationInv
  <2>3. /\ UNCHANGED <<cache, resolver, owner>>
        /\ overtaken' = overtaken \cup Fetched(t)
        /\ outdated' = outdated \cup {k \in Keys : cache[k].value # None /\ cache[k].value.id = t}
    BY <1>12 DEF WriteFails
  <2>4. \A g \in Handlers : handler[g].pc = "invalidate" => handler'[g] = handler[g]
    BY <1>12, <2>0, <1>fin DEF WriteFails
  <2>5. ASSUME NEW k \in Keys, NEW v, owner[k] # None, owner[k] # t, Current(v, k)
        PROVE  v \in {None, byKey'[k]} \/ \E g \in Handlers : handler'[g].pc = "invalidate"
                                                           /\ handler'[g].id = owner'[k]
    <3>1. AboutToInvalidate(owner[k]) => \E g \in Handlers : handler'[g].pc = "invalidate"
                                                           /\ handler'[g].id = owner[k]
      BY <2>4 DEF AboutToInvalidate
    <3> QED
      BY <2>2, <2>5, <3>1, <1>keep
  <2>6. \A k \in Keys \ outdated' :
           cache'[k].value \in {None, byKey'[k]}
           \/ \E g \in Handlers : handler'[g].pc = "invalidate" /\ handler'[g].id = owner'[k]
    <3> SUFFICES ASSUME NEW k \in Keys \ outdated', cache[k].value # None
                 PROVE  cache[k].value \in {None, byKey'[k]}
                        \/ \E g \in Handlers : handler'[g].pc = "invalidate" /\ handler'[g].id = owner'[k]
      BY <2>3
    <3>1. k \notin outdated /\ cache[k].value.id # t
      BY <2>3
    <3>2. Current(cache[k].value, k) /\ owner[k] # None /\ owner[k] # t
      BY <3>1, <1>i DEF CacheInv
    <3> QED
      BY <3>2, <2>5
  <2>7. \A r \in Resolvers \ overtaken' : resolver'[r].fetched # None =>
           resolver'[r].fetched \in {None, byKey'[resolver'[r].key]}
           \/ \E g \in Handlers : handler'[g].pc = "invalidate"
                                 /\ handler'[g].id = owner'[resolver'[r].key]
    <3> SUFFICES ASSUME NEW r \in Resolvers \ overtaken', resolver[r].fetched # None
                 PROVE  resolver[r].fetched \in {None, byKey'[resolver[r].key]}
                        \/ \E g \in Handlers : handler'[g].pc = "invalidate"
                                              /\ handler'[g].id = owner'[resolver[r].key]
      BY <2>3
    <3>1. r \notin overtaken /\ resolver[r].fetched.id # t
      BY <2>3 DEF Fetched
    <3>2. /\ resolver[r].key \in Keys /\ owner[resolver[r].key] # None /\ owner[resolver[r].key] # t
          /\ Current(resolver[r].fetched, resolver[r].key)
      BY <3>1, <1>i DEF CacheInv
    <3> QED
      BY <3>2, <2>5
  <2> QED
    BY <2>6, <2>7, <1>goal
<1>13. ASSUME NEW h \in Handlers, ReadFails(h) PROVE Goal
  <2>1. UNCHANGED <<byKey, cache, resolver, overtaken, outdated>>
    BY <1>13 DEF ReadFails, redisVars, historyVars
  <2>2. \A g \in Handlers : handler[g].pc = "invalidate" => handler'[g] = handler[g]
    BY <1>13, <1>fin DEF ReadFails
  <2> QED
    BY <2>1, <2>2, <1>same
<1>14. ASSUME NEW h \in Handlers, Invalidate(h) PROVE Goal
  <2> PICK t : t = handler[h].id
    OBVIOUS
  <2>1. /\ \A k \in Keys : cache'[k].value = None
        /\ UNCHANGED <<byKey, resolver, owner>>
        /\ overtaken' = overtaken \cup Fetched(t)
    BY <1>14 DEF Invalidate, Miss, redisVars
  <2>2. \A g \in Handlers \ {h} : handler'[g] = handler[g]
    BY <1>14, <1>t DEF Invalidate, Finish
  <2>3. \A r \in Resolvers \ overtaken' : resolver'[r].fetched # None =>
           resolver'[r].fetched \in {None, byKey'[resolver'[r].key]}
           \/ \E g \in Handlers : handler'[g].pc = "invalidate"
                                 /\ handler'[g].id = owner'[resolver'[r].key]
    <3> SUFFICES ASSUME NEW r \in Resolvers \ overtaken', resolver[r].fetched # None
                 PROVE  resolver[r].fetched \in {None, byKey'[resolver[r].key]}
                        \/ \E g \in Handlers : handler'[g].pc = "invalidate"
                                              /\ handler'[g].id = owner'[resolver[r].key]
      BY <2>1
    <3>1. r \notin overtaken /\ resolver[r].fetched.id # t
      BY <2>1 DEF Fetched
    <3> PICK k \in Keys : k = resolver[r].key
      BY <1>i
    <3>2. owner[k] # None /\ owner[k] # t /\ Current(resolver[r].fetched, k)
      BY <3>1, <1>i DEF CacheInv
    <3>3. AboutToInvalidate(owner[k]) => \E g \in Handlers : handler'[g].pc = "invalidate"
                                                           /\ handler'[g].id = owner[k]
      BY <2>2, <3>2 DEF AboutToInvalidate
    <3> QED
      BY <2>1, <3>2, <3>3, <1>keep
  <2> QED
    BY <2>1, <2>3, <1>goal
<1>15. CASE UNCHANGED vars
  BY <1>15, <1>same DEF vars, redisVars, historyVars
<1>16. ASSUME NEW h \in Handlers, HandlerSteps(h) PROVE Goal
  BY <1>16, <1>7, <1>8, <1>9, <1>10, <1>11, <1>12, <1>13, <1>14, Zenon DEF HandlerSteps
<1> QED
  BY <1>1, <1>2, <1>3, <1>4, <1>5, <1>6, <1>15, <1>16, Zenon DEF Next, ResolverSteps

\* resolve_api_key grants no record but the one stored once the cache was dropped,
\* except for lookups in flight and after failed writes, however requests overlap.
THEOREM CacheIsCurrent == Spec => []CachedIsCurrent
<1>1. TenantsShape /\ IsolationInv /\ [Next]_vars => TenantsShape' /\ IsolationInv'
  BY NextShape, NextIsolation DEF IsolationInv
<1>2. CacheInv => CachedIsCurrent
  BY DEF CacheInv, CachedIsCurrent, Current
<1> QED
  BY InitShape, InitIsolation, InitCache, NextCache, <1>1, <1>2, PTL DEF Spec
=============================================================================
