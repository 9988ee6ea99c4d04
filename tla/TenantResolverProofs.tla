------------------------ MODULE TenantResolverProofs ------------------------
(* Proofs about TenantResolver, for any numbers of replicas, hosts, lookups *)
(* and writers, any time to live and any latency: the types, and the two    *)
(* bounds on how long a replica can answer with a value that was replaced.  *)
EXTENDS TenantResolver, TLAPS

(* A value is the row's, or was replaced at most so long ago.               *)
Fresh(value, bound) == Current(value) \/ age[value.rev] <= bound

(* The row's revision has not been replaced.                                *)
RowOk ==
  /\ tenant \in Row /\ tenant.rev <= MaxRevision
  /\ age \in [0..MaxRevision -> 0..Horizon]
  /\ \A n \in 0..MaxRevision : n >= tenant.rev => age[n] = 0
  /\ disturbed \in BOOLEAN

(* What a lookup has read of the row can have become stale since it began;  *)
(* what it has found in Redis was live there.                               *)
LookupOk(k) ==
  /\ k \in LookupState
  /\ k.pc # "idle" => k.replica \in Replicas /\ k.host \in Hosts
  /\ k.value.rev <= tenant.rev
  /\ k.taken <= MaxLatency
  /\ k.pc \in {"row", "set"} => Fresh(k.value, k.taken)
  /\ k.pc = "found" =>
       /\ Fresh(k.value, Ttl + MaxLatency - 1 + k.taken)
       /\ disturbed \/ Fresh(k.value, MaxLatency + k.taken)

WriterOk(k) == k \in WriterState /\ k.taken <= MaxLatency

(* The writer that has replaced the value is about to delete the entry.     *)
Pending(h, value) ==
  \E w \in Writers : /\ writer[w].pc = "invalidate"
                     /\ h \in writer[w].todo
                     /\ age[value.rev] <= writer[w].taken

(* A stale value enters Redis within the latency; while nothing was         *)
(* disturbed, it was there before the change and is about to leave.         *)
RedisOk(h, e) ==
  /\ e \in Entry
  /\ e.value.rev <= tenant.rev
  /\ e.left <= Ttl
  /\ Live(e) =>
       /\ Fresh(e.value, Ttl + MaxLatency - e.left)
       /\ disturbed \/ Current(e.value) \/ Pending(h, e.value)

LocalOk(e) ==
  /\ e \in Entry
  /\ e.value.rev <= tenant.rev
  /\ e.left <= Ttl
  /\ Live(e) =>
       /\ Fresh(e.value, 2 * Ttl + 2 * MaxLatency - 1 - e.left)
       /\ disturbed \/ Fresh(e.value, Ttl + 2 * MaxLatency - e.left)

Inv ==
  /\ RowOk
  /\ redis \in [Hosts -> Entry]
  /\ local \in [Replicas -> [Hosts -> Entry]]
  /\ lookup \in [Lookups -> LookupState]
  /\ writer \in [Writers -> WriterState]
  /\ \A r \in Lookups : LookupOk(lookup[r])
  /\ \A w \in Writers : WriterOk(writer[w])
  /\ \A h \in Hosts : RedisOk(h, redis[h])
  /\ \A p \in Replicas, h \in Hosts : LocalOk(local[p][h])

---------------------------------------------------------------------------
(* The constants of the state. *)

(* The idle states have their types. *)
LEMMA IdleTypes ==
  /\ NoRow \in Row /\ NoEntry \in Entry /\ IdleWriter \in WriterState
  /\ IdleLookup \in LookupState
  /\ IdleLookup.pc = "idle" /\ IdleLookup.value = NoRow /\ IdleLookup.taken = 0
  /\ NoEntry.value = NoRow /\ NoEntry.left = 0 /\ NoRow.rev = 0
<1>1. NoRow \in Row
  BY DEF NoRow, Row, Statuses
<1>2. NoEntry \in Entry
  BY <1>1 DEF NoEntry, Entry
<1>3. IdleWriter \in WriterState
  BY DEF IdleWriter, WriterState, Operations, Statuses
<1>4. IdleLookup \in LookupState
  BY <1>1 DEF IdleLookup, LookupState
<1>5. IdleLookup.pc = "idle" /\ IdleLookup.value = NoRow /\ IdleLookup.taken = 0
  BY DEF IdleLookup
<1>6. NoEntry.value = NoRow /\ NoEntry.left = 0 /\ NoRow.rev = 0
  BY DEF NoEntry, NoRow
<1> QED
  BY <1>1, <1>2, <1>3, <1>4, <1>5, <1>6

(* An entry lives for at least a tick and at most the time to live.         *)
LEMMA FillTtlBound ==
  ASSUME NEW value \in Row
  PROVE  FillTtl(value) \in 1..Ttl
BY ConstantsAssumption DEF FillTtl, MissTtl

(* Nothing is wrong with what is empty.                                     *)
LEMMA EmptyOk ==
  ASSUME RowOk
  PROVE  /\ LookupOk(IdleLookup)
         /\ WriterOk(IdleWriter)
         /\ \A h \in Hosts : RedisOk(h, NoEntry)
         /\ LocalOk(NoEntry)
<1> USE ConstantsAssumption, IdleTypes
<1>1. tenant.rev \in Nat
  BY DEF RowOk, Row
<1>2. LookupOk(IdleLookup)
  BY <1>1 DEF LookupOk
<1>3. WriterOk(IdleWriter)
  BY DEF WriterOk, IdleWriter
<1>4. (\A h \in Hosts : RedisOk(h, NoEntry)) /\ LocalOk(NoEntry)
  BY <1>1 DEF RedisOk, LocalOk, Live
<1> QED
  BY <1>2, <1>3, <1>4

(* An entry that has just been emptied is fine, whatever the step.          *)
LEMMA EmptiedOk ==
  ASSUME tenant'.rev \in Nat
  PROVE  LocalOk(NoEntry)' /\ \A h \in Hosts : RedisOk(h, NoEntry)'
<1>1. /\ NoEntry \in Entry /\ NoEntry.left = 0
      /\ NoEntry.left <= Ttl /\ NoEntry.value.rev <= tenant'.rev
  BY IdleTypes, ConstantsAssumption
<1>2. ~ Live(NoEntry)
  BY <1>1 DEF Live
<1> QED
  BY <1>1, <1>2 DEF LocalOk, RedisOk

(* The invariant is strong enough.                                          *)
LEMMA InvImplies ==
  ASSUME Inv
  PROVE  TypeOK /\ StaleAtMostTwice /\ StaleAtMostOnce
<1> USE ConstantsAssumption
<1>1. TypeOK
  BY DEF Inv, RowOk, LookupOk, TypeOK
<1>2. ASSUME NEW p \in Replicas, NEW h \in Hosts, Live(local[p][h])
      PROVE  /\ Within(local[p][h].value, 2 * Ttl + 2 * MaxLatency)
             /\ disturbed \/ Within(local[p][h].value, Ttl + 2 * MaxLatency)
  <2> DEFINE e == local[p][h]
  <2>1. LocalOk(e) /\ Live(e)
    BY <1>2 DEF Inv
  <2> HIDE DEF e
  <2>2. e.left \in Nat /\ e.value.rev \in 0..MaxRevision
    <3>1. e.left \in Nat /\ e.value.rev \in Nat /\ e.value.rev <= tenant.rev
      BY <2>1 DEF LocalOk, Entry, Row
    <3>2. tenant.rev \in Nat /\ tenant.rev <= MaxRevision
      BY <1>1 DEF TypeOK, Row
    <3> QED
      BY <3>1, <3>2
  <2>3. age[e.value.rev] \in Nat
    BY <2>2, <1>1 DEF TypeOK
  <2>4. Within(e.value, 2 * Ttl + 2 * MaxLatency)
    BY <2>1, <2>2, <2>3 DEF LocalOk, Live, Fresh, Within
  <2>5. disturbed \/ Within(e.value, Ttl + 2 * MaxLatency)
    BY <2>1, <2>2, <2>3 DEF LocalOk, Live, Fresh, Within
  <2> QED
    BY <2>4, <2>5 DEF e
<1> QED
  BY <1>1, <1>2 DEF StaleAtMostTwice, StaleAtMostOnce, AllWithin

(* Initially everything is empty.                                           *)
LEMMA InitInv ==
  ASSUME Init
  PROVE  Inv
<1> USE ConstantsAssumption
<1>1. tenant \in Row /\ tenant.rev = 0
  BY DEF Init, Row, Statuses, NoRow
<1>2. disturbed \in BOOLEAN
  BY DEF Init
<1>3. RowOk
  BY <1>1, <1>2 DEF Init, RowOk
<1> QED
  BY <1>3, EmptyOk, IdleTypes DEF Init, Inv
---------------------------------------------------------------------------
(* Steps of the lookups, and evictions: the row and the writers stay.       *)

(* While the row and the writers stay, what was right stays right.          *)
LEMMA Kept ==
  ASSUME Inv, UNCHANGED <<tenant, age, writer>>,
         disturbed' \in BOOLEAN, disturbed => disturbed'
  PROVE  /\ RowOk'
         /\ \A k : LookupOk(k) => LookupOk(k)'
         /\ \A h, e : RedisOk(h, e) => RedisOk(h, e)'
         /\ \A e : LocalOk(e) => LocalOk(e)'
         /\ writer' \in [Writers -> WriterState]
         /\ \A w \in Writers : WriterOk(writer[w])'
<1>1. RowOk'
  BY DEF Inv, RowOk
<1>2. \A value, bound : Fresh(value, bound) => Fresh(value, bound)'
  BY DEF Fresh, Current
<1>3. \A k : LookupOk(k) => LookupOk(k)'
  BY <1>2 DEF LookupOk
<1>4. \A h, value : Pending(h, value) => Pending(h, value)'
  BY DEF Pending
<1>5. \A h, e : RedisOk(h, e) => RedisOk(h, e)'
  BY <1>2, <1>4 DEF RedisOk, Live, Current
<1>6. \A e : LocalOk(e) => LocalOk(e)'
  BY <1>2 DEF LocalOk, Live
<1> QED
  BY <1>1, <1>3, <1>5, <1>6 DEF Inv, WriterOk

(* A step that changes one lookup, and perhaps an entry of each tier.       *)
LEMMA CacheStep ==
  ASSUME Inv, UNCHANGED <<tenant, age, writer>>,
         disturbed' \in BOOLEAN, disturbed => disturbed',
         NEW r \in Lookups, NEW k, LookupOk(k),
         lookup' = [lookup EXCEPT ![r] = k],
         NEW p \in Replicas, NEW h \in Hosts,
         NEW e, LocalOk(e),
         local' = local \/ local' = [local EXCEPT ![p][h] = e],
         NEW f, RedisOk(h, f)',
         redis' = redis \/ redis' = [redis EXCEPT ![h] = f]
  PROVE  Inv'
<1>1. lookup' \in [Lookups -> LookupState] /\ \A q \in Lookups : LookupOk(lookup[q])'
  <2>1. k \in LookupState /\ LookupOk(k)'
    BY Kept DEF LookupOk
  <2>2. \A q \in Lookups : lookup'[q] = IF q = r THEN k ELSE lookup[q]
    BY DEF Inv
  <2>3. \A q \in Lookups : LookupOk(lookup[q])'
    BY <2>1, <2>2, Kept DEF Inv, LookupOk
  <2> QED
    BY <2>1, <2>3 DEF Inv
<1>2. /\ local' \in [Replicas -> [Hosts -> Entry]]
      /\ \A q \in Replicas, g \in Hosts : LocalOk(local[q][g])'
  <2>1. e \in Entry /\ LocalOk(e)'
    BY Kept DEF LocalOk
  <2>2. \A q \in Replicas, g \in Hosts : local'[q][g] \in {e, local[q][g]}
    BY DEF Inv
  <2>3. \A q \in Replicas, g \in Hosts : LocalOk(local[q][g])'
    BY <2>1, <2>2, Kept DEF Inv, LocalOk
  <2>4. local' \in [Replicas -> [Hosts -> Entry]]
    <3>1. CASE local' = local
      BY <3>1 DEF Inv
    <3>2. CASE local' = [local EXCEPT ![p][h] = e]
      <4>1. [local[p] EXCEPT ![h] = e] \in [Hosts -> Entry]
        BY <2>1 DEF Inv
      <4> QED
        BY <3>2, <4>1 DEF Inv
    <3> QED
      BY <3>1, <3>2
  <2> QED
    BY <2>3, <2>4
<1>3. redis' \in [Hosts -> Entry] /\ \A g \in Hosts : RedisOk(g, redis[g])'
  <2>1. f \in Entry
    BY DEF RedisOk
  <2>2. \A g \in Hosts : redis'[g] = redis[g] \/ (g = h /\ redis'[g] = f)
    BY DEF Inv
  <2>3. \A g \in Hosts : RedisOk(g, redis[g])'
    BY <2>2, Kept DEF Inv, RedisOk
  <2> QED
    BY <2>1, <2>3 DEF Inv
<1> QED
  BY <1>1, <1>2, <1>3, Kept DEF Inv
(* A step that changes one lookup and nothing else.                         *)
LEMMA LookupStep ==
  ASSUME Inv, NEW r \in Lookups, NEW k, LookupOk(k),
         lookup' = [lookup EXCEPT ![r] = k],
         UNCHANGED <<tenant, age, redis, local, writer, disturbed>>
  PROVE  Inv'
<1>1. PICK p \in Replicas, h \in Hosts : TRUE
  BY ConstantsAssumption
<1>2. disturbed' \in BOOLEAN
  BY DEF Inv, RowOk
<1>3. LocalOk(NoEntry) /\ RedisOk(h, NoEntry)'
  BY <1>2, EmptyOk, Kept DEF Inv
<1> QED
  BY <1>1, <1>2, <1>3, CacheStep

(* What a lookup holds while it goes on.                                    *)
LEMMA LookupFields ==
  ASSUME Inv, NEW r \in Lookups
  PROVE  /\ lookup[r] \in LookupState /\ LookupOk(lookup[r])
         /\ lookup[r].pc # "idle" =>
              lookup[r].replica \in Replicas /\ lookup[r].host \in Hosts
         /\ lookup[r].value \in Row /\ lookup[r].value.rev \in 0..MaxRevision
         /\ lookup[r].taken \in 0..MaxLatency
         /\ age[lookup[r].value.rev] \in Nat
         /\ tenant.rev \in 0..MaxRevision
<1>1. lookup[r] \in LookupState /\ LookupOk(lookup[r])
  BY DEF Inv
<1>2. /\ lookup[r].pc # "idle" =>
           lookup[r].replica \in Replicas /\ lookup[r].host \in Hosts
      /\ lookup[r].value \in Row /\ lookup[r].taken \in Nat
  BY <1>1 DEF LookupState, LookupOk
<1>3. tenant.rev \in 0..MaxRevision
  BY ConstantsAssumption DEF Inv, RowOk, Row
<1>4. lookup[r].value.rev \in 0..MaxRevision
  BY <1>1, <1>2, <1>3, ConstantsAssumption DEF LookupOk, Row
<1>5. lookup[r].taken \in 0..MaxLatency
  BY <1>1, <1>2, ConstantsAssumption DEF LookupOk
<1>6. age[lookup[r].value.rev] \in Nat
  BY <1>4 DEF Inv, RowOk
<1> QED
  BY <1>1, <1>2, <1>3, <1>4, <1>5, <1>6

(* A lookup asks Redis.                                                     *)
LEMMA StepResolve ==
  ASSUME Inv, NEW r \in Lookups, NEW p \in Replicas, NEW h \in Hosts, resolve(r, p, h)
  PROVE  Inv'
<1>1. PICK k : k = [IdleLookup EXCEPT !.pc = "redis", !.replica = p, !.host = h]
  OBVIOUS
<1>2. /\ k \in LookupState /\ k.pc = "redis" /\ k.value = NoRow /\ k.taken = 0
      /\ k.replica = p /\ k.host = h
  BY <1>1, IdleTypes DEF IdleLookup, LookupState
<1>3. LookupOk(k)
  BY <1>2, IdleTypes, LookupFields, ConstantsAssumption DEF LookupOk
<1> QED
  BY <1>1, <1>3, LookupStep DEF resolve

(* Redis answers: what is live there was replaced less than a time to live  *)
(* after a lookup could still write it or, undisturbed, is being deleted.   *)
LEMMA StepGetRedisCached ==
  ASSUME Inv, NEW r \in Lookups, _get_redis_cached(r)
  PROVE  Inv'
<1> DEFINE h == lookup[r].host
           e == redis[h]
<1>1. PICK k : k = [lookup[r] EXCEPT !.pc = "found", !.value = e.value]
  OBVIOUS
<1>2. lookup' = [lookup EXCEPT ![r] = k]
  BY <1>1 DEF _get_redis_cached
<1>3. h \in Hosts /\ RedisOk(h, e) /\ Live(e)
  BY LookupFields DEF Inv, _get_redis_cached
<1> HIDE DEF h, e
<1>4. e.value \in Row /\ e.value.rev \in 0..MaxRevision /\ e.left \in 1..Ttl
  BY <1>3, LookupFields, ConstantsAssumption DEF RedisOk, Entry, Row, Live
<1>5. age[e.value.rev] \in Nat
  BY <1>4 DEF Inv, RowOk
<1>6. /\ k \in LookupState /\ k.pc = "found" /\ k.value = e.value
      /\ k.taken = lookup[r].taken /\ k.replica \in Replicas /\ k.host \in Hosts
  BY <1>1, <1>4, LookupFields DEF LookupState, _get_redis_cached
<1>7. Fresh(e.value, Ttl + MaxLatency - 1 + lookup[r].taken)
  BY <1>3, <1>4, <1>5, LookupFields, ConstantsAssumption DEF RedisOk, Fresh
<1>8. disturbed \/ Fresh(e.value, MaxLatency + lookup[r].taken)
  <2>1. CASE Pending(h, e.value)
    <3>1. PICK w \in Writers : age[e.value.rev] <= writer[w].taken
      BY <2>1 DEF Pending
    <3>2. writer[w].taken \in Nat /\ writer[w].taken <= MaxLatency
      BY DEF Inv, WriterOk, WriterState
    <3> QED
      BY <3>1, <3>2, <1>5, LookupFields, ConstantsAssumption DEF Fresh
  <2> QED
    BY <2>1, <1>3 DEF RedisOk, Fresh
<1>9. LookupOk(k)
  BY <1>3, <1>6, <1>7, <1>8, LookupFields DEF LookupOk, RedisOk
<1> QED
  BY <1>2, <1>9, LookupStep DEF _get_redis_cached
(* A lookup that only moves on keeps what it holds.                         *)
LEMMA StepRedisMiss ==
  ASSUME Inv, NEW r \in Lookups, RedisMiss(r)
  PROVE  Inv'
<1>1. PICK k : k = [lookup[r] EXCEPT !.pc = "query"]
  OBVIOUS
<1>2. lookup' = [lookup EXCEPT ![r] = k]
  BY <1>1 DEF RedisMiss
<1>3. /\ k \in LookupState /\ k.pc = "query" /\ k.value = lookup[r].value
      /\ k.taken = lookup[r].taken /\ k.replica \in Replicas /\ k.host \in Hosts
  BY <1>1, LookupFields DEF LookupState, RedisMiss
<1>4. LookupOk(k)
  BY <1>3, LookupFields DEF LookupOk
<1> QED
  BY <1>2, <1>4, LookupStep DEF RedisMiss

(* The query reads the row.                                                 *)
LEMMA StepQueryTenant ==
  ASSUME Inv, NEW r \in Lookups, _query_tenant(r)
  PROVE  Inv'
<1>1. PICK k : k = [lookup[r] EXCEPT !.pc = "row", !.value = tenant]
  OBVIOUS
<1>2. lookup' = [lookup EXCEPT ![r] = k]
  BY <1>1 DEF _query_tenant
<1>3. tenant \in Row
  BY DEF Inv, RowOk
<1>4. /\ k \in LookupState /\ k.pc = "row" /\ k.value = tenant
      /\ k.taken = lookup[r].taken /\ k.replica \in Replicas /\ k.host \in Hosts
  BY <1>1, <1>3, LookupFields DEF LookupState, _query_tenant
<1>5. LookupOk(k)
  BY <1>4, LookupFields DEF LookupOk, Fresh, Current
<1> QED
  BY <1>2, <1>5, LookupStep DEF _query_tenant

(* What was found in Redis enters the process with a full time to live.     *)
LEMMA StepKeepFound ==
  ASSUME Inv, NEW r \in Lookups, KeepFound(r)
  PROVE  Inv'
<1>0. PICK p \in Replicas, h \in Hosts : p = lookup[r].replica /\ h = lookup[r].host
  BY LookupFields DEF KeepFound
<1>1. PICK e : e = [value |-> lookup[r].value, left |-> Ttl]
  OBVIOUS
<1>2. local' = [local EXCEPT ![p][h] = e]
  BY <1>0, <1>1 DEF KeepFound, SetLocal
<1>3. disturbed' \in BOOLEAN
  BY DEF Inv, RowOk, KeepFound
<1>4. lookup[r].pc = "found"
  BY DEF KeepFound
<1>5. e \in Entry /\ e.value = lookup[r].value /\ e.left = Ttl
  BY <1>1, LookupFields, ConstantsAssumption DEF Entry
<1>6. Fresh(e.value, 2 * Ttl + 2 * MaxLatency - 1 - e.left)
  BY <1>4, <1>5, LookupFields, ConstantsAssumption DEF LookupOk, Fresh
<1>7. disturbed \/ Fresh(e.value, Ttl + 2 * MaxLatency - e.left)
  BY <1>4, <1>5, LookupFields, ConstantsAssumption DEF LookupOk, Fresh
<1>8. LocalOk(e)
  BY <1>5, <1>6, <1>7, LookupFields, ConstantsAssumption DEF LocalOk, LookupOk
<1>9. LookupOk(IdleLookup) /\ RedisOk(h, NoEntry)
  BY EmptyOk DEF Inv
<1>10. RedisOk(h, NoEntry)'
  BY <1>3, <1>9, Kept DEF KeepFound
<1> QED
  BY <1>2, <1>3, <1>8, <1>9, <1>10, CacheStep DEF KeepFound
(* What was read of the row enters the process.                             *)
LEMMA StepKeepRow ==
  ASSUME Inv, NEW r \in Lookups, KeepRow(r)
  PROVE  Inv'
<1>0. PICK p \in Replicas, h \in Hosts : p = lookup[r].replica /\ h = lookup[r].host
  BY LookupFields DEF KeepRow
<1>1. PICK e, k : /\ e = [value |-> lookup[r].value, left |-> FillTtl(lookup[r].value)]
                  /\ k = [lookup[r] EXCEPT !.pc = "set"]
  OBVIOUS
<1>2. local' = [local EXCEPT ![p][h] = e] /\ lookup' = [lookup EXCEPT ![r] = k]
  BY <1>0, <1>1 DEF KeepRow, SetLocal
<1>3. disturbed' \in BOOLEAN
  BY DEF Inv, RowOk, KeepRow
<1>4. lookup[r].pc = "row"
  BY DEF KeepRow
<1>5. FillTtl(lookup[r].value) \in 1..Ttl
  BY FillTtlBound, LookupFields
<1>6. e \in Entry /\ e.value = lookup[r].value /\ e.left \in 1..Ttl
  BY <1>1, <1>5, LookupFields, ConstantsAssumption DEF Entry
<1>7. Fresh(e.value, 2 * Ttl + 2 * MaxLatency - 1 - e.left)
  BY <1>4, <1>6, LookupFields, ConstantsAssumption DEF LookupOk, Fresh
<1>8. Fresh(e.value, Ttl + 2 * MaxLatency - e.left)
  BY <1>4, <1>6, LookupFields, ConstantsAssumption DEF LookupOk, Fresh
<1>9. LocalOk(e)
  BY <1>6, <1>7, <1>8, LookupFields, ConstantsAssumption DEF LocalOk, LookupOk
<1>10. /\ k \in LookupState /\ k.pc = "set" /\ k.value = lookup[r].value
       /\ k.taken = lookup[r].taken /\ k.replica \in Replicas /\ k.host \in Hosts
  BY <1>1, <1>4, LookupFields DEF LookupState
<1>11. LookupOk(k)
  BY <1>4, <1>10, LookupFields DEF LookupOk
<1>12. RedisOk(h, NoEntry)'
  BY <1>3, EmptyOk, Kept DEF Inv, KeepRow
<1> QED
  BY <1>2, <1>3, <1>9, <1>11, <1>12, CacheStep DEF KeepRow

(* What was read of the row enters Redis; when it is stale by then, the     *)
(* writer may have deleted the entry already, which is a disturbance.       *)
LEMMA StepSetRedisCached ==
  ASSUME Inv, NEW r \in Lookups, _set_redis_cached(r)
  PROVE  Inv'
<1>0. PICK p \in Replicas, h \in Hosts : p = lookup[r].replica /\ h = lookup[r].host
  BY LookupFields DEF _set_redis_cached
<1>1. PICK f : f = [value |-> lookup[r].value, left |-> FillTtl(lookup[r].value)]
  OBVIOUS
<1>2. redis' = [redis EXCEPT ![h] = f]
  BY <1>0, <1>1 DEF _set_redis_cached
<1>3. disturbed' \in BOOLEAN /\ (disturbed => disturbed')
  BY DEF Inv, RowOk, _set_redis_cached
<1>4. lookup[r].pc = "set"
  BY DEF _set_redis_cached
<1>5. FillTtl(lookup[r].value) \in 1..Ttl
  BY FillTtlBound, LookupFields
<1>6. f \in Entry /\ f.value = lookup[r].value /\ f.left \in 1..Ttl
  BY <1>1, <1>5, LookupFields, ConstantsAssumption DEF Entry
<1>7. Fresh(f.value, Ttl + MaxLatency - f.left)
  BY <1>4, <1>6, LookupFields, ConstantsAssumption DEF LookupOk, Fresh
<1>8. disturbed' \/ Current(f.value)
  BY <1>6 DEF _set_redis_cached
<1>9. Fresh(f.value, Ttl + MaxLatency - f.left)' /\ (disturbed \/ Current(f.value))'
  BY <1>7, <1>8 DEF Fresh, Current, _set_redis_cached
<1>10. RedisOk(h, f)'
  <2>1. f.value.rev <= tenant'.rev
    BY <1>6, LookupFields DEF LookupOk, _set_redis_cached
  <2>2. f.left <= Ttl
    BY <1>6, ConstantsAssumption
  <2> QED
    BY <1>6, <1>9, <2>1, <2>2 DEF RedisOk
<1>11. LookupOk(IdleLookup) /\ LocalOk(NoEntry)
  BY EmptyOk DEF Inv
<1> QED
  BY <1>2, <1>3, <1>10, <1>11, CacheStep DEF _set_redis_cached

(* A lookup ends, in whatever way.                                          *)
LEMMA StepEndLookup ==
  ASSUME Inv, NEW r \in Lookups, SetFails(r) \/ EndLookup(r)
  PROVE  Inv'
<1>1. LookupOk(IdleLookup)
  BY EmptyOk DEF Inv
<1> QED
  BY <1>1, LookupStep DEF SetFails, EndLookup

(* An entry leaves.                                                         *)
LEMMA StepEvict ==
  ASSUME Inv, NEW h \in Hosts, Evict(h)
  PROVE  Inv'
<1>1. disturbed' \in BOOLEAN /\ UNCHANGED <<tenant, age, lookup, writer, disturbed>>
  BY DEF Inv, RowOk, Evict
<1>2. LocalOk(NoEntry) /\ RedisOk(h, NoEntry)'
  BY <1>1, EmptyOk, Kept DEF Inv
<1>3. \A q \in Lookups : LookupOk(lookup[q])'
  BY <1>1, Kept DEF Inv, LookupOk
<1>4. redis' \in [Hosts -> Entry] /\ \A g \in Hosts : RedisOk(g, redis[g])'
  <2>1. redis' = redis \/ redis' = [redis EXCEPT ![h] = NoEntry]
    BY DEF Evict
  <2>2. \A g \in Hosts : redis'[g] = redis[g] \/ (g = h /\ redis'[g] = NoEntry)
    BY <2>1 DEF Inv
  <2>3. \A g \in Hosts : RedisOk(g, redis[g])'
    BY <1>1, <1>2, <2>2, Kept DEF Inv, RedisOk
  <2> QED
    BY <2>1, <2>3, IdleTypes DEF Inv
<1>5. /\ local' \in [Replicas -> [Hosts -> Entry]]
      /\ \A q \in Replicas, g \in Hosts : LocalOk(local[q][g])'
  <2>1. CASE local' = local
    BY <2>1, <1>1, Kept DEF Inv, LocalOk
  <2>2. ASSUME NEW p \in Replicas, local' = [local EXCEPT ![p][h] = NoEntry]
        PROVE  /\ local' \in [Replicas -> [Hosts -> Entry]]
               /\ \A q \in Replicas, g \in Hosts : LocalOk(local[q][g])'
    <3>1. [local[p] EXCEPT ![h] = NoEntry] \in [Hosts -> Entry]
      BY IdleTypes DEF Inv
    <3>2. local' \in [Replicas -> [Hosts -> Entry]]
      BY <2>2, <3>1 DEF Inv
    <3>3. \A q \in Replicas, g \in Hosts : local'[q][g] \in {NoEntry, local[q][g]}
      BY <2>2 DEF Inv
    <3>4. LocalOk(NoEntry)'
      BY <1>1, <1>2, Kept
    <3>5. \A q \in Replicas, g \in Hosts : LocalOk(local[q][g])'
      <4> SUFFICES ASSUME NEW q \in Replicas, NEW g \in Hosts
                   PROVE  LocalOk(local[q][g])'
        OBVIOUS
      <4>1. PICK e : e = local'[q][g]
        OBVIOUS
      <4>2. e = NoEntry \/ LocalOk(e)
        BY <3>3, <4>1 DEF Inv
      <4>3. LocalOk(e)'
        BY <1>1, <3>4, <4>2, Kept
      <4> QED
        BY <4>1, <4>3 DEF LocalOk
    <3> QED
      BY <3>2, <3>5
  <2> QED
    BY <2>1, <2>2 DEF Evict
<1> QED
  BY <1>1, <1>3, <1>4, <1>5, Kept DEF Inv
---------------------------------------------------------------------------
(* Steps of the writers. *)

(* A step of a writer that leaves the row alone, and perhaps deletes a      *)
(* Redis entry; it takes no host from its list without deleting its entry.  *)
LEMMA WriterStep ==
  ASSUME Inv, UNCHANGED <<tenant, age, local, lookup>>,
         disturbed' \in BOOLEAN, disturbed => disturbed',
         NEW w \in Writers, NEW k, WriterOk(k),
         writer' = [writer EXCEPT ![w] = k],
         NEW gone \in SUBSET Hosts,
         redis' \in [Hosts -> Entry],
         \A h \in Hosts : redis'[h] = IF h \in gone THEN NoEntry ELSE redis[h],
         \/ disturbed'
         \/ writer[w].pc # "invalidate"
         \/ writer[w].todo \subseteq gone
         \/ /\ k.pc = "invalidate"
            /\ k.taken = writer[w].taken
            /\ writer[w].todo \subseteq k.todo \cup gone
  PROVE  Inv'
<1>1. RowOk'
  BY DEF Inv, RowOk
<1>2. \A value, bound : Fresh(value, bound) => Fresh(value, bound)'
  BY DEF Fresh, Current
<1>3. \A q \in Lookups : LookupOk(lookup[q])'
  BY <1>2 DEF Inv, LookupOk
<1>4. \A q \in Replicas, g \in Hosts : LocalOk(local[q][g])'
  BY <1>2 DEF Inv, LocalOk, Live
<1>5. \A v \in Writers : writer'[v] = IF v = w THEN k ELSE writer[v]
  BY DEF Inv
<1>6. writer' \in [Writers -> WriterState] /\ \A v \in Writers : WriterOk(writer[v])'
  <2>1. \A v \in Writers : WriterOk(writer[v])'
    BY <1>5 DEF Inv, WriterOk
  <2> QED
    BY <2>1 DEF Inv, WriterOk
<1>7. ASSUME NEW h \in Hosts \ gone, NEW value, Pending(h, value)
      PROVE  disturbed' \/ Pending(h, value)'
  <2>1. PICK v \in Writers : /\ writer[v].pc = "invalidate"
                             /\ h \in writer[v].todo
                             /\ age[value.rev] <= writer[v].taken
    BY <1>7 DEF Pending
  <2> QED
    BY <2>1, <1>5 DEF Pending
<1>8. \A h \in Hosts : RedisOk(h, redis[h])'
  <2> SUFFICES ASSUME NEW h \in Hosts PROVE RedisOk(h, redis[h])'
    OBVIOUS
  <2>1. CASE h \in gone
    <3>1. tenant'.rev \in Nat
      BY <1>1 DEF RowOk, Row
    <3>2. redis'[h] = NoEntry
      BY <2>1
    <3>3. RedisOk(h, NoEntry)'
      BY <3>1, EmptiedOk
    <3> QED
      BY <3>2, <3>3 DEF RedisOk
  <2>2. CASE h \notin gone
    <3>1. redis'[h] = redis[h] /\ RedisOk(h, redis[h])
      BY <2>2 DEF Inv
    <3>2. Current(redis[h].value) => (redis[h].value.rev = tenant'.rev)
      BY DEF Current
    <3> QED
      BY <1>2, <1>7, <2>2, <3>1, <3>2 DEF RedisOk, Live, Current
  <2> QED
    BY <2>1, <2>2
<1> QED
  BY <1>1, <1>3, <1>4, <1>6, <1>8 DEF Inv

(* A handler loads the row.                                                 *)
LEMMA StepGetMutableTenant ==
  ASSUME Inv, NEW w \in Writers, NEW op \in Requested, _get_mutable_tenant(w, op)
  PROVE  Inv'
<1>1. PICK k : k = [IdleWriter EXCEPT !.pc = "commit", !.op = op, !.seen = tenant.status]
  OBVIOUS
<1>2. op \in Operations /\ tenant.status \in Statuses
  BY ConstantsAssumption DEF Inv, RowOk, Row
<1>3. WriterOk(k)
  <2>1. k = [pc |-> "commit", op |-> op, seen |-> tenant.status, todo |-> {}, taken |-> 0]
    BY <1>1 DEF IdleWriter
  <2>2. {} \in SUBSET Hosts
    OBVIOUS
  <2> QED
    BY <1>2, <2>1, <2>2, ConstantsAssumption DEF WriterOk, WriterState
<1>4. PICK gone \in SUBSET Hosts : gone = {}
  OBVIOUS
<1>4a. /\ redis' \in [Hosts -> Entry]
       /\ \A h \in Hosts : redis'[h] = IF h \in gone THEN NoEntry ELSE redis[h]
  BY <1>4 DEF Inv, _get_mutable_tenant
<1>5. /\ disturbed' \in BOOLEAN /\ writer[w].pc # "invalidate"
      /\ writer' = [writer EXCEPT ![w] = k]
  BY <1>1 DEF Inv, RowOk, _get_mutable_tenant
<1> QED
  BY <1>3, <1>4a, <1>5, WriterStep DEF _get_mutable_tenant

(* A writer deletes the Redis entry of a host.                              *)
LEMMA StepInvalidate ==
  ASSUME Inv, NEW w \in Writers, NEW h \in Hosts, _publish_cache_invalidation(w, h)
  PROVE  Inv'
<1> DEFINE W == writer[w]
<1>1. PICK k : k = IF W.todo = {h} THEN IdleWriter ELSE [W EXCEPT !.todo = W.todo \ {h}]
  OBVIOUS
<1>2. W \in WriterState /\ WriterOk(W)
  BY DEF Inv
<1>3. WriterOk(k)
  BY <1>1, <1>2, EmptyOk DEF Inv, WriterOk, WriterState
<1>4. PICK gone \in SUBSET Hosts : gone = {h}
  OBVIOUS
<1>4a. /\ redis' \in [Hosts -> Entry]
       /\ \A g \in Hosts : redis'[g] = IF g \in gone THEN NoEntry ELSE redis[g]
  BY <1>4, IdleTypes DEF Inv, _publish_cache_invalidation
<1>5. W.todo \subseteq gone \/ /\ k.pc = "invalidate" /\ k.taken = W.taken
                               /\ W.todo \subseteq k.todo \cup gone
  BY <1>1, <1>2, <1>4 DEF _publish_cache_invalidation, WriterState
<1>6. disturbed' \in BOOLEAN /\ writer' = [writer EXCEPT ![w] = k]
  BY <1>1 DEF Inv, RowOk, _publish_cache_invalidation
<1> QED
  BY <1>3, <1>4a, <1>5, <1>6, WriterStep DEF _publish_cache_invalidation

(* A handler fails, or dies with entries left to delete.                    *)
LEMMA StepWriterFails ==
  ASSUME Inv, NEW w \in Writers, WriterFails(w)
  PROVE  Inv'
<1>1. WriterOk(IdleWriter)
  BY EmptyOk DEF Inv
<1>2. PICK gone \in SUBSET Hosts : gone = {}
  OBVIOUS
<1>2a. /\ redis' \in [Hosts -> Entry]
       /\ \A h \in Hosts : redis'[h] = IF h \in gone THEN NoEntry ELSE redis[h]
  BY <1>2 DEF Inv, WriterFails
<1>3. /\ disturbed' \in BOOLEAN /\ (disturbed => disturbed')
      /\ disturbed' \/ writer[w].todo \subseteq gone
  BY <1>2 DEF Inv, RowOk, WriterFails
<1> QED
  BY <1>1, <1>2a, <1>3, WriterStep DEF WriterFails
(* A commit leaves the revision, or makes it the next.                      *)
LEMMA CommittedRow ==
  ASSUME Inv, NEW w \in Writers, Commit(w)
  PROVE  /\ tenant' \in Row /\ tenant.rev \in Nat /\ tenant'.rev <= MaxRevision
         /\ tenant'.rev = tenant.rev \/ tenant'.rev = tenant.rev + 1
<1>1. tenant \in Row /\ tenant.rev \in Nat /\ tenant.status \in Statuses
  BY DEF Inv, RowOk, Row
<1>2. \A status \in Statuses : [rev |-> tenant.rev + 1, status |-> status] \in Row
  BY <1>1 DEF Row
<1>3. {"active", "suspended", "pending_deletion"} \subseteq Statuses
  BY DEF Statuses
<1>4. tenant' = tenant \/ \E status \in Statuses :
                            tenant' = [rev |-> tenant.rev + 1, status |-> status]
  <2>1. writer[w].op \in Operations /\ tenant' = NewRow(w)
    BY DEF Inv, WriterState, Commit
  <2> QED
    BY <1>1, <1>3, <2>1
    DEF NewRow, Operations, Assign, provision_enterprise_tenant, update_tenant,
        suspend_tenant, reactivate_tenant, cancel_deletion, schedule_deletion
<1>5. tenant.rev < MaxRevision
  BY DEF Commit
<1>6. CASE tenant' = tenant
  BY <1>1, <1>5, <1>6, ConstantsAssumption
<1>7. ASSUME NEW status \in Statuses,
             tenant' = [rev |-> tenant.rev + 1, status |-> status]
      PROVE  tenant' \in Row /\ tenant'.rev = tenant.rev + 1
  BY <1>2, <1>7
<1> QED
  BY <1>1, <1>4, <1>5, <1>6, <1>7, ConstantsAssumption

(* The values that were the row's are stale from now on: the lookups that   *)
(* hold them, and the process entries, have their time left, and the Redis  *)
(* entries are the writer's to delete.                                      *)
LEMMA StepCommit ==
  ASSUME Inv, NEW w \in Writers, Commit(w)
  PROVE  Inv'
<1> USE ConstantsAssumption
<1>1. /\ tenant.rev \in 0..MaxRevision
      /\ tenant'.rev = tenant.rev \/ tenant'.rev = tenant.rev + 1
      /\ tenant'.rev \in Nat
  BY CommittedRow DEF Inv, RowOk
<1>2. /\ age' = age /\ redis' = redis /\ local' = local /\ lookup' = lookup
      /\ disturbed' \in BOOLEAN /\ (disturbed => disturbed')
  BY DEF Commit, Inv, RowOk
<1>3. RowOk'
  BY <1>1, <1>2, CommittedRow DEF Inv, RowOk
<1>4. ASSUME NEW value \in Row, value.rev <= tenant.rev,
             NEW bound \in Nat, Fresh(value, bound)
      PROVE  Fresh(value, bound)' /\ value.rev <= tenant'.rev
  <2>1. value.rev \in 0..MaxRevision
    BY <1>1, <1>4 DEF Row
  <2>2. Current(value) => age[value.rev] = 0
    BY <2>1 DEF Inv, RowOk, Current
  <2> QED
    BY <1>1, <1>2, <1>4, <2>1, <2>2 DEF Fresh
<1>5. \A r \in Lookups : LookupOk(lookup[r])'
  <2> SUFFICES ASSUME NEW r \in Lookups PROVE LookupOk(lookup[r])'
    OBVIOUS
  <2>1. PICK k : k = lookup[r]
    OBVIOUS
  <2>2. /\ LookupOk(k) /\ k \in LookupState
        /\ k.value \in Row /\ k.value.rev \in Nat /\ k.taken \in Nat
    BY <2>1, LookupFields
  <2>3. k.value.rev <= tenant.rev
    BY <2>2 DEF LookupOk
  <2>4. k.value.rev <= tenant'.rev
    BY <1>1, <2>2, <2>3
  <2>5. Ttl + MaxLatency - 1 + k.taken \in Nat /\ MaxLatency + k.taken \in Nat
    BY <2>2
  <2>6. LookupOk(k)'
    BY <1>2, <1>4, <2>2, <2>3, <2>4, <2>5 DEF LookupOk
  <2> QED
    BY <1>2, <2>1, <2>6 DEF LookupOk
<1>6. \A p \in Replicas, h \in Hosts : LocalOk(local[p][h])'
  <2> SUFFICES ASSUME NEW p \in Replicas, NEW h \in Hosts PROVE LocalOk(local[p][h])'
    OBVIOUS
  <2>1. PICK e : e = local[p][h]
    OBVIOUS
  <2>2. LocalOk(e) /\ e \in Entry
    BY <2>1 DEF Inv, LocalOk
  <2>3. e.value \in Row /\ e.value.rev \in Nat /\ e.left \in Nat /\ e.left <= Ttl
    BY <2>2 DEF LocalOk, Entry, Row
  <2>4. e.value.rev <= tenant.rev
    BY <2>2 DEF LocalOk
  <2>5. e.value.rev <= tenant'.rev
    BY <1>1, <2>3, <2>4
  <2>6. /\ 2 * Ttl + 2 * MaxLatency - 1 - e.left \in Nat
        /\ Ttl + 2 * MaxLatency - e.left \in Nat
    BY <2>3
  <2>7. LocalOk(e)'
    BY <1>2, <1>4, <2>2, <2>3, <2>4, <2>5, <2>6 DEF LocalOk, Live
  <2> QED
    BY <1>2, <2>1, <2>7 DEF LocalOk
<1>7. PICK k : k = IF writer[w].op = "provision_enterprise_tenant" THEN IdleWriter
                   ELSE [IdleWriter EXCEPT !.pc = "invalidate", !.todo = Hosts]
  OBVIOUS
<1>8. writer' = [writer EXCEPT ![w] = k] /\ writer[w].pc = "commit"
  BY <1>7 DEF Commit
<1>9. /\ WriterOk(k)
      /\ disturbed' \/ (k.pc = "invalidate" /\ k.todo = Hosts /\ k.taken = 0)
  <2>1. WriterOk(IdleWriter)
    BY EmptyOk DEF Inv
  <2>2. CASE writer[w].op # "provision_enterprise_tenant"
    <3>1. k = [pc |-> "invalidate", op |-> "update_tenant", seen |-> "absent",
               todo |-> Hosts, taken |-> 0]
      BY <1>7, <2>2 DEF IdleWriter
    <3> QED
      BY <3>1, <2>1 DEF WriterOk, WriterState, IdleWriter
  <2>3. CASE writer[w].op = "provision_enterprise_tenant"
    BY <1>7, <2>1, <2>3 DEF Commit
  <2> QED
    BY <2>2, <2>3
<1>10. \A v \in Writers : writer'[v] = IF v = w THEN k ELSE writer[v]
  BY <1>8 DEF Inv
<1>11. writer' \in [Writers -> WriterState] /\ \A v \in Writers : WriterOk(writer[v])'
  <2>1. \A v \in Writers : WriterOk(writer[v])'
    BY <1>9, <1>10 DEF Inv, WriterOk
  <2> QED
    BY <2>1, <1>8, <1>9 DEF Inv, WriterOk
<1>12. \A h \in Hosts : RedisOk(h, redis[h])'
  <2> SUFFICES ASSUME NEW h \in Hosts PROVE RedisOk(h, redis[h])'
    OBVIOUS
  <2>1. PICK e : e = redis[h]
    OBVIOUS
  <2>2. RedisOk(h, e) /\ e \in Entry
    BY <2>1 DEF Inv, RedisOk
  <2>3. e.value \in Row /\ e.value.rev \in Nat /\ e.left \in Nat /\ e.left <= Ttl
    BY <2>2 DEF RedisOk, Entry, Row
  <2>4. e.value.rev <= tenant.rev
    BY <2>2 DEF RedisOk
  <2>5. e.value.rev <= tenant'.rev /\ e.value.rev \in 0..MaxRevision
    BY <1>1, <2>3, <2>4
  <2>6. Ttl + MaxLatency - e.left \in Nat
    BY <2>3
  <2>7. ASSUME Pending(h, e.value)
        PROVE  Pending(h, e.value)'
    <3>1. PICK v \in Writers : /\ writer[v].pc = "invalidate"
                               /\ h \in writer[v].todo
                               /\ age[e.value.rev] <= writer[v].taken
      BY <2>7 DEF Pending
    <3>2. writer'[v] = writer[v]
      BY <3>1, <1>8, <1>10
    <3> QED
      BY <3>1, <3>2, <1>2 DEF Pending
  <2>8. ASSUME Current(e.value)
        PROVE  disturbed' \/ Pending(h, e.value)'
    <3>1. age[e.value.rev] = 0
      BY <2>5, <2>8, <1>1 DEF Current, Inv, RowOk
    <3> QED
      BY <3>1, <1>2, <1>9, <1>10 DEF Pending
  <2>9. RedisOk(h, e)'
    BY <1>2, <1>4, <2>2, <2>3, <2>4, <2>5, <2>6, <2>7, <2>8 DEF RedisOk, Live
  <2> QED
    BY <1>2, <2>1, <2>9 DEF RedisOk
<1> QED
  BY <1>2, <1>3, <1>5, <1>6, <1>11, <1>12 DEF Inv
---------------------------------------------------------------------------
(* The passing of time. *)

(* Entries lose a tick of the time they have left, and what is stale grows  *)
(* older by at most a tick, so that the sum of the two does not grow;       *)
(* lookups and invalidations that are under way count the tick.             *)
LEMMA StepTick ==
  ASSUME Inv, Tick
  PROVE  Inv'
<1> USE ConstantsAssumption
<1>1. tenant' = tenant /\ disturbed' = disturbed /\ tenant.rev \in 0..MaxRevision
  BY DEF Tick, Inv, RowOk, Row
<1>2. \A n \in 0..MaxRevision : /\ age[n] \in 0..Horizon /\ age'[n] \in 0..Horizon
                                /\ age'[n] <= age[n] + 1
                                /\ n >= tenant.rev => age'[n] = 0
  <2> TAKE n \in 0..MaxRevision
  <2>1. age[n] \in 0..Horizon
    BY DEF Inv, RowOk
  <2>2. age'[n] = IF n < tenant.rev THEN Older(age[n]) ELSE 0
    BY DEF Tick
  <2> QED
    BY <1>1, <2>1, <2>2 DEF Older
<1>3. RowOk'
  <2>1. age' \in [0..MaxRevision -> 0..Horizon]
    BY <1>1 DEF Tick, Inv, RowOk, Older
  <2> QED
    BY <1>1, <1>2, <2>1 DEF Inv, RowOk
<1>4. ASSUME NEW value \in Row, value.rev <= tenant.rev,
             NEW bound \in Int, Fresh(value, bound)
      PROVE  Fresh(value, bound + 1)'
  <2>1. value.rev \in 0..MaxRevision
    BY <1>1, <1>4 DEF Row
  <2> QED
    BY <1>1, <1>2, <1>4, <2>1 DEF Fresh, Current
<1>5. ASSUME NEW r \in Lookups
      PROVE  LookupOk(lookup[r])' /\ lookup'[r] \in LookupState
  <2>1. PICK k, l : k = lookup[r] /\ l = lookup'[r]
    OBVIOUS
  <2>2. /\ LookupOk(k) /\ k \in LookupState
        /\ k.value \in Row /\ k.taken \in Nat
    BY <2>1, LookupFields
  <2>3. CASE k.pc = "idle"
    <3>1. l = k
      BY <2>1, <2>3 DEF Tick
    <3>2. LookupOk(l)'
      BY <1>1, <2>2, <2>3, <3>1 DEF LookupOk
    <3> QED
      BY <2>1, <2>2, <3>1, <3>2 DEF LookupOk
  <2>4. CASE k.pc # "idle"
    <3>1. l = [k EXCEPT !.taken = k.taken + 1] /\ k.taken < MaxLatency
      BY <2>1, <2>4 DEF Tick
    <3>2. /\ l \in LookupState /\ l.pc = k.pc /\ l.value = k.value
          /\ l.taken = k.taken + 1 /\ l.replica = k.replica /\ l.host = k.host
      BY <2>2, <3>1 DEF LookupState
    <3>3. k.pc \in {"row", "set"} => Fresh(l.value, l.taken)'
      BY <1>4, <2>2, <3>2 DEF LookupOk
    <3>4. ASSUME k.pc = "found"
          PROVE  Fresh(l.value, Ttl + MaxLatency - 1 + l.taken)'
      <4>1. Fresh(k.value, Ttl + MaxLatency - 1 + k.taken)
        BY <2>2, <3>4 DEF LookupOk
      <4>2. Fresh(k.value, (Ttl + MaxLatency - 1 + k.taken) + 1)'
        BY <1>4, <2>2, <4>1 DEF LookupOk
      <4>3. (Ttl + MaxLatency - 1 + k.taken) + 1 = Ttl + MaxLatency - 1 + l.taken
        BY <2>2, <3>2
      <4> QED
        BY <3>2, <4>2, <4>3
    <3>5. ASSUME k.pc = "found"
          PROVE  disturbed \/ Fresh(l.value, MaxLatency + l.taken)'
      <4>1. disturbed \/ Fresh(k.value, MaxLatency + k.taken)
        BY <2>2, <3>5 DEF LookupOk
      <4>2. disturbed \/ Fresh(k.value, (MaxLatency + k.taken) + 1)'
        BY <1>4, <2>2, <4>1 DEF LookupOk
      <4>3. (MaxLatency + k.taken) + 1 = MaxLatency + l.taken
        BY <2>2, <3>2
      <4> QED
        BY <3>2, <4>2, <4>3
    <3>6. l.value.rev <= tenant'.rev /\ l.taken <= MaxLatency
      BY <1>1, <2>2, <3>1, <3>2 DEF LookupOk
    <3>7. l.replica \in Replicas /\ l.host \in Hosts
      BY <2>2, <2>4, <3>2 DEF LookupOk
    <3>8. LookupOk(l)'
      BY <1>1, <3>2, <3>3, <3>4, <3>5, <3>6, <3>7 DEF LookupOk
    <3> QED
      BY <2>1, <3>2, <3>8 DEF LookupOk
  <2> QED
    BY <2>3, <2>4
<1>6. ASSUME NEW w \in Writers
      PROVE  /\ WriterOk(writer[w])' /\ writer'[w] \in WriterState
             /\ writer[w].pc = "invalidate" =>
                  /\ writer'[w].pc = "invalidate"
                  /\ writer'[w].todo = writer[w].todo
                  /\ writer'[w].taken = writer[w].taken + 1
  <2>1. PICK k, l : k = writer[w] /\ l = writer'[w]
    OBVIOUS
  <2>2. WriterOk(k) /\ k.taken \in Nat
    BY <2>1 DEF Inv, WriterOk, WriterState
  <2>3. CASE k.pc # "invalidate"
    <3>1. l = k
      BY <2>1, <2>3 DEF Tick
    <3> QED
      BY <2>1, <2>2, <2>3, <3>1 DEF WriterOk
  <2>4. CASE k.pc = "invalidate"
    <3>1. l = [k EXCEPT !.taken = k.taken + 1] /\ k.taken < MaxLatency
      BY <2>1, <2>4 DEF Tick
    <3>2. /\ l \in WriterState /\ l.pc = k.pc /\ l.todo = k.todo
          /\ l.taken = k.taken + 1
      BY <2>2, <3>1 DEF WriterOk, WriterState
    <3> QED
      BY <2>1, <2>2, <2>4, <3>1, <3>2 DEF WriterOk
  <2> QED
    BY <2>3, <2>4<1>7. \A value : \A h \in Hosts :
        Pending(h, value) /\ value \in Row /\ value.rev <= tenant.rev => Pending(h, value)'
  <2> SUFFICES ASSUME NEW value, NEW h \in Hosts, Pending(h, value),
                      value \in Row, value.rev <= tenant.rev
               PROVE  Pending(h, value)'
    OBVIOUS
  <2>1. PICK w \in Writers : /\ writer[w].pc = "invalidate"
                             /\ h \in writer[w].todo
                             /\ age[value.rev] <= writer[w].taken
    BY DEF Pending
  <2>2. value.rev \in 0..MaxRevision
    BY <1>1 DEF Row
  <2>3. writer[w].taken \in Nat
    BY DEF Inv, WriterState
  <2>4. age'[value.rev] <= writer[w].taken + 1
    BY <1>2, <2>1, <2>2, <2>3
  <2> QED
    BY <1>6, <2>1, <2>4 DEF Pending
<1>8. ASSUME NEW e \in Entry
      PROVE  \/ Aged(e) = NoEntry
             \/ /\ Aged(e) \in Entry /\ Aged(e).value = e.value
                /\ Aged(e).left = e.left - 1 /\ Live(e)
  BY DEF Aged, Entry, Live
<1>9. ASSUME NEW h \in Hosts
      PROVE  RedisOk(h, redis[h])' /\ redis'[h] \in Entry
  <2>1. PICK e, f : e = redis[h] /\ f = redis'[h]
    OBVIOUS
  <2>2. RedisOk(h, e) /\ e \in Entry /\ f = Aged(e)
    BY <2>1 DEF Inv, RedisOk, Tick
  <2>3. e.value \in Row /\ e.left \in Nat /\ e.left <= Ttl /\ e.value.rev <= tenant.rev
    BY <2>2 DEF RedisOk, Entry
  <2>4. CASE f = NoEntry
    <3>1. RedisOk(h, f)'
      <4>1. RedisOk(h, NoEntry)'
        BY <1>1, EmptiedOk
      <4> QED
        BY <2>4, <4>1 DEF RedisOk
    <3> QED
      BY <2>1, <2>4, <3>1, IdleTypes DEF RedisOk
  <2>5. CASE f \in Entry /\ f.value = e.value /\ f.left = e.left - 1 /\ Live(e)
    <3>1. Fresh(e.value, Ttl + MaxLatency - e.left)
      BY <2>2, <2>5 DEF RedisOk
    <3>2. Fresh(e.value, (Ttl + MaxLatency - e.left) + 1)'
      BY <1>4, <2>3, <3>1
    <3>3. (Ttl + MaxLatency - e.left) + 1 = Ttl + MaxLatency - f.left
      BY <2>3, <2>5
    <3>4. Fresh(f.value, Ttl + MaxLatency - f.left)'
      BY <2>5, <3>2, <3>3
    <3>5. (disturbed \/ Current(f.value) \/ Pending(h, f.value))'
      BY <1>1, <1>7, <2>2, <2>3, <2>5 DEF RedisOk, Current
    <3>6. f.value.rev <= tenant'.rev /\ f.left <= Ttl
      BY <1>1, <2>3, <2>5
    <3>7. RedisOk(h, f)'
      BY <2>5, <3>4, <3>5, <3>6 DEF RedisOk
    <3> QED
      BY <2>1, <2>5, <3>7 DEF RedisOk
  <2> QED
    BY <1>8, <2>2, <2>4, <2>5
<1>10. ASSUME NEW p \in Replicas, NEW h \in Hosts
       PROVE  LocalOk(local[p][h])' /\ local'[p][h] \in Entry
  <2>1. PICK e, f : e = local[p][h] /\ f = local'[p][h]
    OBVIOUS
  <2>2. LocalOk(e) /\ e \in Entry /\ f = Aged(e)
    BY <2>1 DEF Inv, LocalOk, Tick
  <2>3. e.value \in Row /\ e.left \in Nat /\ e.left <= Ttl /\ e.value.rev <= tenant.rev
    BY <2>2 DEF LocalOk, Entry
  <2>4. CASE f = NoEntry
    <3>1. LocalOk(f)'
      <4>1. LocalOk(NoEntry)'
        BY <1>1, EmptiedOk
      <4> QED
        BY <2>4, <4>1 DEF LocalOk
    <3> QED
      BY <2>1, <2>4, <3>1, IdleTypes DEF LocalOk
  <2>5. CASE f \in Entry /\ f.value = e.value /\ f.left = e.left - 1 /\ Live(e)
    <3> DEFINE twice == 2 * Ttl + 2 * MaxLatency - 1 - e.left
               once == Ttl + 2 * MaxLatency - e.left
    <3>1. Fresh(e.value, twice) /\ (disturbed \/ Fresh(e.value, once))
      BY <2>2, <2>5 DEF LocalOk
    <3>2. twice \in Int /\ once \in Int
      BY <2>3
    <3>3. /\ twice + 1 = 2 * Ttl + 2 * MaxLatency - 1 - f.left
          /\ once + 1 = Ttl + 2 * MaxLatency - f.left
      BY <2>3, <2>5
    <3> HIDE DEF twice, once
    <3>4. Fresh(e.value, twice + 1)' /\ (disturbed \/ Fresh(e.value, once + 1)')
      BY <1>4, <2>3, <3>1, <3>2
    <3>5. /\ Fresh(f.value, 2 * Ttl + 2 * MaxLatency - 1 - f.left)'
          /\ (disturbed \/ Fresh(f.value, Ttl + 2 * MaxLatency - f.left))'
      BY <1>1, <2>5, <3>3, <3>4
    <3>6. f.value.rev <= tenant'.rev /\ f.left <= Ttl
      BY <1>1, <2>3, <2>5
    <3>7. LocalOk(f)'
      BY <2>5, <3>5, <3>6 DEF LocalOk
    <3> QED
      BY <2>1, <2>5, <3>7 DEF LocalOk
  <2> QED
    BY <1>8, <2>2, <2>4, <2>5
<1>11. /\ redis' \in [Hosts -> Entry]
       /\ local' \in [Replicas -> [Hosts -> Entry]]
       /\ lookup' \in [Lookups -> LookupState]
       /\ writer' \in [Writers -> WriterState]
  BY <1>5, <1>6, <1>9, <1>10 DEF Tick
<1> QED
  BY <1>3, <1>5, <1>6, <1>9, <1>10, <1>11 DEF Inv

---------------------------------------------------------------------------
(* The invariant is inductive. *)
LEMMA NextInv ==
  ASSUME Inv, [Next]_vars
  PROVE  Inv'
<1>1. CASE Tick
  BY <1>1, StepTick
<1>2. ASSUME NEW r \in Lookups, NEW p \in Replicas, NEW h \in Hosts, resolve(r, p, h)
      PROVE  Inv'
  BY <1>2, StepResolve
<1>3. ASSUME NEW r \in Lookups,
             \/ _get_redis_cached(r) \/ RedisMiss(r) \/ KeepFound(r) \/ _query_tenant(r)
             \/ KeepRow(r) \/ _set_redis_cached(r) \/ SetFails(r) \/ EndLookup(r)
      PROVE  Inv'
  BY <1>3, StepGetRedisCached, StepRedisMiss, StepKeepFound, StepQueryTenant, StepKeepRow,
     StepSetRedisCached, StepEndLookup
<1>4. ASSUME NEW h \in Hosts, Evict(h)
      PROVE  Inv'
  BY <1>4, StepEvict
<1>5. ASSUME NEW w \in Writers, NEW op \in Requested, _get_mutable_tenant(w, op)
      PROVE  Inv'
  BY <1>5, StepGetMutableTenant
<1>6. ASSUME NEW w \in Writers, Commit(w) \/ WriterFails(w)
      PROVE  Inv'
  BY <1>6, StepCommit, StepWriterFails
<1>7. ASSUME NEW w \in Writers, NEW h \in Hosts, _publish_cache_invalidation(w, h)
      PROVE  Inv'
  BY <1>7, StepInvalidate
<1>8. CASE UNCHANGED vars
  <2>1. disturbed' \in BOOLEAN /\ UNCHANGED <<tenant, age, writer, disturbed, lookup, local, redis>>
    BY <1>8 DEF vars, Inv, RowOk
  <2>2. /\ RowOk' /\ (\A w \in Writers : WriterOk(writer[w])')
        /\ (\A r \in Lookups : LookupOk(lookup[r])')
    BY <2>1, Kept DEF Inv, LookupOk
  <2>3. \A h \in Hosts : RedisOk(h, redis[h])'
    BY <2>1, Kept DEF Inv, RedisOk
  <2>4. \A p \in Replicas, h \in Hosts : LocalOk(local[p][h])'
    BY <2>1, Kept DEF Inv, LocalOk
  <2> QED
    BY <2>1, <2>2, <2>3, <2>4 DEF Inv
<1> QED
  BY <1>1, <1>2, <1>3, <1>4, <1>5, <1>6, <1>7, <1>8 DEF Next

(* The invariant holds in every reachable state.                            *)
THEOREM ResolverInvariant == Spec => []Inv
<1>1. Init => Inv
  BY InitInv
<1>2. Inv /\ [Next]_vars => Inv'
  BY NextInv
<1> QED
  BY <1>1, <1>2, PTL DEF Spec

(* Types: no lookup is ahead of the row, whatever races, fails or expires.  *)
THEOREM ResolverTypes == Spec => []TypeOK
<1>1. Inv => TypeOK
  BY InvImplies
<1> QED
  BY <1>1, ResolverInvariant, PTL

(* With every number of replicas, hosts, lookups and writers, every time to *)
(* live and every latency, a replica answers with what resolve has cached   *)
(* for less than two times to live and two latencies after the row changed. *)
THEOREM StaleForTwoTtls == Spec => []StaleAtMostTwice
<1>1. Inv => StaleAtMostTwice
  BY InvImplies
<1> QED
  BY <1>1, ResolverInvariant, PTL

(* While every _publish_cache_invalidation goes through and no lookup       *)
(* writes to Redis what it has read before a commit, one time to live and   *)
(* two latencies are the bound.                                             *)
THEOREM StaleForOneTtl == Spec => []StaleAtMostOnce
<1>1. Inv => StaleAtMostOnce
  BY InvImplies
<1> QED
  BY <1>1, ResolverInvariant, PTL
=============================================================================
