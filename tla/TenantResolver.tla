-------------------------- MODULE TenantResolver --------------------------
(* Hostname resolution and the lifecycle of a tenant: the row of one tenant *)
(* and its writers (TenantsService), and the two cache tiers through which  *)
(* the replicas of the control plane read it (TenantResolver): a cache of   *)
(* each process and one in Redis, both keyed by host.                       *)
(*                                                                          *)
(* A writer deletes the Redis entries of the tenant's hosts after its commit*)
(* and publishes an invalidation; no process starts                         *)
(* listen_for_invalidations, so the message reaches nobody and the entries  *)
(* of the processes live until they expire.                                 *)
EXTENDS Integers

CONSTANTS Replicas,     \* processes of the control plane
          Hosts,        \* the hosts of the tenant
          Lookups,      \* requests being resolved
          Writers,      \* administrators' requests
          Requested,    \* the operations they ask for
          Ttl,          \* TENANT_RESOLVER_CACHE_TTL_SECONDS
          MaxLatency,   \* how long a lookup or an invalidation may take
          MaxRevision,  \* bound on the changes of the row
          Horizon,      \* bound on the ages: what is older is not told apart
          NULL          \* no replica, no host

Operations == {"provision_enterprise_tenant", "update_tenant", "suspend_tenant",
               "reactivate_tenant", "schedule_deletion", "cancel_deletion"}

ASSUME ConstantsAssumption ==
  /\ Replicas # {} /\ Hosts # {}
  /\ Ttl \in Nat \ {0}
  /\ MaxLatency \in Nat
  /\ Requested \subseteq Operations
  /\ MaxRevision \in Nat
  /\ Horizon \in Nat /\ Horizon > 2 * Ttl + 2 * MaxLatency

VARIABLES
  tenant,     \* the tenant's row
  age,        \* history: how long ago each revision of the row was replaced
  redis,      \* the Redis tier
  local,      \* the tier of each process
  lookup,     \* where a lookup is
  writer,     \* where a writer is
  disturbed   \* history: an invalidation was skipped, or raced by a lookup

vars == <<tenant, age, redis, local, lookup, writer, disturbed>>

Statuses == {"absent", "active", "suspended", "pending_deletion"}

(* The row: the revision stands for the columns that are not spelled out.   *)
(* A cache entry has the time it has left; a lookup and an invalidation the *)
(* time they have taken.                                                    *)
Row == [rev: Nat, status: Statuses]
Entry == [value: Row, left: Nat]
LookupState == [pc: {"idle", "redis", "found", "query", "row", "set"},
                replica: Replicas \cup {NULL}, host: Hosts \cup {NULL}, value: Row,
                taken: Nat]
WriterState == [pc: {"idle", "commit", "invalidate"}, op: Operations,
                seen: Statuses, todo: SUBSET Hosts, taken: Nat]

NoRow == [rev |-> 0, status |-> "absent"]
NoEntry == [value |-> NoRow, left |-> 0]
IdleWriter == [pc |-> "idle", op |-> "update_tenant", seen |-> "absent", todo |-> {},
               taken |-> 0]
IdleLookup == [pc |-> "idle", replica |-> NULL, host |-> NULL, value |-> NoRow, taken |-> 0]

Init ==
  /\ tenant \in [rev: {0}, status: Statuses]
  /\ age = [n \in 0..MaxRevision |-> 0]
  /\ redis = [h \in Hosts |-> NoEntry]
  /\ local = [p \in Replicas |-> [h \in Hosts |-> NoEntry]]
  /\ lookup = [r \in Lookups |-> IdleLookup]
  /\ writer = [w \in Writers |-> IdleWriter]
  /\ disturbed = FALSE

Live(entry) == entry.left > 0

\* _cache_miss halves the time to live.
MissTtl == IF Ttl \div 2 > 1 THEN Ttl \div 2 ELSE 1
FillTtl(value) == IF value.status = "absent" THEN MissTtl ELSE Ttl

Current(value) == value.rev = tenant.rev

---------------------------------------------------------------------------
(* TenantResolver.resolve *)

\* A live entry of the process answers at once.
resolve(r, p, h) ==
  /\ lookup[r].pc = "idle"
  /\ ~ Live(local[p][h])
  /\ lookup' = [lookup EXCEPT ![r] = [IdleLookup EXCEPT !.pc = "redis",
                                                            !.replica = p, !.host = h]]
  /\ UNCHANGED <<tenant, age, redis, local, writer, disturbed>>

_get_redis_cached(r) ==
  /\ lookup[r].pc = "redis"
  /\ Live(redis[lookup[r].host])
  /\ lookup' = [lookup EXCEPT ![r].pc = "found", ![r].value = redis[lookup[r].host].value]
  /\ UNCHANGED <<tenant, age, redis, local, writer, disturbed>>

\* No entry, or no Redis.
RedisMiss(r) ==
  /\ lookup[r].pc = "redis"
  /\ lookup' = [lookup EXCEPT ![r].pc = "query"]
  /\ UNCHANGED <<tenant, age, redis, local, writer, disturbed>>

SetLocal(r, ttl) ==
  local' = [local EXCEPT ![lookup[r].replica][lookup[r].host] =
              [value |-> lookup[r].value, left |-> ttl]]

\* What Redis holds, a miss included, is kept for a full time to live.
KeepFound(r) ==
  /\ lookup[r].pc = "found"
  /\ SetLocal(r, Ttl)
  /\ lookup' = [lookup EXCEPT ![r] = IdleLookup]
  /\ UNCHANGED <<tenant, age, redis, writer, disturbed>>

_query_tenant(r) ==
  /\ lookup[r].pc = "query"
  /\ lookup' = [lookup EXCEPT ![r].pc = "row", ![r].value = tenant]
  /\ UNCHANGED <<tenant, age, redis, local, writer, disturbed>>

KeepRow(r) ==
  /\ lookup[r].pc = "row"
  /\ SetLocal(r, FillTtl(lookup[r].value))
  /\ lookup' = [lookup EXCEPT ![r].pc = "set"]
  /\ UNCHANGED <<tenant, age, redis, writer, disturbed>>

(* A mutant of _set_redis_cached: the Redis tier has a longer time to live. *)
SetForTwiceTheTime(r) ==
  /\ lookup[r].pc = "set"
  /\ redis' = [redis EXCEPT ![lookup[r].host] =
                 [value |-> lookup[r].value, left |-> 2 * Ttl]]
  /\ disturbed' = (disturbed \/ ~ Current(lookup[r].value))
  /\ lookup' = [lookup EXCEPT ![r] = IdleLookup]
  /\ UNCHANGED <<tenant, age, local, writer>>

_set_redis_cached(r) ==
  /\ lookup[r].pc = "set"
  /\ redis' = [redis EXCEPT ![lookup[r].host] =
                 [value |-> lookup[r].value, left |-> FillTtl(lookup[r].value)]]
  /\ disturbed' = (disturbed \/ ~ Current(lookup[r].value))
  /\ lookup' = [lookup EXCEPT ![r] = IdleLookup]
  /\ UNCHANGED <<tenant, age, local, writer>>

\* The error of a Redis that is down is swallowed.
SetFails(r) ==
  /\ lookup[r].pc = "set"
  /\ lookup' = [lookup EXCEPT ![r] = IdleLookup]
  /\ UNCHANGED <<tenant, age, redis, local, writer, disturbed>>

\* The client has gone, or the process fails.
EndLookup(r) ==
  /\ lookup[r].pc # "idle"
  /\ lookup' = [lookup EXCEPT ![r] = IdleLookup]
  /\ UNCHANGED <<tenant, age, redis, local, writer, disturbed>>

\* The oldest entry leaves a full process cache; Redis may evict too.
Evict(h) ==
  /\ \/ redis' = [redis EXCEPT ![h] = NoEntry] /\ UNCHANGED local
     \/ \E p \in Replicas :
          local' = [local EXCEPT ![p][h] = NoEntry] /\ UNCHANGED redis
  /\ UNCHANGED <<tenant, age, lookup, writer, disturbed>>

---------------------------------------------------------------------------
(* TenantsService: the row a handler leaves, given the status it has loaded.*)

\* A status that is the loaded one is not written.
Assign(seen, status) ==
  IF status = seen THEN tenant ELSE [rev |-> tenant.rev + 1, status |-> status]

provision_enterprise_tenant == [rev |-> tenant.rev + 1, status |-> "active"]
update_tenant == [rev |-> tenant.rev + 1, status |-> tenant.status]
suspend_tenant(seen) == Assign(seen, "suspended")
reactivate_tenant(seen) == Assign(seen, "active")
cancel_deletion(seen) == Assign(seen, "active")
schedule_deletion(seen) == Assign(seen, "pending_deletion")

NewRow(w) ==
  LET seen == writer[w].seen IN
  CASE writer[w].op = "provision_enterprise_tenant" -> provision_enterprise_tenant
    [] writer[w].op = "update_tenant" -> update_tenant
    [] writer[w].op = "suspend_tenant" -> suspend_tenant(seen)
    [] writer[w].op = "reactivate_tenant" -> reactivate_tenant(seen)
    [] writer[w].op = "cancel_deletion" -> cancel_deletion(seen)
    [] writer[w].op = "schedule_deletion" -> schedule_deletion(seen)

_get_mutable_tenant(w, op) ==
  /\ writer[w].pc = "idle"
  /\ (op = "provision_enterprise_tenant") <=> (tenant.status = "absent")
  /\ writer' = [writer EXCEPT ![w] = [IdleWriter EXCEPT !.pc = "commit", !.op = op,
                                                         !.seen = tenant.status]]
  /\ UNCHANGED <<tenant, age, redis, local, lookup, disturbed>>

(* A mutant of Commit: the entries were deleted before the commit. *)
CommitAfterInvalidation(w) ==
  /\ writer[w].pc = "commit"
  /\ tenant.rev < MaxRevision
  /\ writer[w].op = "provision_enterprise_tenant" => tenant.status = "absent"
  /\ tenant' = NewRow(w)
  /\ writer' = [writer EXCEPT ![w] = IdleWriter]
  /\ disturbed' = (disturbed \/ writer[w].op = "provision_enterprise_tenant")
  /\ UNCHANGED <<age, redis, local, lookup>>

\* The slug is unique, so only one of two provisions commits; a new tenant's
\* hosts are not invalidated.
Commit(w) ==
  LET provision == writer[w].op = "provision_enterprise_tenant" IN
  /\ writer[w].pc = "commit"
  /\ tenant.rev < MaxRevision
  /\ provision => tenant.status = "absent"
  /\ tenant' = NewRow(w)
  /\ writer' = [writer EXCEPT ![w] =
                  IF provision THEN IdleWriter
                  ELSE [IdleWriter EXCEPT !.pc = "invalidate", !.todo = Hosts]]
  /\ disturbed' = (disturbed \/ provision)
  /\ UNCHANGED <<age, redis, local, lookup>>

\* The DEL of one host; after the last, PUBLISH.
_publish_cache_invalidation(w, h) ==
  /\ writer[w].pc = "invalidate"
  /\ h \in writer[w].todo
  /\ redis' = [redis EXCEPT ![h] = NoEntry]
  /\ writer' = [writer EXCEPT ![w] =
                  IF writer[w].todo = {h} THEN IdleWriter
                  ELSE [writer[w] EXCEPT !.todo = writer[w].todo \ {h}]]
  /\ UNCHANGED <<tenant, age, local, lookup, disturbed>>

\* A handler fails before its commit; after it, Redis is down or the process
\* dies, and the rest of the entries stay.
WriterFails(w) ==
  /\ writer[w].pc # "idle"
  /\ writer' = [writer EXCEPT ![w] = IdleWriter]
  /\ disturbed' = (disturbed \/ writer[w].todo # {})
  /\ UNCHANGED <<tenant, age, redis, local, lookup>>

Older(n) == IF n < Horizon THEN n + 1 ELSE n

(* A mutant of Aged: expires_at < now, an entry never leaves. *)
AgedLate(entry) == [entry EXCEPT !.left = entry.left - 1]

Aged(entry) == IF entry.left > 1 THEN [entry EXCEPT !.left = entry.left - 1] ELSE NoEntry

\* Time passes, but no lookup or invalidation takes longer than MaxLatency.
Tick ==
  /\ \A r \in Lookups : lookup[r].pc # "idle" => lookup[r].taken < MaxLatency
  /\ \A w \in Writers : writer[w].pc = "invalidate" => writer[w].taken < MaxLatency
  /\ age' = [n \in 0..MaxRevision |-> IF n < tenant.rev THEN Older(age[n]) ELSE 0]
  /\ redis' = [h \in Hosts |-> Aged(redis[h])]
  /\ local' = [p \in Replicas |-> [h \in Hosts |-> Aged(local[p][h])]]
  /\ lookup' = [r \in Lookups |-> IF lookup[r].pc = "idle" THEN lookup[r]
                                  ELSE [lookup[r] EXCEPT !.taken = lookup[r].taken + 1]]
  /\ writer' = [w \in Writers |-> IF writer[w].pc # "invalidate" THEN writer[w]
                                  ELSE [writer[w] EXCEPT !.taken = writer[w].taken + 1]]
  /\ UNCHANGED <<tenant, disturbed>>

Next ==
  \/ Tick
  \/ \E r \in Lookups :
       \/ \E p \in Replicas, h \in Hosts : resolve(r, p, h)
       \/ _get_redis_cached(r) \/ RedisMiss(r) \/ KeepFound(r) \/ _query_tenant(r)
       \/ KeepRow(r) \/ _set_redis_cached(r) \/ SetFails(r) \/ EndLookup(r)
  \/ \E h \in Hosts : Evict(h)
  \/ \E w \in Writers :
       \/ \E op \in Requested : _get_mutable_tenant(w, op)
       \/ Commit(w) \/ WriterFails(w)
       \/ \E h \in Hosts : _publish_cache_invalidation(w, h)

Spec == Init /\ [][Next]_vars

---------------------------------------------------------------------------
(* Every variable keeps its shape, and no lookup is ahead of the row.       *)
TypeOK ==
  /\ tenant \in Row /\ tenant.rev <= MaxRevision
  /\ age \in [0..MaxRevision -> 0..Horizon]
  /\ redis \in [Hosts -> Entry]
  /\ local \in [Replicas -> [Hosts -> Entry]]
  /\ lookup \in [Lookups -> LookupState]
  /\ writer \in [Writers -> WriterState]
  /\ disturbed \in BOOLEAN
  /\ \A r \in Lookups : lookup[r].value.rev <= tenant.rev

\* The value is the row's, or was less than so long ago.
Within(value, bound) == Current(value) \/ age[value.rev] < bound

\* A replica answers with what its cache holds, or with what it puts there.
AllWithin(bound) ==
  \A p \in Replicas, h \in Hosts : Live(local[p][h]) => Within(local[p][h].value, bound)

(* However lookups race with changes of the tenant, Redis fails or a writer *)
(* dies, a replica answers with a status or settings for less than twice the*)
(* time to live, and twice the latency, after they were replaced: a stale   *)
(* Redis entry may be copied into a process once, but not back.             *)
StaleAtMostTwice == AllWithin(2 * Ttl + 2 * MaxLatency)

(* When every invalidation goes through and no lookup that read the row     *)
(* before a commit writes it to Redis after, once the time to live, plus    *)
(* the latencies of an invalidation and of a lookup, is enough.             *)
StaleAtMostOnce == ~ disturbed => AllWithin(Ttl + 2 * MaxLatency)

(* "even without invalidation a stale entry self-heals in under a minute",  *)
(* a minute being the time to live.                                         *)
SelfHeals == AllWithin(Ttl)
=============================================================================
