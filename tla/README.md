# Musematic: TLA+ models of its concurrent core

Musematic is an agent platform: a Python control plane (FastAPI, Postgres at READ
COMMITTED, Redis, Kafka) and Go services that run agents in pods. This directory models
the parts in which concurrent requests, jobs and failures meet the same state.

## The system and its parts

| Part | Module | State | What makes it hard |
|---|---|---|---|
| Execution engine (`execution/`) | `ExecutionEngine`, `Projector` | executions row, event journal, approval waits, leases, checkpoints; Redis keys and cache | sessions act on rows read earlier; a rollback does not undo Redis and gRPC |
| Runtime controller, warm pool (`services/runtime-controller`) | `RuntimeController` | runtimes table, pods, warm queue and its table | no transaction spans two statements or a statement and a pod |
| Audit chain (`audit/`) | `AuditChain`, `AuditLog` | hash-linked rows, an advisory lock | appends inside other services' transactions, under row level security |
| Workspaces, two-person approval | `WorkspaceOwnership` | workspace, memberships, challenges | two services in one transaction, reads without locks |
| Tenants (`tenants/`) | `TenantResolver` | tenant row, two cache tiers | invalidation after the commit, copies of copies |

The engine asks the runtime controller to launch the runtime of a step and hears from it
through the `workflow.runtime` topic. Each side is modelled with the other as its
environment: in `ExecutionEngine` a launch succeeds or fails and the runtime reports at
any later time or never; in `RuntimeController` requests come in any order. The
resolver stands before every request, and most services append to the audit chain.
`PROJECT.json` lists every part of the repository, with the reason for each one that is
not modelled.

## Modules

**`Projector`, `ExecutionEngine`** (one execution). `project_state` works over sets of
steps. `db` holds the committed rows, `draft` the rows as the session holding `lock` sees
them, `sess[s]` what session `s` has read; `keys` and `cache` are Redis; `live` counts
runtimes; `launched`, `lapsed`, `children` and `spoiled` are history, the last of whether a
transaction that was rolled back left a state of its rows in the cache. A handler is a load
step, whose guard is the handler's check, a write step, and `Commit`; a decision loads the
execution and the wait in two steps, as its two SELECTs may see different commits. A tick has
more steps, because Redis and the controller are reached in the middle of it. Its lease row
is added together with the dispatch that follows (`OpenLease`); a key that lapses between the
two is a row that has lapsed. `SetStatus` models the ORM:
assigning the value a session has loaded sends no UPDATE. `Abort` is an exception
anywhere. `SequenceTaken` is the unique index on `(execution_id, sequence)`.

**`RuntimeController`** (`rows`, `pods`, `stored` for the ready rows of `warm_pool_pods`,
`ready` for the manager's queue). The four requests of the gRPC service go through one
store statement or API call per step and may fail at each. The reconciler lists the rows
(`ListRuntimes`), later the pods (`DetectDrift`), then works through its report; the
heartbeat scanner and the replenisher do likewise with theirs. Pods start, end, vanish and
lose contact (phase Unknown, of which `stateFromPodPhase` makes no state); `Restart` loses
everything in memory and reloads the queue. There is one controller, as in the chart's
`values.yaml`. `deploy/helm/runtime-controller/values-prod.yaml:3` runs three, and nothing in
the code elects a leader: each would have a reconciler, a scanner and a queue of its own.
What the runs show is not shown of that deployment.

**`AuditChain`** (`entries`, per session `draft`, `lock`, and what the call under way has
read). One step per statement of `append`, the boundary entry included, then `Commit` or
`Rollback` of the caller's transaction. Hashes are symbolic: a hash is the tuple of what
it was computed from. `tenant_isolation` filters what a tenant's session reads.
`AuditLog` is what the callers rely on, a log that only grows.

**`WorkspaceOwnership`** (`workspace`, `members`, `challenges`, row `lock`s). A request reads
the challenge FOR UPDATE, the workspace, the memberships, flushes and commits; each is a
step. A failed check, a failed event and a lost connection are `Rollback`.

**`TenantResolver`** (`tenant`, `redis`, `local`). Time is discrete: a cache entry has the
time it has left, lookups and invalidations take at most `MaxLatency`. `age` and
`disturbed` are history. No process starts `listen_for_invalidations`, so the published
message has no effect.

`MC*` modules hold the instances for TLC, `*Proofs` the theorems.

## Runs

**A passing run says nothing about the calls and faults it leaves out.**

| Run | Includes | Shows; leaves out |
|---|---|---|
| `engine_approvals` | two gates (one skipped on timeout, one failing), decisions, scans, runtime failures, found secrets, aborts | approvals and timeouts strand nobody in `waiting_for_approval`, nothing passes an undecided gate; completions, lapses, hot changes |
| `engine_leases` | lapses, redelivery, aborted and refused launches, reprioritization, state reads that refill the cache | no two live leases, what a committed tick dispatched can be retried, completed means all steps; failures, rollbacks, hot changes |
| `engine_checkpoints` | captures, failed captures, periodic checkpoints and their clash, repeated and failed rollbacks, garbage collection, aborts, quota pauses | checkpoint plus journal equals journal, a rollback restores its checkpoint; lapses, gates |
| `engine_liveness` | two sessions, a gate skipped on timeout, decisions, cancel, pause, hot changes, compensation | waiting for approval ends; that the execution ends (see below) |
| `runtime_lifecycle` | four requests in two handlers, reconciler, scanner, lost pods, a restart | orphans are removed, lost runtimes noticed, what is over stays over in the end; the warm pool |
| `warm_pool` | launches, replenisher, reconciler, lost pods, a restart | the same two properties with warm pods; other requests, a second handler |
| `audit_chain` | staff and tenant sessions, legacy entries, rollbacks, erasure | verification accepts the chain, it implements `AuditLog`, appends end |
| `workspace_ownership` | all eleven requests, three users, two challenges, expiry, rollback | ownership takes two people; serial requests keep one owner |
| `tenant_resolver` | two replicas, every operation, failing Redis, dying writers | how long a replaced row is still served |
| `rejection_crosses_tick` | a gate opened while another step fails, a rejection | expected to fail: the rejected execution keeps waiting, with no undecided wait |
| `ownerless_workspace` | the same instance as `workspace_ownership` | expected to fail: a removal that overlaps a transfer removes the new owner |
| `resume_after_failure` | a failed execution with a checkpoint | expected to fail: a completed step is run again |

The three failing runs are under "findings" in `PROJECT.json`, with the quoted line.

### Properties stated in the modules that do not hold

They have no run among the above; each was refuted by TLC on an instance of the same
size.

| Property | How it fails |
|---|---|
| `TerminalIsFinal` | a tick that loaded the execution before its cancellation sets it to running |
| `DecisionsAreFinal` | a decision and a timeout scan both read the wait as undecided; the later write wins |
| `ActiveStepsAreTracked` | a tick launches a runtime and is rolled back; the runtime's `runtime_started` makes the step active without a lease row, and `_collect_retryable_steps` passes it over for good |
| `SnapshotMatchesJournal` without `~spoiled` | an aborted tick (a periodic checkpoint that finds number 1 taken is one way) leaves the state of its rows in the cache, and the next checkpoint is made from it |
| `SnapshotMatchesJournal` with two schedulers | two ticks capture states they read before each other's commits |
| `FailedRollbackChangesNothing` | the exception handler of `rollback` commits |
| `LaunchedStepsHaveCheckpoint` | a refused second launch rolls back the checkpoint of the first |
| `CompletedMeansAllSteps` with rollbacks | a tick that read the state before a rollback completes the execution that was rolled back |
| `CompletedMeansAllSteps`, `HotChangeKeepsActiveSteps` with hot changes | a change is validated before, and written after, a tick completed the execution or dispatched the step |
| `EveryNumberIsFree` (audit) | `next_sequence_number` is a maximum over the rows the session may see, the number is unique in the table: a tenant's append collides with another tenant's row and its request is rolled back |
| `SelfHeals` (tenants) | a Redis entry about to expire is copied into a process for another full time to live |
| `PausedUntilResumed` (runtimes) | the pod of a paused runtime is Running, so the next reconcile cycle sets the row to running |
| `PodsAreNotShared` (runtimes) | a lost warm pod's name is created again and dispatched while the first runtime's row still names it |

Two things one might expect of the engine are not claimed at all. A step may be launched more
than once per lease: after an aborted retry the lapsed row is found again behind a live key. An
execution may never end: a gate skipped on timeout (`scheduler.py:203`) leaves the active steps
without being completed, and the workflow.runtime consumer drops a message whose handler
failed (`main.py:3283`), for instance on a sequence number that was taken.

Also met while modelling: warm pods carry no `execution_id`, so every reconcile cycle deletes
them as orphans while the queue keeps their names, and a launch that is given such a name
fails without a cold start; nothing sets `idle_since`; nobody calls the heartbeat receiver;
`verify` through a tenant's session reports breaks in an intact chain; `export_attestation`
reads the range again after verifying it.

### Bounds

- Engine: two sessions are enough for a handler to act on rows another has changed.
  `MaxEvents`, `MaxLaunches`, `MaxLapses` and `MaxCheckpoints` stop new handlers and never
  cut one short. Workflows have two to four steps. `CheckpointInterval` is 100 in the code
  and 5 in `engine_checkpoints`, so that the periodic checkpoint comes after a numbered one.
  `engine_leases` starts as a resumed execution with step a completed, which leaves room for
  several attempts of b; `engine_liveness` starts from either. `Schedulers` is 1, as in the chart.
- Runtimes: one execution, as the actors meet on a single row and its pods; two
  handlers, so that a request acts on a row another has changed; one restart, which can
  hit every intermediate state. `MaxTarget` is 1 with the pool, 0 without. `Silent` is
  the set of executions whose heartbeats may stop.
- Audit: two sessions, two tenants, four entries: a legacy entry, the boundary and two
  entries, or four of one or two transactions.
- Workspaces: three users, two of them platform administrators, two challenges;
  `MaxJoins = 2` lets a member leave and come back with a new row. Sessions are
  interchangeable (SYMMETRY).
- Resolver: a time to live of 3 and a latency of 1 keep all the bounds apart; `Horizon`
  lies beyond the largest. One change, from any status: a second adds no new kind of
  staleness, since a bound concerns one replaced revision, and the proofs cover any number.
  Replicas and lookups are interchangeable.

Deadlock is not checked in the engine and runtime runs: an execution may end, and the
bounds stop the rest. In the others every state has a step.

### Fairness

`engine_liveness`: a started session goes on to its commit (weak fairness, each of two
sessions), and the scan job recurs (an APScheduler interval; strong fairness, because the
model's two sessions may both be busy with other requests, while the job has a connection of
its own). Nothing is assumed of ticks, runtimes or approvers, and `SequenceTaken` may abort
a session.

`runtime_lifecycle`, `warm_pool`: a request ends, the reconciler's ticker recurs (weak
fairness). A cycle that is tried again and again is not cut short every time, and the API
does not refuse one delete for ever (strong fairness). Nothing is assumed of pods,
scanner, replenisher or restarts.

`audit_chain`: transactions end, and Postgres grants the lock to a waiter in the end. The
first is an assumption about the callers: one that never ends, or that waits for a row lock
held by a waiter for this one, is not expressed.

## Proofs

All for every value of the constants, from the module's `ConstantsAssumption` alone. Each
strengthened invariant was checked with TLC before it was proved.

**Engine.** `TypeCorrect`; `WaitingIsOpen`, that an execution waiting for approval has a wait
that is undecided or was rejected. Ticks do not list such an execution, so without an
undecided wait it could not move again; `rejection_crosses_tick` shows that a rejection can
leave it so, and the theorem that nothing else can: no approval, timeout, tick, abort
or rollback, in any order. It is not inductive: a timeout sends no status UPDATE when its
session had loaded the status it assigns. `GateInv` adds that some open wait is `Informed`:
every scan about to decide it has loaded `waiting_for_approval`, so its assignment does change
the row, and an approval always does. It says so of committed and uncommitted rows, and that a
wait stays.

**Audit chain.** `ChainInv` says that the committed rows are a chain (numbered from 1,
each linked to its predecessor), that a session's view of committed and own rows is one
too, and that what a call inside the lock has read (latest hash, number) is still what it
would read now. `ChainTypes` gives mutual exclusion, without which the last part fails:
only the holder of the lock has uncommitted rows. From it follow `VerifyAccepts` and
`StaffAppendsSucceed`. `ChainImplementsLog` is the refinement: under the mapping `LogView`
a commit is an `AppendBatch`, an erasure an `EraseReference`, every other step a stutter.
A tenant's session, which may see the table with gaps, either links to the true last row or
has its insert refused; the refusal is part of the argument.

**Workspace ownership.** `TransfersTakeTwo` and `ConsumedTransfers` are action properties.
`Inv` adds to the types that a request is where its operation can be, that a session past
the FOR UPDATE of its challenge holds that lock and the challenge is as its checks found it,
that a challenge being created is nobody else's, and that an approved one has the second
signature. `SerialRequestsKeepOwner` uses `SerialInv`: while no two requests overlap, what
the request has read is what the tables hold.

**Tenant resolver.** `StaleForTwoTtls` and `StaleForOneTtl` follow from `Inv`, which bounds
the age of every value by where it is: in a lookup by the time it has taken, in
Redis by the entry's time left, in a process by the time left there on top of that. While
nothing was disturbed, a stale Redis entry has a writer that is about to delete it.

Only model-checked: all liveness (engine, audit, runtimes), `BoundarySeparatesFormats`, the
other engine properties, and everything about `RuntimeController`, whose properties
are liveness properties but for its types.

## Not modelled

In the modelled parts: creation of executions with quota checks, rerun, task plans,
traces, costs, priorities between executions, several executions at once; filling the state
cache is one step with the read. In the controller, secrets, artifacts, event streams
and metrics; pod names are unique per execution, while the code keeps eight characters of
the id. In the audit package, attestations and monitoring. In workspaces, goals, settings
and visibility. In tenants, the completion of a deletion, whose cascade the
append-only trigger of the audit table refuses, and `scheduled_deletion_at`.

The models stand for about 4000 lines of some 220000. Most of the rest is not within reach
of a state machine that says more than the code: request and response schemas, queries and
their presentation, the web applications, migrations, clients of external services and
models, scoring and statistics, deployment tooling. The parts of it that do hold protocol
state and would come next are the sandbox manager and the reasoning engine's budgets,
trigger and quota admission, billing under repeated webhooks, notification delivery with
retries, and the data lifecycle's deletion jobs.
