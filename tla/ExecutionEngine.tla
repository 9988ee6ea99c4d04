--------------------------- MODULE ExecutionEngine ---------------------------
(***************************************************************************)
(* One workflow execution of the control plane (execution/): its rows in   *)
(* Postgres, its Redis dispatch leases and state cache, the scheduler's    *)
(* tick, the approval timeout scan, the workflow.runtime consumer and the  *)
(* API handlers, all running concurrently.                                 *)
(*                                                                         *)
(* Every handler runs in a database session of its own and is one          *)
(* transaction.  A session first reads rows (READ COMMITTED), later writes *)
(* them, and commits or rolls back at its end; SQLAlchemy keeps the values *)
(* it has read, so a decision taken on a value read before another         *)
(* session's commit is not revised, and an assignment that equals the      *)
(* value read emits no UPDATE.  The first write of a session locks the     *)
(* row of the execution until the session ends.  Redis commands and the    *)
(* gRPC call that launches a runtime take effect at once and are not undone*)
(* when the transaction rolls back.                                        *)
(***************************************************************************)
EXTENDS Projector, FiniteSets, FiniteSetsExt

CONSTANTS
  Sessions,            \* database sessions that can be open at once
  NoSession,
  Schedulers,          \* processes that run the tick and scan jobs (1 in the chart)
  Versions,            \* workflow versions; the execution starts with FirstVersion
  FirstVersion,
  StepsOf,             \* StepsOf[v]: the step ids of version v
  DepsOf,              \* DepsOf[v][x]: the sources of x's incoming dag_edges
  Gates,               \* the steps of type approval_gate
  TimeoutAction,       \* TimeoutAction[g] \in {"fail", "skip", "escalate"}
  Capture,             \* the steps should_capture selects under the policy snapshot
  CheckpointInterval,  \* 100 in _maybe_checkpoint
  Precompleted,        \* the sets of precompleted step ids to start from
  Calls,               \* the handlers and faults this instance exercises
  MaxEvents,           \* bound on the journal: no handler starts near it
  MaxLaunches,         \* bound on the runtimes launched for one step
  MaxLapses,           \* bound on the leases of one step that lapse
  MaxCheckpoints       \* bound on the checkpoint rows

Steps == UNION {StepsOf[v] : v \in Versions}

(* ExecutionStatus without compensating, which nothing assigns.            *)
Statuses == {"queued", "running", "waiting_for_approval", "completed", "failed",
             "canceled", "paused", "paused_quota_exceeded", "rolled_back",
             "rollback_failed"}

Decisions == {"none", "pending", "approved", "rejected", "timed_out"}

ASSUME ConstantsAssumption ==
  /\ NoSession \notin Sessions
  /\ Schedulers \in Nat
  /\ FirstVersion \in Versions
  /\ NoStep \notin Steps
  /\ Gates \subseteq Steps
  /\ TimeoutAction \in [Gates -> {"fail", "skip", "escalate"}]
  /\ CheckpointInterval \in Nat \ {0}
  /\ MaxEvents \in Nat /\ MaxLaunches \in Nat
  /\ MaxLapses \in Nat /\ MaxCheckpoints \in Nat

ASSUME FiniteAssumption == IsFiniteSet(Sessions) /\ IsFiniteSet(Steps)

(* The compiler refuses a dependency on a step the version does not have.  *)
ASSUME DependenciesAssumption ==
  \A v \in Versions : \A x \in StepsOf[v] : DepsOf[v][x] \subseteq StepsOf[v]

VARIABLES
  db,        \* the committed rows of the execution
  lock,      \* the session that has written and not yet ended, or NoSession
  draft,     \* the rows as that session sees them (db when there is none)
  sess,      \* sess[s]: what session s is doing and has read
  keys,      \* the steps whose Redis key exec:lease:<execution>:<step> exists
  cache,     \* the cached ExecutionStateResponse, NoState when there is none
  live,      \* live[x]: runtimes launched for x that have not reported an end
  launched,  \* launched[x]: runtimes ever launched for x (history)
  lapsed,    \* lapsed[x]: leases of x whose 300 s have passed (history)
  children,  \* executions created by resume_execution (history)
  spoiled    \* a rollback has left a state of its rows in the cache (history)

vars == <<db, lock, draft, sess, keys, cache, live, launched, lapsed, children, spoiled>>

-----------------------------------------------------------------------------
(* The rows and the helpers that read and write them.                      *)

NoState == [view |-> EmptyView, last |-> 0]

(* get_latest_checkpoint: the highest number that is not superseded.       *)
LatestCheckpoint(d) ==
  LET valid == {c \in d.ckpts : ~c.superseded}
  IN  IF valid = {} THEN NoCheckpoint
      ELSE CHOOSE c \in valid : \A o \in valid : o.num <= c.num

(* A mutant of NextCheckpointNumber: checkpoints are counted instead.      *)
NextCheckpointNumberByCount(d) == Cardinality(d.ckpts) + 1

(* get_next_checkpoint_number: max(checkpoint_number) + 1, superseded ones *)
(* included.                                                               *)
NextCheckpointNumber(d) == Max({c.num : c \in d.ckpts} \cup {0}) + 1

(* The projection get_execution_state computes when the cache is empty.    *)
Project(d) == ProjectState(d.journal, LatestCheckpoint(d))

(* A mutant of AddCheckpoint: last_event_sequence is the journal's length, *)
(* not the sequence number the captured state stands for.                  *)
AddCheckpointAtEnd(d, num, st) ==
  [d EXCEPT !.ckpts = @ \cup {[num |-> num, view |-> st.view, last |-> Len(d.journal),
                               superseded |-> FALSE]}]

AddCheckpoint(d, num, st) ==
  [d EXCEPT !.ckpts = @ \cup {[num |-> num, view |-> st.view, last |-> st.last,
                               superseded |-> FALSE]}]

Log(d, type, step) == [d EXCEPT !.journal = Append(@, Event(type, step))]

(* update_execution_status: an UPDATE is sent only when the value differs  *)
(* from the one the session has loaded.                                    *)
SetStatus(d, loadedStatus, new) ==
  IF new = loadedStatus THEN d ELSE [d EXCEPT !.status = new]

(* The rows session s sees: its own uncommitted writes or the committed    *)
(* ones.                                                                   *)
Rows(s) == IF lock = s THEN draft ELSE db

CachedOr(d) == IF cache # NoState THEN cache ELSE Project(d)

(* The dispatch lease rows of step x, oldest first, are leases[x]; a row   *)
(* lapses when its expires_at passes.  get_active_dispatch_lease returns   *)
(* the newest row that is not released, here its index (0 for None).       *)
ActiveLease(d, x) ==
  Max({i \in DOMAIN d.leases[x] : d.leases[x][i] # "released"} \cup {0})


(* The row _acquire_lease adds right after its SET NX.  The model adds it  *)
(* with the dispatch, so a lease whose key is gone by then has lapsed.     *)
OpenLease(d, x) ==
  [d EXCEPT !.leases[x] = Append(@, IF x \in keys THEN "live" ELSE "lapsed")]

(* release_dispatch_lease on the rows the session has loaded, one index    *)
(* per step (0: none).                                                     *)
ReleaseLeases(d, rows) ==
  [d EXCEPT !.leases = [x \in Steps |-> IF rows[x] = 0 THEN @[x]
                                        ELSE [@[x] EXCEPT ![rows[x]] = "released"]]]

(* A mutant of Runnable: a dependency that is running is good enough.      *)
RunnableEagerly(v, view) ==
  {x \in StepsOf[v] : /\ x \notin view.completed \cup view.active
                      /\ DepsOf[v][x] \subseteq view.completed \cup view.active}

(* _runnable_steps.                                                        *)
Runnable(v, view) ==
  {x \in StepsOf[v] : /\ x \notin view.completed \cup view.active
                      /\ DepsOf[v][x] \subseteq view.completed}

(* The lease rows _collect_retryable_steps releases: those of steps taken  *)
(* for active whose row has lapsed or whose Redis key is gone.             *)
Expired(d, view) ==
  [x \in Steps |->
     LET i == ActiveLease(d, x)
     IN  IF x \in view.active /\ i > 0 /\ (d.leases[x][i] = "lapsed" \/ x \notin keys)
         THEN i ELSE 0]

-----------------------------------------------------------------------------
(* Sessions.                                                               *)

NoRows == [x \in Steps |-> 0]

Idle == [op |-> "idle", pc |-> "idle", step |-> NoStep, num |-> 0, status |-> "queued",
         version |-> FirstVersion, seen |-> NoState, fresh |-> FALSE,
         todo |-> {}, rows |-> NoRows]

(* Session s starts a handler and loads the executions row.                *)
Load(s, op, step, num) ==
  /\ op \in Calls
  /\ sess[s].op = "idle"
  /\ Len(db.journal) < MaxEvents
  /\ sess' = [sess EXCEPT ![s] = [Idle EXCEPT !.op = op, !.pc = "loaded", !.step = step,
                !.num = num, !.status = db.status, !.version = db.version]]
  /\ UNCHANGED <<db, lock, draft, keys, lapsed, launched, children, spoiled>>

(* A session writes its rows: it must hold the lock, or take it.           *)
Write(s, d) ==
  /\ lock \in {NoSession, s}
  /\ lock' = s
  /\ draft' = d
  /\ UNCHANGED db

(* The commit at the end of a request, tick or message.                    *)
Commit(s) ==
  /\ sess[s].pc = "done"
  /\ sess' = [sess EXCEPT ![s] = Idle]
  /\ lock' = IF lock = s THEN NoSession ELSE lock
  /\ db' = Rows(s)
  /\ UNCHANGED <<draft, keys, cache, live, launched, lapsed, children, spoiled>>

(* A mutant of Rollback: the session's writes survive it.                  *)
RollbackKeepsWrites(s) ==
  /\ sess' = [sess EXCEPT ![s] = Idle]
  /\ lock' = IF lock = s THEN NoSession ELSE lock
  /\ spoiled' = (spoiled \/ (lock = s /\ cache'.last > Len(db.journal)))
  /\ UNCHANGED <<db, draft>>

(* An exception (a Kafka producer error, a lost connection, a sequence     *)
(* number taken) rolls the transaction back; what it did to Redis and to   *)
(* the runtime controller stays, a cached state of its rows included.      *)
Rollback(s) ==
  /\ sess' = [sess EXCEPT ![s] = Idle]
  /\ lock' = IF lock = s THEN NoSession ELSE lock
  /\ draft' = IF lock = s THEN db ELSE draft
  /\ spoiled' = (spoiled \/ (lock = s /\ cache'.last > Len(db.journal)))
  /\ UNCHANGED db

Abort(s) ==
  /\ "abort" \in Calls
  /\ sess[s].op # "idle"
  /\ UNCHANGED <<keys, cache, live, launched, lapsed, children>>
  /\ Rollback(s)

At(s, op, pc) == sess[s].op = op /\ sess[s].pc = pc
Goto(s, pc) == sess' = [sess EXCEPT ![s].pc = pc]

(* The rows after d, if d differs from what the session already sees.      *)
Save(s, d) == IF d = Rows(s) THEN UNCHANGED <<db, lock, draft>> ELSE Write(s, d)

-----------------------------------------------------------------------------
(* SchedulerService.tick and _process_execution.                           *)

(* APScheduler runs at most one instance of a job per process.             *)
JobFree(op) == Cardinality({t \in Sessions : sess[t].op = op}) < Schedulers

TickList(s) ==
  /\ JobFree("tick")
  /\ db.status \in {"queued", "running"}
  /\ Cardinality(db.ckpts) < MaxCheckpoints
  /\ \A x \in Steps : launched[x] < MaxLaunches
  /\ Load(s, "tick", NoStep, 0)
  /\ UNCHANGED <<cache, live>>

(* get_execution_state and get_events.  Reading the rows and filling the   *)
(* cache are one step: a fill that races a writer's cache deletion is      *)
(* already possible, because the writer deletes before it commits.         *)
TickRead(s) ==
  /\ At(s, "tick", "loaded")
  /\ LET fresh == Len(db.journal) = 1
     IN  sess' = [sess EXCEPT ![s].seen = CachedOr(db), ![s].fresh = fresh,
                              ![s].pc = IF fresh THEN "fresh" ELSE "collect"]
  /\ cache' = CachedOr(db)
  /\ UNCHANGED <<db, lock, draft, keys, live, launched, lapsed, children, spoiled>>

(* The first tick of an execution logs queued and reads the state again,   *)
(* which caches the projection of rows that are not committed yet.         *)
TickQueued(s) ==
  LET d == Log(Rows(s), "queued", NoStep)
  IN  /\ At(s, "tick", "fresh")
      /\ Write(s, d)
      /\ cache' = Project(d)
      /\ sess' = [sess EXCEPT ![s].seen = Project(d), ![s].pc = "collect"]
      /\ UNCHANGED <<keys, live, launched, lapsed, children, spoiled>>

(* handle_reprioritization_trigger, when 80% of the SLA window is used.    *)
TickReprioritize(s) ==
  /\ "sla" \in Calls
  /\ At(s, "tick", "collect")
  /\ sess[s].num = 0
  /\ Write(s, Log(Rows(s), "reprioritized", NoStep))
  /\ cache' = NoState
  /\ sess' = [sess EXCEPT ![s].num = 1]
  /\ UNCHANGED <<keys, live, launched, lapsed, children, spoiled>>

(* The steps to process: the runnable ones and the retryable ones that the *)
(* version still has.                                                      *)
Planned(r) ==
  LET todo == Runnable(r.version, r.seen.view)
                \cup {x \in StepsOf[r.version] : r.rows[x] > 0}
  IN  [r EXCEPT !.todo = todo, !.pc = IF todo = {} THEN "finish" ELSE "loop"]

(* _collect_retryable_steps: read the lease rows, delete the Redis keys of *)
(* the expired ones ...                                                    *)
TickCollect(s) ==
  LET rows == Expired(Rows(s), sess[s].seen.view)
      r    == [sess[s] EXCEPT !.rows = rows]
  IN  /\ At(s, "tick", "collect")
      /\ keys' = {x \in keys : rows[x] = 0}
      /\ sess' = [sess EXCEPT ![s] = IF rows = NoRows THEN Planned(r)
                                     ELSE [r EXCEPT !.pc = "release"]]
      /\ UNCHANGED <<db, lock, draft, cache, live, launched, lapsed, children, spoiled>>

(* ... and release them.                                                   *)
TickRelease(s) ==
  /\ At(s, "tick", "release")
  /\ Write(s, ReleaseLeases(Rows(s), sess[s].rows))
  /\ sess' = [sess EXCEPT ![s] = Planned(@)]
  /\ UNCHANGED <<keys, cache, live, launched, lapsed, children, spoiled>>

(* A mutant of AllStepsCounted: no step is pending.                        *)
NoStepPending(r) == r.seen.view.pending = {}

AllStepsCounted(r) == Cardinality(r.seen.view.completed) = Cardinality(StepsOf[r.version])

(* Nothing to process: the execution completes when as many steps are      *)
(* completed as the version has.                                           *)
TickFinish(s) ==
  /\ At(s, "tick", "finish")
  /\ IF AllStepsCounted(sess[s])
     THEN /\ Write(s, Log(SetStatus(Rows(s), sess[s].status, "completed"),
                          "completed", NoStep))
          /\ cache' = NoState
     ELSE UNCHANGED <<db, lock, draft, cache>>
  /\ Goto(s, "done")
  /\ UNCHANGED <<keys, live, launched, lapsed, children, spoiled>>

(* The rows after _capture_pre_dispatch_checkpoint.                        *)
Captured(s, x) ==
  IF x \in Capture
  THEN AddCheckpoint(Rows(s), NextCheckpointNumber(Rows(s)), sess[s].seen)
  ELSE Rows(s)

Processing(s, x) == At(s, "tick", "loop") /\ x \in sess[s].todo

(* On to the next step of the loop, with the status the session now has.   *)
Advance(s, x, status) ==
  LET todo == sess[s].todo \ {x}
  IN  sess' = [sess EXCEPT ![s].todo = todo, ![s].status = status,
                           ![s].pc = IF todo = {} THEN "done" ELSE "loop"]

(* The capture fails (size limit): the execution is paused.                *)
TickCaptureFails(s, x) ==
  /\ "capture_fails" \in Calls
  /\ Processing(s, x)
  /\ x \in Capture
  /\ Write(s, Log(SetStatus(Rows(s), sess[s].status, "paused"), "failed", x))
  /\ cache' = NoState
  /\ Goto(s, "done")
  /\ UNCHANGED <<keys, live, launched, lapsed, children, spoiled>>

(* A gate that already has an approval wait, decided or not, and a step    *)
(* whose lease is taken are passed over, after the capture.                *)
TickSkip(s, x) ==
  /\ Processing(s, x)
  /\ IF x \in Gates THEN Rows(s).waits[x] # "none" ELSE x \in keys
  /\ Save(s, Captured(s, x))
  /\ Advance(s, x, sess[s].status)
  /\ UNCHANGED <<keys, cache, live, launched, lapsed, children, spoiled>>

(* _handle_approval_gate.                                                  *)
TickGate(s, x) ==
  /\ Processing(s, x)
  /\ x \in Gates
  /\ Rows(s).waits[x] = "none"
  /\ Write(s, Log(SetStatus([Captured(s, x) EXCEPT !.waits[x] = "pending"],
                            sess[s].status, "waiting_for_approval"),
                  "waiting_for_approval", x))
  /\ cache' = NoState
  /\ Advance(s, x, "waiting_for_approval")
  /\ UNCHANGED <<keys, live, launched, lapsed, children, spoiled>>

(* A mutant of TickAcquire: SET without NX.                                *)
TickAcquireAnyway(s, x) ==
  /\ Processing(s, x)
  /\ x \notin Gates
  /\ keys' = keys \cup {x}
  /\ Save(s, Captured(s, x))
  /\ sess' = [sess EXCEPT ![s].step = x, ![s].pc = "leased"]
  /\ UNCHANGED <<cache, live, launched, lapsed, children, spoiled>>

(* _acquire_lease succeeds: SET NX on the Redis key, before the session    *)
(* waits for any lock.                                                     *)
TickAcquire(s, x) ==
  /\ Processing(s, x)
  /\ x \notin Gates
  /\ x \notin keys
  /\ keys' = keys \cup {x}
  /\ Save(s, Captured(s, x))
  /\ sess' = [sess EXCEPT ![s].step = x, ![s].pc = "leased"]
  /\ UNCHANGED <<cache, live, launched, lapsed, children, spoiled>>

(* The prompt preflight finds a secret: the lease row is released, the     *)
(* Redis key is not.                                                       *)
TickSecretLeak(s) ==
  LET x == sess[s].step
      d == [Rows(s) EXCEPT !.leases[x] = Append(@, "released")]
  IN  /\ "leak" \in Calls
      /\ At(s, "tick", "leased")
      /\ Write(s, Log(SetStatus(d, sess[s].status, "failed"), "failed", x))
      /\ cache' = NoState
      /\ Goto(s, "done")
      /\ UNCHANGED <<keys, live, launched, lapsed, children, spoiled>>

(* The rows when the runtime of the leased step is launched.               *)
Dispatched(s, x) ==
  Log(SetStatus(OpenLease(Rows(s), x), sess[s].status, "running"),
      IF sess[s].rows[x] > 0 THEN "retried" ELSE "dispatched", x)

CheckpointDue(d) == Len(d.journal) % CheckpointInterval = 0
NumberOneTaken(d) == \E c \in d.ckpts : c.num = 1

Launch(x) ==
  /\ live' = [live EXCEPT ![x] = @ + 1]
  /\ launched' = [launched EXCEPT ![x] = @ + 1]

(* _dispatch_to_runtime and _maybe_checkpoint, whose checkpoint has the    *)
(* column default as its number: 1.                                        *)
TickLaunch(s) ==
  LET x == sess[s].step
      d == Dispatched(s, x)
  IN  /\ At(s, "tick", "leased")
      /\ ~ (CheckpointDue(d) /\ NumberOneTaken(d))
      /\ Write(s, IF CheckpointDue(d) THEN AddCheckpoint(d, 1, Project(d)) ELSE d)
      /\ cache' = IF CheckpointDue(d) THEN Project(d) ELSE NoState
      /\ Launch(x)
      /\ Advance(s, x, "running")
      /\ UNCHANGED <<keys, lapsed, children, spoiled>>

(* The number is taken: the unique constraint aborts the tick, after the   *)
(* launch.                                                                 *)
TickCheckpointClash(s) ==
  LET x == sess[s].step
      d == Dispatched(s, x)
  IN  /\ At(s, "tick", "leased")
      /\ lock \in {NoSession, s}
      /\ CheckpointDue(d) /\ NumberOneTaken(d)
      /\ cache' = Project(d)
      /\ Rollback(s)
      /\ Launch(x)
      /\ UNCHANGED <<keys, lapsed, children>>

(* The runtime controller refuses the launch: the exception aborts the     *)
(* whole tick and the Redis key stays.                                     *)
TickLaunchFails(s) ==
  /\ "launch_fails" \in Calls
  /\ At(s, "tick", "leased")
  /\ lock \in {NoSession, s}
  /\ cache' = NoState
  /\ Rollback(s)
  /\ UNCHANGED <<keys, live, launched, lapsed, children>>

Tick(s) ==
  \/ TickList(s) \/ TickRead(s) \/ TickQueued(s) \/ TickReprioritize(s)
  \/ TickCollect(s) \/ TickRelease(s) \/ TickFinish(s)
  \/ \E x \in Steps : \/ TickCaptureFails(s, x) \/ TickSkip(s, x)
                      \/ TickGate(s, x) \/ TickAcquire(s, x)
  \/ TickSecretLeak(s) \/ TickLaunch(s) \/ TickCheckpointClash(s) \/ TickLaunchFails(s)

-----------------------------------------------------------------------------
(* Handlers that write once: each has a load step, whose guard is the      *)
(* handler's check, and a write step on what was loaded.                   *)

(* The handler's writes, its cache deletion, and on to the commit.         *)
Apply1(s, d) ==
  /\ sess[s].pc = "loaded"
  /\ Write(s, d)
  /\ cache' = NoState
  /\ Goto(s, "done")
  /\ UNCHANGED <<keys, live, launched, lapsed, children, spoiled>>

(* cancel_execution.                                                       *)
CancelLoad(s) ==
  /\ db.status \notin {"completed", "failed", "canceled"}
  /\ Load(s, "cancel", NoStep, 0)
  /\ UNCHANGED <<cache, live>>

CancelWrite(s) ==
  /\ sess[s].op = "cancel"
  /\ Apply1(s, Log(SetStatus(Rows(s), sess[s].status, "canceled"), "canceled", NoStep))

(* pause_execution: no journal row.                                        *)
PauseLoad(s) ==
  /\ db.status \in {"queued", "running"}
  /\ Load(s, "pause", NoStep, 0)
  /\ UNCHANGED <<cache, live>>

PauseWrite(s) ==
  /\ sess[s].op = "pause"
  /\ Apply1(s, SetStatus(Rows(s), sess[s].status, "paused"))

(* resume_paused_quota_exceeded.                                           *)
OverageLoad(s) ==
  /\ db.status = "paused_quota_exceeded"
  /\ Load(s, "overage", NoStep, 0)
  /\ UNCHANGED <<cache, live>>

OverageWrite(s) ==
  /\ sess[s].op = "overage"
  /\ Apply1(s, Log(SetStatus(Rows(s), sess[s].status, "queued"), "resumed", NoStep))

(* record_approval_decision loads the executions row first ...             *)
DecisionLoad(s, op, g) ==
  /\ op \in Calls
  /\ sess[s].op = "idle"
  /\ Len(db.journal) < MaxEvents
  /\ sess' = [sess EXCEPT ![s] = [Idle EXCEPT !.op = op, !.pc = "asked", !.step = g,
                                              !.status = db.status]]
  /\ UNCHANGED <<db, lock, draft, keys, cache, live, launched, lapsed, children, spoiled>>

(* ... and the wait in a second SELECT, which may see rows committed in    *)
(* between; a wait that is missing or decided ends the request.            *)
DecisionRead(s) ==
  /\ sess[s].op \in {"approve", "reject"}
  /\ sess[s].pc = "asked"
  /\ sess' = [sess EXCEPT ![s] = IF db.waits[@.step] = "pending"
                                 THEN [@ EXCEPT !.pc = "loaded"] ELSE Idle]
  /\ UNCHANGED <<db, lock, draft, keys, cache, live, launched, lapsed, children, spoiled>>

(* A timeout scan updates the wait before it writes the execution, and     *)
(* keeps the wait's row locked meanwhile.                                  *)
WaitLockedByScan(g) ==
  \E t \in Sessions : At(t, "scan", "loaded") /\ g \in sess[t].todo

(* A mutant of ApproveWrite: the execution is not queued again.            *)
ApproveWriteOnly(s) ==
  LET g == sess[s].step
  IN  /\ sess[s].op = "approve"
      /\ ~WaitLockedByScan(g)
      /\ Apply1(s, Log(Log([Rows(s) EXCEPT !.waits[g] = "approved"],
                           "approved", g), "resumed", g))

(* An approval sets the status to running and then to queued, so the       *)
(* second assignment always emits an UPDATE.                               *)
ApproveWrite(s) ==
  LET g == sess[s].step
  IN  /\ sess[s].op = "approve"
      /\ ~WaitLockedByScan(g)
      /\ Apply1(s, Log(Log(SetStatus([Rows(s) EXCEPT !.waits[g] = "approved"],
                                     "running", "queued"), "approved", g), "resumed", g))

(* Any decision but approved is handled as a rejection; the model records  *)
(* it as rejected.                                                         *)
RejectWrite(s) ==
  LET g == sess[s].step
  IN  /\ sess[s].op = "reject"
      /\ ~WaitLockedByScan(g)
      /\ Apply1(s, Log(SetStatus([Rows(s) EXCEPT !.waits[g] = "rejected"],
                                 sess[s].status, "failed"), "rejected", g))

(* trigger_compensation: allowed for a step the (cached) state shows as    *)
(* completed.                                                              *)
CompensateLoad(s, x) ==
  /\ x \in CachedOr(db).view.completed \cap StepsOf[db.version]
  /\ Load(s, "compensate", x, 0)
  /\ cache' = CachedOr(db)
  /\ UNCHANGED live

CompensateWrite(s) ==
  /\ sess[s].op = "compensate"
  /\ Apply1(s, Log(Rows(s), "compensated", sess[s].step))

(* apply_hot_change: validate_compatibility looks at the (cached) active   *)
(* steps of the old version only; they must exist in the new one.  Steps   *)
(* keep their type, agent, tool and bindings from one version to the next. *)
HotChangeLoad(s, v) ==
  /\ v # db.version
  /\ CachedOr(db).view.active \cap StepsOf[db.version] \subseteq StepsOf[v]
  /\ Load(s, "hot_change", NoStep, v)
  /\ cache' = CachedOr(db)
  /\ UNCHANGED live

HotChangeWrite(s) ==
  /\ sess[s].op = "hot_change"
  /\ Apply1(s, Log([Rows(s) EXCEPT !.version = sess[s].num], "hot_changed", NoStep))

(* The workflow.runtime consumer.  A runtime reports that it started, and  *)
(* at its end that the step completed or failed.  The offset is committed  *)
(* after the handler, so a crash in between delivers the message again.    *)
RuntimeEvents == {"runtime_started", "completed", "failed"}

RuntimeLoad(s, type, x) ==
  /\ type \in RuntimeEvents
  /\ live[x] > 0
  /\ Load(s, type, x, 0)
  /\ \/ type # "runtime_started" /\ live' = [live EXCEPT ![x] = @ - 1]
     \/ (type = "runtime_started" \/ "redelivery" \in Calls) /\ UNCHANGED live
  /\ UNCHANGED cache

RuntimeWrite(s) ==
  LET type == sess[s].op
      new  == IF type = "failed" THEN "failed" ELSE "running"
  IN  /\ type \in RuntimeEvents
      /\ Apply1(s, Log(SetStatus(Rows(s), sess[s].status, new), type, sess[s].step))

(* scan_approval_timeouts: the overdue undecided waits are listed, then    *)
(* the waits are updated (which waits for a decision being written) and    *)
(* the execution is loaded, then its status and journal are written.       *)
ScanList(s, overdue) ==
  /\ "scan" \in Calls
  /\ JobFree("scan")
  /\ sess[s].op = "idle"
  /\ overdue # {}
  /\ \A g \in overdue : db.waits[g] = "pending"
  /\ sess' = [sess EXCEPT ![s] = [Idle EXCEPT !.op = "scan", !.pc = "listed",
                                              !.todo = overdue]]
  /\ UNCHANGED <<db, lock, draft, keys, cache, live, launched, lapsed, children, spoiled>>

ScanFetch(s) ==
  /\ At(s, "scan", "listed")
  /\ \A t \in Sessions : ~ (/\ sess[t].op \in {"approve", "reject"}
                            /\ sess[t].pc = "done"
                            /\ sess[t].step \in sess[s].todo)
  /\ sess' = [sess EXCEPT ![s].pc = "loaded", ![s].status = db.status]
  /\ UNCHANGED <<db, lock, draft, keys, cache, live, launched, lapsed, children, spoiled>>

TimeoutStatus(g) == IF TimeoutAction[g] = "fail" THEN "failed" ELSE "running"
TimeoutDecision(g) == IF TimeoutAction[g] = "skip" THEN "approved" ELSE "timed_out"

(* A mutant of TimedOut: the execution's status is not updated.            *)
TimedOutSilently(d, loadedStatus, order) ==
  [d EXCEPT
     !.waits = [g \in Gates |-> IF g \in Range(order) THEN TimeoutDecision(g) ELSE @[g]],
     !.journal = @ \o [i \in DOMAIN order |-> Event("approval_timed_out", order[i])]]

(* The rows after the listed waits, taken in this order: the last one's    *)
(* status stands, unless every assignment equals the status loaded.        *)
TimedOut(d, loadedStatus, order) ==
  [d EXCEPT
     !.waits = [g \in Gates |-> IF g \in Range(order) THEN TimeoutDecision(g) ELSE @[g]],
     !.status = IF \A i \in DOMAIN order : TimeoutStatus(order[i]) = loadedStatus
                THEN @ ELSE TimeoutStatus(order[Len(order)]),
     !.journal = @ \o [i \in DOMAIN order |-> Event("approval_timed_out", order[i])]]

ScanWrite(s) ==
  /\ sess[s].op = "scan"
  /\ \E order \in Bijection(1..Cardinality(sess[s].todo), sess[s].todo) :
       Apply1(s, TimedOut(Rows(s), sess[s].status, order))

(* CheckpointService.rollback.  It appends to the journal without going    *)
(* through _append_domain_event, so the cached state stays.                *)
RollbackEligible == {"paused", "waiting_for_approval", "failed", "rolled_back"}

RollbackLoad(s, n) ==
  /\ db.status \in RollbackEligible
  /\ \E c \in db.ckpts : c.num = n
  /\ Load(s, "rollback", NoStep, n)
  /\ UNCHANGED <<cache, live>>


(* mark_superseded_after assigns the flag of every checkpoint, so one that *)
(* an earlier rollback had superseded is in use again when it is not above *)
(* the target.                                                             *)
SupersedeAfter(d, n) ==
  [d EXCEPT !.ckpts = {[c EXCEPT !.superseded = (c.num > n)] : c \in @}]

RolledBack(d, loadedStatus, n) ==
  LET target == CHOOSE c \in d.ckpts : c.num = n
  IN  [SupersedeAfter(SetStatus(d, loadedStatus, "rolled_back"), n)
         EXCEPT !.pins = @ \cup {n},
                !.journal = Append(@, EventWith("rolled_back", target.view))]

RollbackWrite(s) ==
  /\ At(s, "rollback", "loaded")
  /\ \E c \in Rows(s).ckpts : c.num = sess[s].num
  /\ Write(s, RolledBack(Rows(s), sess[s].status, sess[s].num))
  /\ Goto(s, "done")
  /\ UNCHANGED <<keys, cache, live, launched, lapsed, children, spoiled>>

(* Publishing the event fails: the handler marks the rollback failed and   *)
(* commits, with everything it had written before.                         *)
RollbackPublishFails(s) ==
  /\ "rollback_fails" \in Calls
  /\ At(s, "rollback", "loaded")
  /\ \E c \in Rows(s).ckpts : c.num = sess[s].num
  /\ Write(s, [RolledBack(Rows(s), sess[s].status, sess[s].num)
                 EXCEPT !.status = "rollback_failed"])
  /\ Goto(s, "done")
  /\ UNCHANGED <<keys, cache, live, launched, lapsed, children, spoiled>>

Handler(s) ==
  \/ CancelLoad(s) \/ CancelWrite(s) \/ PauseLoad(s) \/ PauseWrite(s)
  \/ OverageLoad(s) \/ OverageWrite(s)
  \/ \E g \in Gates, op \in {"approve", "reject"} : DecisionLoad(s, op, g)
  \/ DecisionRead(s) \/ ApproveWrite(s) \/ RejectWrite(s)
  \/ \E x \in Steps : CompensateLoad(s, x)
  \/ CompensateWrite(s)
  \/ \E v \in Versions : HotChangeLoad(s, v)
  \/ HotChangeWrite(s)
  \/ \E x \in Steps, type \in RuntimeEvents : RuntimeLoad(s, type, x)
  \/ RuntimeWrite(s)
  \/ \E overdue \in SUBSET Gates : ScanList(s, overdue)
  \/ ScanFetch(s) \/ ScanWrite(s)
  \/ \E n \in 1..MaxCheckpoints : RollbackLoad(s, n)
  \/ RollbackWrite(s) \/ RollbackPublishFails(s)

(* The next thing session s does appends to the journal.                   *)
Appending(s) ==
  \/ sess[s].op \notin {"tick", "pause"} /\ sess[s].pc = "loaded"
  \/ sess[s].op = "tick" /\ sess[s].pc \in {"fresh", "leased"}
  \/ At(s, "tick", "finish") /\ AllStepsCounted(sess[s])
  \/ \E g \in Gates : Processing(s, g) /\ Rows(s).waits[g] = "none"

(* append_event counts the committed rows to number its own.  Against      *)
(* another session's uncommitted row the number is taken: the unique index *)
(* on (execution_id, sequence) aborts the transaction.  (When both         *)
(* sessions update the executions row the second waits for the first       *)
(* instead; the model allows either.)                                      *)
SequenceTaken(s) ==
  /\ Appending(s)
  /\ lock \notin {NoSession, s}
  /\ Len(draft.journal) > Len(db.journal)
  /\ UNCHANGED <<keys, cache, live, launched, lapsed, children>>
  /\ Rollback(s)

-----------------------------------------------------------------------------
(* Requests that are one step, and time.                                   *)

(* GET /executions/{id}/state.                                             *)
ReadState ==
  /\ "read" \in Calls
  /\ cache' = CachedOr(db)
  /\ UNCHANGED <<db, lock, draft, sess, keys, live, launched, lapsed, children, spoiled>>

(* resume_execution: a new execution with the completed steps of the       *)
(* latest checkpoint, or of the journal when there is no checkpoint.       *)
ResumeExecution ==
  LET c    == LatestCheckpoint(db)
      done == Replay(db.journal).view.completed
  IN  /\ "resume" \in Calls
      /\ db.status \notin {"queued", "running", "waiting_for_approval"}
      /\ children' = children \cup
           {[pre |-> IF c # NoCheckpoint THEN c.view.completed ELSE done,
             had |-> done, from |-> db.status]}
      /\ UNCHANGED <<db, lock, draft, sess, keys, cache, live, launched, lapsed, spoiled>>

(* gc_expired: checkpoints older than the retention period that no         *)
(* rollback action has restored are deleted.                               *)
GcExpired(n) ==
  LET kept == {c \in db.ckpts : c.num > n \/ c.num \in db.pins}
  IN  /\ "gc" \in Calls
      /\ lock = NoSession
      /\ db' = [db EXCEPT !.ckpts = kept]
      /\ draft' = db'
      /\ UNCHANGED <<lock, sess, keys, cache, live, launched, lapsed, children, spoiled>>

Lapse(d, x) ==
  [d EXCEPT !.leases[x] = [i \in DOMAIN @ |-> IF @[i] = "live" THEN "lapsed" ELSE @[i]]]

(* 300 s after SET NX the key is gone and the row's expires_at has passed. *)
LeaseLapses(x) ==
  /\ "lapse" \in Calls
  /\ x \in keys
  /\ lapsed[x] < MaxLapses
  /\ keys' = keys \ {x}
  /\ db' = Lapse(db, x)
  /\ draft' = Lapse(draft, x)
  /\ lapsed' = [lapsed EXCEPT ![x] = @ + 1]
  /\ UNCHANGED <<lock, sess, cache, live, launched, children, spoiled>>

(* 30 s after it was filled the cached state is gone.                      *)
CacheExpires ==
  /\ cache # NoState
  /\ cache' = NoState
  /\ UNCHANGED <<db, lock, draft, sess, keys, live, launched, lapsed, children, spoiled>>

Environment ==
  \/ ReadState \/ ResumeExecution \/ CacheExpires
  \/ \E n \in 1..MaxCheckpoints : GcExpired(n)
  \/ \E x \in Steps : LeaseLapses(x)

(* create_execution: quota permitting, the execution is queued, with a     *)
(* created event; a resumed one also has a resumed event.                  *)
Created(pre) ==
  EventWith("created", [completed |-> pre, active |-> {}, pending |-> StepsOf[FirstVersion]])

Init ==
  /\ \E pre \in Precompleted :
     \E status \in {"queued"} \cup (Calls \cap {"overage"}) :
     \E resumed \in {pre # {}, TRUE} :
       db = [status  |-> IF status = "queued" THEN status ELSE "paused_quota_exceeded",
             version |-> FirstVersion,
             journal |-> IF resumed THEN <<Created(pre), Event("resumed", NoStep)>>
                         ELSE <<Created(pre)>>,
             waits   |-> [g \in Gates |-> "none"],
             leases  |-> [x \in Steps |-> <<>>],
             ckpts   |-> {},
             pins    |-> {}]
  /\ lock = NoSession
  /\ draft = db
  /\ sess = [s \in Sessions |-> Idle]
  /\ keys = {}
  /\ cache = NoState
  /\ live = [x \in Steps |-> 0]
  /\ launched = [x \in Steps |-> 0]
  /\ lapsed = [x \in Steps |-> 0]
  /\ children = {}
  /\ spoiled = FALSE

Next ==
  \/ \E s \in Sessions : Tick(s) \/ Handler(s) \/ Commit(s) \/ Abort(s) \/ SequenceTaken(s)
  \/ Environment

Spec == Init /\ [][Next]_vars

-----------------------------------------------------------------------------
(* Properties.                                                             *)

RowsOK(d) ==
  /\ DOMAIN d = {"status", "version", "journal", "waits", "leases", "ckpts", "pins"}
  /\ d.status \in Statuses
  /\ d.version \in Versions
  /\ d.waits \in [Gates -> Decisions]
  /\ d.leases \in [Steps -> Seq({"live", "lapsed", "released"})]

SessionOK(r) ==
  /\ DOMAIN r = DOMAIN Idle
  /\ r.status \in Statuses
  /\ r.version \in Versions
  /\ r.step \in Steps \cup {NoStep}
  /\ r.todo \subseteq Steps

(* The types of the rows, committed and uncommitted, of the sessions, of   *)
(* Redis and of the runtimes; only a session that holds the lock has       *)
(* uncommitted rows.                                                       *)
TypeOK ==
  /\ RowsOK(db) /\ RowsOK(draft)
  /\ lock \in Sessions \cup {NoSession}
  /\ lock = NoSession => draft = db
  /\ DOMAIN sess = Sessions
  /\ \A s \in Sessions : SessionOK(sess[s])
  /\ keys \subseteq Steps
  /\ live \in [Steps -> Nat] /\ launched \in [Steps -> Nat] /\ lapsed \in [Steps -> Nat]
  /\ spoiled \in BOOLEAN

(* No two checkpoints of an execution have the same number, garbage        *)
(* collection and rollbacks in between included.                           *)
CheckpointNumbersUnique ==
  \A c1, c2 \in draft.ckpts : c1.num = c2.num => c1 = c2

(* The state get_execution_state computes from the latest checkpoint and   *)
(* the journal after it is the one the whole journal gives                 *)
(* (replay_execution), whatever ticks, rollbacks and stale caches the      *)
(* checkpoint was made under, unless a transaction that was rolled back    *)
(* had left a state of its own rows in the cache.                          *)
SnapshotMatchesJournal == ~spoiled => Project(db) = Replay(db.journal)

(* Steps that a committed event, or the created event, has completed.      *)
EverCompleted ==
  {x \in Steps : \E i \in DOMAIN db.journal :
     LET e == db.journal[i]
     IN  \/ e.type \in MarksCompleted /\ e.step = x
         \/ e.type = "created" /\ x \in e.view.completed}

(* A runtime is launched only for a step all of whose dependencies, gates  *)
(* included, have been completed by a committed event (_runnable_steps on  *)
(* a possibly stale state).                                                *)
LaunchesFollowDependencies ==
  [][\A x \in Steps : launched'[x] > launched[x] =>
       DepsOf[db.version][x] \subseteq EverCompleted]_vars

(* An execution whose status is waiting_for_approval has an undecided wait:*)
(* tick does not list it, so only a decision or a timeout of that wait can *)
(* move it on.                                                             *)
WaitingHasPendingWait ==
  db.status = "waiting_for_approval" => \E g \in Gates : db.waits[g] = "pending"

(* An execution that waits has a wait that is undecided or was rejected:   *)
(* an approval and a timeout always move the execution on, whatever ticks, *)
(* scans and other decisions they race with.  Only a rejection may leave   *)
(* it waiting (one that had loaded the status failed before a tick opened  *)
(* the gate sends no UPDATE of the status).                                *)
WaitingIsUndecidedOrRejected ==
  db.status = "waiting_for_approval" =>
    \E g \in Gates : db.waits[g] \in {"pending", "rejected"}

(* A step never has two dispatch leases that are live, whatever ticks are  *)
(* rolled back after their SET NX, leases lapse and are retried, and       *)
(* runtime events arrive late (_acquire_lease, _collect_retryable_steps).  *)
OneLiveLease ==
  \A x \in Steps : Cardinality({i \in DOMAIN draft.leases[x] : draft.leases[x][i] = "live"}) <= 1

(* Steps that a committed tick has dispatched, retried or opened as gates. *)
TickTypes == {"dispatched", "retried", "waiting_for_approval"}
DispatchedByTick ==
  {x \in Steps : \E i \in DOMAIN db.journal :
     db.journal[i].type \in TickTypes /\ db.journal[i].step = x}

(* A gate has a wait; any other step has an unreleased lease row, which    *)
(* _collect_retryable_steps needs to dispatch it again.                    *)
Tracked(d, x) == IF x \in Gates THEN d.waits[x] # "none" ELSE ActiveLease(d, x) > 0


(* The same of every active step.  A runtime whose tick was rolled back    *)
(* after the launch makes its step active with runtime_started.            *)
ActiveStepsAreTracked == \A x \in Replay(db.journal).view.active : Tracked(db, x)

Terminal == {"completed", "canceled"}

(* A completed or canceled execution stays so.                             *)
TerminalIsFinal == [][db.status \in Terminal => db'.status = db.status]_vars

(* The execution resume_execution makes of a failed one starts with every  *)
(* step the failed one had completed.                                      *)
ResumeKeepsCompletedSteps ==
  \A c \in children : c.from = "failed" => c.had \subseteq c.pre

(* The status becomes completed only when every step of the version is     *)
(* completed (the test of _process_execution compares lengths).            *)
CompletedMeansAllSteps ==
  db.status = "completed" => StepsOf[db.version] \subseteq Replay(db.journal).view.completed

(* A hot change removes no step that is in progress when it is applied     *)
(* (validate_compatibility looked at the active steps earlier).            *)
HotChangeKeepsActiveSteps ==
  [][db'.version # db.version =>
       Replay(db.journal).view.active \subseteq StepsOf[db'.version]]_vars

Logged(type) ==
  Len(db'.journal) > Len(db.journal) /\ db'.journal[Len(db'.journal)].type = type


(* A rollback that fails does not change which steps are completed, active *)
(* and pending.                                                            *)
FailedRollbackChangesNothing ==
  [][db.status # "rollback_failed" /\ db'.status = "rollback_failed" =>
       Replay(db'.journal).view = Replay(db.journal).view]_vars

(* A decision on an approval wait, taken by an approver or by the timeout  *)
(* scan, is never replaced by another one.                                 *)
DecisionsAreFinal ==
  [][\A g \in Gates : db.waits[g] \notin {"none", "pending"} => db'.waits[g] = db.waits[g]]_vars

(* Once no tick is under way, every launched step that needs a checkpoint  *)
(* has one from before it was launched.                                    *)
LaunchedStepsHaveCheckpoint ==
  lock = NoSession =>
    \A x \in Capture : launched[x] > 0 => \E c \in db.ckpts : x \in c.view.pending

(* A session that has started goes on to its commit, and the scan job,     *)
(* which has its own connection, gets to run again and again.              *)
Proceed(s) ==
  \/ TickRead(s) \/ TickQueued(s) \/ TickCollect(s) \/ TickRelease(s) \/ TickFinish(s)
  \/ \E x \in Steps : TickSkip(s, x) \/ TickGate(s, x) \/ TickAcquire(s, x)
  \/ TickLaunch(s) \/ DecisionRead(s) \/ ApproveWrite(s) \/ RejectWrite(s)
  \/ RuntimeWrite(s) \/ CancelWrite(s) \/ PauseWrite(s) \/ OverageWrite(s)
  \/ CompensateWrite(s) \/ HotChangeWrite(s) \/ RollbackWrite(s)
  \/ ScanFetch(s) \/ ScanWrite(s) \/ Commit(s)

Fairness ==
  /\ \A s \in Sessions : WF_vars(Proceed(s))
  /\ SF_vars(\E s \in Sessions, overdue \in SUBSET Gates : ScanList(s, overdue))

FairSpec == Spec /\ Fairness

(* An execution does not wait for approval for ever: a decision or the     *)
(* timeout scan moves it on, whatever ticks, runtime events and other      *)
(* decisions race with them, unless a gate was rejected (see               *)
(* WaitingIsUndecidedOrRejected).                                          *)
WaitingEnds ==
  (db.status = "waiting_for_approval") ~>
    (\/ db.status # "waiting_for_approval"
     \/ \E g \in Gates : db.waits[g] = "rejected")
=============================================================================
