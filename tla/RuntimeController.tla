------------------------- MODULE RuntimeController -------------------------
(* The runtime controller: the rows of the runtimes it has launched, the    *)
(* pods that run them, and the goroutines that change both: the handlers of *)
(* RuntimeControlService, the reconciler, the heartbeat scanner and the     *)
(* replenisher of the warm pool. No two statements and no statement and API *)
(* call share a transaction, so each is a step of its own.                  *)
(*                                                                          *)
(* The idle scanner is left out: nothing sets idle_since, and it recycles   *)
(* only pods that have it.                                                  *)
EXTENDS Integers, Sequences, FiniteSets

CONSTANTS Executions,   \* executions, which also name their cold pods
          Handlers,     \* requests being served
          Requests,     \* the operations they ask for
          Silent,       \* executions whose heartbeats may stop
          MaxTarget,    \* bound on the size of the warm pool
          MaxRestarts,  \* bound on the restarts of the controller
          NULL

Operations == {"LaunchRuntime", "PauseRuntime", "ResumeRuntime", "StopRuntime"}

\* Warm pods are named after their index.
Slots == 0..(MaxTarget - 1)
Names == Executions \cup Slots

ASSUME ConstantsAssumption ==
  /\ MaxTarget \in Nat /\ MaxRestarts \in Nat
  /\ Requests \subseteq Operations /\ Silent \subseteq Executions
  /\ Executions \cap (Slots \cup {NULL}) = {}
  /\ NULL \notin Slots

VARIABLES
  rows,      \* table runtimes
  pods,      \* the pods labelled managed_by=runtime-controller
  stored,    \* table warm_pool_pods: the pods whose status is ready
  ready,     \* Manager.ready
  handler,   \* the requests
  recon,     \* the reconciler, with its report
  scan,      \* the runtimes the heartbeat scanner has yet to look at
  filler,    \* the replenisher
  restarts

vars == <<rows, pods, stored, ready, handler, recon, scan, filler, restarts>>

Active == {"pending", "running", "paused"}
Terminal == {"stopped", "force_stopped", "failed"}

Row == [state: Active \cup Terminal \cup {"none"}, pod: Names \cup {NULL}]
Pod == [phase: {"absent", "Pending", "Running", "Succeeded", "Failed", "Unknown"},
        execution: Executions \cup {NULL}]
Handler == [pc: {"idle", "dispatch", "prepare", "create", "insert",
                 "wait", "delete", "signal", "update"},
            execution: Executions \cup {NULL}, pod: Names \cup {NULL},
            state: Active \cup Terminal \cup {"none"}]
Recon == [listed: BOOLEAN, runtimes: [Executions -> Active \cup {"none"}],
          orphans: SUBSET Names, missing: SUBSET Executions,
          mismatches: [Executions -> {"none", "pending", "running", "stopped", "failed"}]]
Filler == [pc: {"idle", "create", "get", "insert"}, index: Nat, count: Nat,
           status: {"warming", "ready"}]

NoRow == [state |-> "none", pod |-> NULL]
NoPod == [phase |-> "absent", execution |-> NULL]
IdleHandler == [pc |-> "idle", execution |-> NULL, pod |-> NULL, state |-> "none"]
NothingListed == [e \in Executions |-> "none"]
IdleRecon == [listed |-> FALSE, runtimes |-> NothingListed, orphans |-> {},
              missing |-> {}, mismatches |-> NothingListed]
IdleFiller == [pc |-> "idle", index |-> 0, count |-> 0, status |-> "warming"]

Init ==
  /\ rows = [e \in Executions |-> NoRow]
  /\ pods = [n \in Names |-> NoPod]
  /\ stored = {}
  /\ ready = <<>>
  /\ handler = [h \in Handlers |-> IdleHandler]
  /\ recon = IdleRecon
  /\ scan = {}
  /\ filler = IdleFiller
  /\ restarts = 0

Present(n) == pods[n].phase # "absent"
IsActive(e) == rows[e].state \in Active

\* UPDATE ... WHERE execution_id: a missing row stays missing.
UpdateRuntimeState(e, state) ==
  rows' = [rows EXCEPT ![e].state = IF @ = "none" THEN @ ELSE state]
ListActiveRuntimes == {e \in Executions : IsActive(e)}

CreatePod(n, e) ==
  /\ ~ Present(n)
  /\ pods' = [pods EXCEPT ![n] = [phase |-> "Pending", execution |-> e]]
DeletePod(n) == pods' = [pods EXCEPT ![n] = NoPod]

Goto(h, pc) == handler' = [handler EXCEPT ![h].pc = pc]
EndRequest(h) == handler' = [handler EXCEPT ![h] = IdleHandler]

---------------------------------------------------------------------------
(* RuntimeControlService *)

\* An execution that has a row is refused with ErrAlreadyExists.
LaunchRuntime(h, e) ==
  /\ handler[h].pc = "idle"
  /\ rows[e].state = "none"
  /\ handler' = [handler EXCEPT ![h] = [IdleHandler EXCEPT !.pc = "dispatch", !.execution = e]]
  /\ UNCHANGED <<rows, pods, stored, ready, recon, scan, filler, restarts>>

\* The first pod of the queue; when its row cannot be updated it is lost and
\* the launch is a cold one.
Dispatch(h) ==
  /\ handler[h].pc = "dispatch"
  /\ ready # <<>>
  /\ ready' = Tail(ready)
  /\ \/ /\ stored' = stored \ {Head(ready)}
        /\ handler' = [handler EXCEPT ![h].pc = "prepare", ![h].pod = Head(ready)]
     \/ UNCHANGED stored /\ Goto(h, "create")
  /\ UNCHANGED <<rows, pods, recon, scan, filler, restarts>>

\* The queue is empty, or the request prefers a cold start.
ColdStart(h) ==
  /\ handler[h].pc = "dispatch"
  /\ Goto(h, "create")
  /\ UNCHANGED <<rows, pods, stored, ready, recon, scan, filler, restarts>>

PrepareWarmPod(h) ==
  /\ handler[h].pc = "prepare"
  /\ Present(handler[h].pod)
  /\ pods' = [pods EXCEPT ![handler[h].pod].execution = handler[h].execution]
  /\ Goto(h, "insert")
  /\ UNCHANGED <<rows, stored, ready, recon, scan, filler, restarts>>

CreateColdPod(h) ==
  LET e == handler[h].execution IN
  /\ handler[h].pc = "create"
  /\ CreatePod(e, e)
  /\ handler' = [handler EXCEPT ![h].pc = "insert", ![h].pod = e]
  /\ UNCHANGED <<rows, stored, ready, recon, scan, filler, restarts>>

\* execution_id is unique.
InsertRuntime(h) ==
  LET e == handler[h].execution IN
  /\ handler[h].pc = "insert"
  /\ rows[e].state = "none"
  /\ rows' = [rows EXCEPT ![e] = [state |-> "running", pod |-> handler[h].pod]]
  /\ EndRequest(h)
  /\ UNCHANGED <<pods, stored, ready, recon, scan, filler, restarts>>

GetRuntimeByExecutionID(h, e, pc, state) ==
  /\ handler[h].pc = "idle"
  /\ handler' = [handler EXCEPT ![h] = [pc |-> pc, execution |-> e, pod |-> rows[e].pod,
                                        state |-> state]]
  /\ UNCHANGED <<rows, pods, stored, ready, recon, scan, filler, restarts>>

StopRuntime(h, e) ==
  /\ rows[e].state # "none"
  /\ GetRuntimeByExecutionID(h, e, "wait", "stopped")

PauseRuntime(h, e) ==
  /\ rows[e].state = "running"
  /\ GetRuntimeByExecutionID(h, e, "signal", "paused")

ResumeRuntime(h, e) ==
  /\ rows[e].state = "paused"
  /\ GetRuntimeByExecutionID(h, e, "signal", "running")

\* The pod has ended or cannot be read, or the grace period is over.
waitForTermination(h) ==
  LET ended == pods[handler[h].pod].phase \in {"absent", "Succeeded", "Failed"} IN
  /\ handler[h].pc = "wait"
  /\ \E state \in {"stopped"} \cup (IF ended THEN {} ELSE {"force_stopped"}) :
       handler' = [handler EXCEPT ![h].pc = "delete", ![h].state = state]
  /\ UNCHANGED <<rows, pods, stored, ready, recon, scan, filler, restarts>>

\* With a grace period the pod may be there for a while after the call.
DeleteStoppedPod(h) ==
  /\ handler[h].pc = "delete"
  /\ Present(handler[h].pod)
  /\ DeletePod(handler[h].pod) \/ (handler[h].state = "stopped" /\ UNCHANGED pods)
  /\ Goto(h, "update")
  /\ UNCHANGED <<rows, stored, ready, recon, scan, filler, restarts>>

\* kill -TSTP or -CONT, in the container.
ExecInPod(h) ==
  /\ handler[h].pc = "signal"
  /\ pods[handler[h].pod].phase = "Running"
  /\ Goto(h, "update")
  /\ UNCHANGED <<rows, pods, stored, ready, recon, scan, filler, restarts>>

\* Mutant: the update is repeated.
UpdateStateAgain(h) ==
  /\ handler[h].pc = "update"
  /\ UpdateRuntimeState(handler[h].execution, handler[h].state)
  /\ UNCHANGED <<pods, stored, ready, handler, recon, scan, filler, restarts>>

UpdateState(h) ==
  /\ handler[h].pc = "update"
  /\ UpdateRuntimeState(handler[h].execution, handler[h].state)
  /\ EndRequest(h)
  /\ UNCHANGED <<pods, stored, ready, recon, scan, filler, restarts>>

\* A call of the store or of the API returns an error, and so does the request.
HandlerFails(h) ==
  /\ handler[h].pc # "idle"
  /\ EndRequest(h)
  /\ UNCHANGED <<rows, pods, stored, ready, recon, scan, filler, restarts>>

---------------------------------------------------------------------------
(* Reconciler.RunOnce: DetectDrift lists the runtimes, then the pods, and   *)
(* ApplyRepairs works through the report.                                   *)

NothingToRepair ==
  recon.orphans = {} /\ recon.missing = {} /\ recon.mismatches = NothingListed

ListRuntimes ==
  /\ ~ recon.listed /\ NothingToRepair
  /\ recon' = [recon EXCEPT !.listed = TRUE,
                            !.runtimes = [e \in Executions |-> IF IsActive(e) THEN rows[e].state
                                                               ELSE "none"]]
  /\ UNCHANGED <<rows, pods, stored, ready, handler, scan, filler, restarts>>

PodsOf(e) == {n \in Names : Present(n) /\ pods[n].execution = e}

\* Mutant: a pod that has ended well keeps the name of its phase.
PhaseKept(phase) ==
  CASE phase = "Pending" -> "pending"
    [] phase = "Running" -> "running"
    [] phase = "Succeeded" -> "succeeded"
    [] phase = "Failed" -> "failed"
    [] OTHER -> "none"

\* No state, and so no mismatch, for a pod whose node does not answer.
stateFromPodPhase(phase) ==
  CASE phase = "Pending" -> "pending"
    [] phase = "Running" -> "running"
    [] phase = "Succeeded" -> "stopped"
    [] phase = "Failed" -> "failed"
    [] OTHER -> "none"

\* Mutant: pods of runtimes that are over are not orphans.
DetectDriftOfUnknown ==
  LET runtimes == recon.runtimes
      listed == {e \in Executions : runtimes[e] # "none"}
      derived(n) == stateFromPodPhase(pods[n].phase)
  IN
  /\ recon.listed
  /\ \E last \in [{e \in listed : PodsOf(e) # {}} -> Names] :
       /\ \A e \in DOMAIN last : last[e] \in PodsOf(e)
       /\ recon' = [listed |-> FALSE, runtimes |-> NothingListed,
                    orphans |-> {n \in Names : Present(n) /\ pods[n].execution \in {NULL} \cup {e \in Executions : rows[e].state = "none"}},
                    missing |-> listed \ DOMAIN last,
                    mismatches |-> [e \in Executions |->
                      IF e \in DOMAIN last /\ derived(last[e]) # runtimes[e]
                      THEN derived(last[e]) ELSE "none"]]
  /\ UNCHANGED <<rows, pods, stored, ready, handler, scan, filler, restarts>>

\* Mutant: only a running runtime can miss its pod.
DetectDriftOfRunning ==
  LET runtimes == recon.runtimes
      listed == {e \in Executions : runtimes[e] # "none"}
      derived(n) == stateFromPodPhase(pods[n].phase)
  IN
  /\ recon.listed
  /\ \E last \in [{e \in listed : PodsOf(e) # {}} -> Names] :
       /\ \A e \in DOMAIN last : last[e] \in PodsOf(e)
       /\ recon' = [listed |-> FALSE, runtimes |-> NothingListed,
                    orphans |-> {n \in Names : Present(n) /\ pods[n].execution \notin listed},
                    missing |-> {e \in listed \ DOMAIN last : runtimes[e] = "running"},
                    mismatches |-> [e \in Executions |->
                      IF e \in DOMAIN last /\ derived(last[e]) # runtimes[e]
                      THEN derived(last[e]) ELSE "none"]]
  /\ UNCHANGED <<rows, pods, stored, ready, handler, scan, filler, restarts>>

\* Of two pods with the label of one execution, the last listed is compared.
DetectDrift ==
  LET runtimes == recon.runtimes
      listed == {e \in Executions : runtimes[e] # "none"}
      derived(n) == stateFromPodPhase(pods[n].phase)
  IN
  /\ recon.listed
  /\ \E last \in [{e \in listed : PodsOf(e) # {}} -> Names] :
       /\ \A e \in DOMAIN last : last[e] \in PodsOf(e)
       /\ recon' = [listed |-> FALSE, runtimes |-> NothingListed,
                    orphans |-> {n \in Names : Present(n) /\ pods[n].execution \notin listed},
                    missing |-> listed \ DOMAIN last,
                    mismatches |-> [e \in Executions |->
                      IF e \in DOMAIN last /\ derived(last[e]) # runtimes[e]
                      THEN derived(last[e]) ELSE "none"]]
  /\ UNCHANGED <<rows, pods, stored, ready, handler, scan, filler, restarts>>

DeleteOrphan(n) ==
  /\ n \in recon.orphans
  /\ recon' = [recon EXCEPT !.orphans = @ \ {n}]
  /\ DeletePod(n)
  /\ UNCHANGED <<rows, stored, ready, handler, scan, filler, restarts>>

\* The error is logged.
DeleteFails(n) ==
  /\ n \in recon.orphans
  /\ recon' = [recon EXCEPT !.orphans = @ \ {n}]
  /\ UNCHANGED <<rows, pods, stored, ready, handler, scan, filler, restarts>>

FailMissing(e) ==
  /\ recon.orphans = {}
  /\ e \in recon.missing
  /\ UpdateRuntimeState(e, "failed")
  /\ recon' = [recon EXCEPT !.missing = @ \ {e}]
  /\ UNCHANGED <<pods, stored, ready, handler, scan, filler, restarts>>

CorrectMismatch(e) ==
  /\ recon.orphans = {} /\ recon.missing = {}
  /\ recon.mismatches[e] # "none"
  /\ UpdateRuntimeState(e, recon.mismatches[e])
  /\ recon' = [recon EXCEPT !.mismatches[e] = "none"]
  /\ UNCHANGED <<pods, stored, ready, handler, scan, filler, restarts>>

\* A list or an update fails, and ends the cycle.
ReconcileFails ==
  /\ recon.listed \/ (recon.orphans = {} /\ ~ NothingToRepair)
  /\ recon' = IdleRecon
  /\ UNCHANGED <<rows, pods, stored, ready, handler, scan, filler, restarts>>

---------------------------------------------------------------------------
(* heartbeat.Scanner.ScanOnce *)

\* Runtimes that send heartbeats are passed over.
StartScan ==
  /\ scan = {} /\ ListActiveRuntimes \cap Silent # {}
  /\ scan' = ListActiveRuntimes \cap Silent
  /\ UNCHANGED <<rows, pods, stored, ready, handler, recon, filler, restarts>>

\* No heartbeat key, and the last heartbeat is too old.
TimeOut(e) ==
  /\ e \in scan
  /\ UpdateRuntimeState(e, "failed")
  /\ scan' = scan \ {e}
  /\ UNCHANGED <<pods, stored, ready, handler, recon, filler, restarts>>

\* The runtime has a heartbeat; or an error ends the scan.
PassOver(e) ==
  /\ e \in scan
  /\ scan' \in {scan \ {e}, {}}
  /\ UNCHANGED <<rows, pods, stored, ready, handler, recon, filler, restarts>>

---------------------------------------------------------------------------
(* Replenisher.ReconcileOnce *)

\* WarmPoolConfig may have set any target.
StartFilling ==
  /\ filler.pc = "idle"
  /\ \E target \in (Len(ready) + 1)..MaxTarget :
       filler' = [pc |-> "create", index |-> Len(ready), count |-> target, status |-> "warming"]
  /\ UNCHANGED <<rows, pods, stored, ready, handler, recon, scan, restarts>>

NextIndex ==
  filler' = IF filler.index + 1 < filler.count
            THEN [filler EXCEPT !.pc = "create", !.index = @ + 1, !.status = "warming"]
            ELSE IdleFiller

CreateWarmPod ==
  /\ filler.pc = "create"
  /\ CreatePod(filler.index, NULL)
  /\ filler' = [filler EXCEPT !.pc = "get"]
  /\ UNCHANGED <<rows, stored, ready, handler, recon, scan, restarts>>

\* The name is taken, or the API fails.
CreateFails ==
  /\ filler.pc = "create"
  /\ NextIndex
  /\ UNCHANGED <<rows, pods, stored, ready, handler, recon, scan, restarts>>

RegisterReadyPod ==
  /\ filler.pc = "get"
  /\ IF pods[filler.index].phase = "Running"
     THEN ready' = Append(ready, filler.index)
          /\ filler' = [filler EXCEPT !.pc = "insert", !.status = "ready"]
     ELSE UNCHANGED ready /\ filler' = [filler EXCEPT !.pc = "insert"]
  /\ UNCHANGED <<rows, pods, stored, handler, recon, scan, restarts>>

\* An upsert by name; an error is ignored.
InsertWarmPoolPod ==
  /\ filler.pc = "insert"
  /\ stored' \in {stored, IF filler.status = "ready" THEN stored \cup {filler.index}
                          ELSE stored \ {filler.index}}
  /\ NextIndex
  /\ UNCHANGED <<rows, pods, ready, handler, recon, scan, restarts>>

---------------------------------------------------------------------------
(* The pods, and the process of the controller *)

StartPod(n) ==
  /\ pods[n].phase = "Pending"
  /\ pods' = [pods EXCEPT ![n].phase = "Running"]
  /\ UNCHANGED <<rows, stored, ready, handler, recon, scan, filler, restarts>>

\* The restart policy is Never.
EndPod(n) ==
  /\ \/ pods[n].phase \in {"Pending", "Running"} /\ pods' = [pods EXCEPT ![n].phase = "Failed"]
     \/ pods[n].phase = "Running" /\ pods' = [pods EXCEPT ![n].phase = "Succeeded"]
  /\ UNCHANGED <<rows, stored, ready, handler, recon, scan, filler, restarts>>

\* Its node does not answer, or answers again.
ToggleContact(n) ==
  /\ \/ pods[n].phase = "Running" /\ pods' = [pods EXCEPT ![n].phase = "Unknown"]
     \/ pods[n].phase = "Unknown" /\ pods' = [pods EXCEPT ![n].phase = "Running"]
  /\ UNCHANGED <<rows, stored, ready, handler, recon, scan, filler, restarts>>

\* Its node is lost, or it is evicted.
LosePod(n) ==
  /\ Present(n)
  /\ DeletePod(n)
  /\ UNCHANGED <<rows, stored, ready, handler, recon, scan, filler, restarts>>

\* In whatever order the rows come; an error is ignored.
LoadFromDB ==
  \/ ready' = <<>>
  \/ \E queue \in [1..Cardinality(stored) -> stored] :
       /\ {queue[k] : k \in DOMAIN queue} = stored
       /\ ready' = queue

Restart ==
  /\ restarts < MaxRestarts
  /\ restarts' = restarts + 1
  /\ LoadFromDB
  /\ handler' = [h \in Handlers |-> IdleHandler]
  /\ recon' = IdleRecon
  /\ scan' = {}
  /\ filler' = IdleFiller
  /\ UNCHANGED <<rows, pods, stored>>

---------------------------------------------------------------------------
Begin(h, e, op) ==
  \/ op = "LaunchRuntime" /\ LaunchRuntime(h, e)
  \/ op = "StopRuntime" /\ StopRuntime(h, e)
  \/ op = "PauseRuntime" /\ PauseRuntime(h, e)
  \/ op = "ResumeRuntime" /\ ResumeRuntime(h, e)

Proceed(h) ==
  \/ Dispatch(h) \/ ColdStart(h) \/ PrepareWarmPod(h) \/ CreateColdPod(h) \/ InsertRuntime(h)
  \/ waitForTermination(h) \/ DeleteStoppedPod(h) \/ ExecInPod(h) \/ UpdateState(h)
  \/ HandlerFails(h)

RepairRow(e) == FailMissing(e) \/ CorrectMismatch(e)

Next ==
  \/ \E h \in Handlers : Proceed(h) \/ \E e \in Executions, op \in Requests : Begin(h, e, op)
  \/ ListRuntimes \/ DetectDrift \/ ReconcileFails
  \/ \E e \in Executions : RepairRow(e) \/ TimeOut(e) \/ PassOver(e)
  \/ StartScan
  \/ StartFilling \/ CreateWarmPod \/ CreateFails \/ RegisterReadyPod \/ InsertWarmPoolPod
  \/ \E n \in Names : DeleteOrphan(n) \/ DeleteFails(n)
  \/ \E n \in Names : StartPod(n) \/ EndPod(n) \/ ToggleContact(n) \/ LosePod(n)
  \/ Restart

(* A request ends, one way or another, and the reconciler's loop goes on. A *)
(* cycle that is tried again and again is not cut short every time, and the *)
(* API does not refuse to delete a pod for ever.                            *)
Fairness ==
  /\ \A h \in Handlers : WF_vars(Proceed(h))
  /\ WF_vars(ListRuntimes) /\ SF_vars(DetectDrift)
  /\ \A e \in Executions : SF_vars(RepairRow(e))
  /\ \A n \in Names : SF_vars(DeleteOrphan(n))

Spec == Init /\ [][Next]_vars
FairSpec == Spec /\ Fairness

---------------------------------------------------------------------------
(* Every variable keeps its shape.                                          *)
TypeOK ==
  /\ rows \in [Executions -> Row]
  /\ pods \in [Names -> Pod]
  /\ stored \subseteq Slots
  /\ ready \in Seq(Slots)
  /\ handler \in [Handlers -> Handler]
  /\ recon \in Recon
  /\ scan \subseteq Executions
  /\ filler \in Filler
  /\ restarts \in 0..MaxRestarts

(* "orphaned pods (pods without a tracked runtime) ... are terminated": a   *)
(* pod whose label names no active runtime does not stay so.                *)
Orphan(n) ==
  Present(n) /\ pods[n].execution \in {e \in Executions : ~ IsActive(e)}
OrphansAreRemoved == \A n \in Names : Orphan(n) ~> ~ Orphan(n)

(* "missing pods (tracked runtimes whose pods no longer exist) ... are      *)
(* marked as failed": a runtime without a pod does not stay active.         *)
Lost(e) == IsActive(e) /\ PodsOf(e) = {}
LostRuntimesAreNoticed == \A e \in Executions : Lost(e) ~> ~ Lost(e)

\* No pod, and no launch under way that could add one.
Gone(e) ==
  /\ rows[e].state \in Terminal
  /\ PodsOf(e) = {}
  /\ \A h \in Handlers : handler[h].execution = e =>
       handler[h].pc \notin {"dispatch", "prepare", "create", "insert"}

(* A runtime that is over, and whose pod is gone, is over for good in the   *)
(* end: a repair or a request that has read its row before may write an     *)
(* active state once more, which the next cycle corrects.                   *)
GoneForGood == \A e \in Executions : [](Gone(e) => <>[](rows[e].state \in Terminal))

(* "PAUSED | ResumeRuntime requested | RUNNING" is the only way back.       *)
PausedUntilResumed ==
  [][\A e \in Executions :
       rows[e].state = "paused" /\ rows'[e].state = "running" =>
         \E h \in Handlers : handler[h].execution = e /\ handler[h].state = "running"]_vars

(* A pod runs one runtime.                                                  *)
PodsAreNotShared ==
  \A e, f \in ListActiveRuntimes : rows[e].pod = rows[f].pod => e = f
=============================================================================
