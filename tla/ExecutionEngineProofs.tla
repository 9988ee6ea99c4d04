------------------------ MODULE ExecutionEngineProofs ------------------------
(***************************************************************************)
(* Proofs about ExecutionEngine for every number of sessions, schedulers,  *)
(* steps, gates and versions, and without any of the bounds: TypeOK, and   *)
(* that an execution in waiting_for_approval always has a wait that is     *)
(* undecided or was rejected.                                              *)
(***************************************************************************)
EXTENDS ExecutionEngine, TLAPS

(* Zenon finds the proofs that are first-order; a leaf with arithmetic or  *)
(* sequences in it names SMT.                                              *)
USE Zenon

(* The status of an execution that waits.                                  *)
W == "waiting_for_approval"

(***************************************************************************)
(* WaitingIsUndecidedOrRejected is not inductive.  A timeout writes no     *)
(* status when the new one equals the one its session has loaded, so the   *)
(* proof has to know that a scan about to decide the last open wait has    *)
(* loaded waiting_for_approval.                                            *)
(***************************************************************************)
Deciding(r, g) == r.op = "scan" /\ g \in r.todo

(* The next step of the scan decides wait g.                               *)
AboutToDecide(r, g) == r.pc = "loaded" /\ Deciding(r, g)

(* Every scan about to decide wait g has loaded waiting_for_approval.      *)
Informed(g) == \A s \in Sessions : AboutToDecide(sess[s], g) => sess[s].status = W

(* A wait that keeps the execution waiting, or was rejected.               *)
Open(w) == w \in {"pending", "rejected"}

(* What the waits, the drafts and the sessions have to do with each other. *)
GateInv ==
  /\ \A g \in Gates : db.waits[g] # "none" => draft.waits[g] # "none"
  /\ \A s \in Sessions, g \in Gates : Deciding(sess[s], g) => db.waits[g] # "none"
  /\ db.status = W => \E g \in Gates : Open(db.waits[g]) /\ Informed(g)
  /\ draft.status = W =>
       \E g \in Gates : /\ Open(draft.waits[g])
                        /\ Informed(g)
                        /\ db.status = W \/ db.waits[g] = "none"

(* The part of TypeOK about the rows and the sessions, and the rest of it. *)
CoreOK ==
  /\ RowsOK(db) /\ RowsOK(draft)
  /\ lock \in Sessions \cup {NoSession}
  /\ lock = NoSession => draft = db
  /\ DOMAIN sess = Sessions
  /\ \A s \in Sessions : SessionOK(sess[s])

(* The types of the Redis keys and of the counters.                        *)
CountersOK ==
  /\ keys \subseteq Steps
  /\ live \in [Steps -> Nat] /\ launched \in [Steps -> Nat] /\ lapsed \in [Steps -> Nat]

(* The version a hot change is going to write.                             *)
HotChangeOK == \A s \in Sessions : sess[s].op = "hot_change" => sess[s].num \in Versions

(* The inductive invariant.                                                *)
IInv == CoreOK /\ CountersOK /\ spoiled \in BOOLEAN /\ HotChangeOK /\ GateInv

-----------------------------------------------------------------------------
(* The operators on rows: what each does to the status and to the waits.   *)

(* The fields of a session record.                                         *)
Fields == {"op", "pc", "step", "num", "status", "version", "seen", "fresh", "todo", "rows"}

(* They are those of an idle session.                                      *)
LEMMA IdleFields == DOMAIN Idle = Fields
BY DEF Idle, Fields

(* An idle session is well-typed and decides nothing.                      *)
LEMMA IdleOK == /\ SessionOK(Idle)
                /\ \A g : ~Deciding(Idle, g)
BY ConstantsAssumption DEF SessionOK, Idle, Statuses, Deciding

(* Appending to the journal changes neither the status nor the waits.      *)
LEMMA LogRows ==
  ASSUME NEW d, RowsOK(d), NEW type, NEW step
  PROVE  /\ RowsOK(Log(d, type, step))
         /\ Log(d, type, step).waits = d.waits
         /\ Log(d, type, step).status = d.status
BY DEF RowsOK, Log

(* update_execution_status leaves the status or makes it the new one; it   *)
(* does the latter whenever the session had loaded another one.            *)
LEMMA SetStatusRows ==
  ASSUME NEW d, RowsOK(d), NEW old, NEW new \in Statuses
  PROVE  /\ RowsOK(SetStatus(d, old, new))
         /\ SetStatus(d, old, new).waits = d.waits
         /\ SetStatus(d, old, new).status \in {d.status, new}
         /\ new # old => SetStatus(d, old, new).status = new
BY DEF RowsOK, SetStatus

(* A checkpoint changes neither the status nor the waits.                  *)
LEMMA AddCheckpointRows ==
  ASSUME NEW d, RowsOK(d), NEW num, NEW st
  PROVE  /\ RowsOK(AddCheckpoint(d, num, st))
         /\ AddCheckpoint(d, num, st).waits = d.waits
         /\ AddCheckpoint(d, num, st).status = d.status
BY DEF RowsOK, AddCheckpoint

(* What a lease row may be.                                                *)
LeaseStates == {"live", "lapsed", "released"}

(* A lease row that is opened, or opened and released at once.             *)
LEMMA LeaseRows ==
  ASSUME NEW d, RowsOK(d), NEW x \in Steps, NEW state \in LeaseStates,
         NEW e, e = [d EXCEPT !.leases[x] = Append(@, state)]
  PROVE  RowsOK(e) /\ e.waits = d.waits /\ e.status = d.status
<1>1. [d.leases EXCEPT ![x] = Append(@, state)] \in [Steps -> Seq(LeaseStates)]
  BY SMT DEF RowsOK, LeaseStates
<1> QED  BY <1>1 DEF RowsOK, LeaseStates

(* A released row keeps a sequence of lease rows one.                      *)
LEMMA ReleaseSeq ==
  ASSUME NEW q \in Seq(LeaseStates), NEW i
  PROVE  [q EXCEPT ![i] = "released"] \in Seq(LeaseStates)
<1>1. CASE i \in 1..Len(q)
  BY <1>1, SMT DEF LeaseStates
<1>2. CASE i \notin 1..Len(q)
  <2>1. [q EXCEPT ![i] = "released"] = q
    BY <1>2, SMT
  <2> QED  BY <2>1
<1> QED  BY <1>1, <1>2

(* Releasing lease rows changes neither the status nor the waits.          *)
LEMMA ReleaseRows ==
  ASSUME NEW d, RowsOK(d), NEW rows
  PROVE  /\ RowsOK(ReleaseLeases(d, rows))
         /\ ReleaseLeases(d, rows).waits = d.waits
         /\ ReleaseLeases(d, rows).status = d.status
<1> DEFINE new == [x \in Steps |-> IF rows[x] = 0 THEN d.leases[x]
                                   ELSE [d.leases[x] EXCEPT ![rows[x]] = "released"]]
<1>1. \A x \in Steps : d.leases[x] \in Seq(LeaseStates)
  BY DEF RowsOK, LeaseStates
<1>2. \A x \in Steps : [d.leases[x] EXCEPT ![rows[x]] = "released"] \in Seq(LeaseStates)
  BY <1>1, ReleaseSeq
<1>3. new \in [Steps -> Seq(LeaseStates)]
  BY <1>1, <1>2
<1>4. ReleaseLeases(d, rows) = [d EXCEPT !.leases = new]
  BY DEF ReleaseLeases
<1> QED  BY <1>3, <1>4 DEF RowsOK, LeaseStates

(* So does the passing of a lease's time.                                  *)
LEMMA LapseRows ==
  ASSUME NEW d, RowsOK(d), NEW x \in Steps
  PROVE  /\ RowsOK(Lapse(d, x))
         /\ Lapse(d, x).waits = d.waits
         /\ Lapse(d, x).status = d.status
<1> DEFINE s == d.leases[x]
           new == [i \in DOMAIN s |-> IF s[i] = "live" THEN "lapsed" ELSE s[i]]
<1>1. s \in Seq(LeaseStates)
  BY DEF RowsOK, LeaseStates
<1>2. new \in Seq(LeaseStates)
  BY <1>1, SMT DEF LeaseStates
<1>3. Lapse(d, x) = [d EXCEPT !.leases = [d.leases EXCEPT ![x] = new]]
  BY DEF Lapse
<1> HIDE DEF new
<1>4. [d.leases EXCEPT ![x] = new] \in [Steps -> Seq(LeaseStates)]
  BY <1>2 DEF RowsOK, LeaseStates
<1> QED  BY <1>3, <1>4 DEF RowsOK, LeaseStates

(* A rollback sets the status and leaves the waits.                        *)
LEMMA RolledBackRows ==
  ASSUME NEW d, RowsOK(d), NEW old, NEW n
  PROVE  /\ RowsOK(RolledBack(d, old, n))
         /\ RolledBack(d, old, n).waits = d.waits
         /\ RolledBack(d, old, n).status \in {d.status, "rolled_back"}
<1>1. "rolled_back" \in Statuses
  BY DEF Statuses
<1> DEFINE e == SetStatus(d, old, "rolled_back")
<1>2. RowsOK(e) /\ e.waits = d.waits /\ e.status \in {d.status, "rolled_back"}
  BY <1>1, SetStatusRows
<1> HIDE DEF e
<1>3. LET f == SupersedeAfter(e, n)
      IN  RowsOK(f) /\ f.waits = e.waits /\ f.status = e.status
  BY <1>2 DEF SupersedeAfter, RowsOK
<1> QED  BY <1>2, <1>3 DEF RolledBack, RowsOK, e

(* A wait that is created or decided.                                      *)
LEMMA WaitRows ==
  ASSUME NEW d, RowsOK(d), NEW g, NEW w \in Decisions
  PROVE  /\ RowsOK([d EXCEPT !.waits[g] = w])
         /\ [d EXCEPT !.waits[g] = w].waits = [d.waits EXCEPT ![g] = w]
         /\ [d EXCEPT !.waits[g] = w].status = d.status
BY DEF RowsOK

(* What the timeout of the waits in order makes of the rows d, when the    *)
(* session has loaded the status old.                                      *)
TimeoutEffect(e, d, old, order) ==
  /\ RowsOK(e)
  /\ \A g \in Gates : e.waits[g] = d.waits[g] \/ e.waits[g] # "none"
  /\ \A g \in Gates \ Range(order) : e.waits[g] = d.waits[g]
  /\ e.status = W => /\ e.status = d.status
                     /\ \A i \in DOMAIN order : TimeoutStatus(order[i]) = old

(* The rows after a scan: a wait not in the list keeps its decision, no    *)
(* wait becomes none, and a status that is kept was to be assigned anyway. *)
LEMMA TimedOutRows ==
  ASSUME NEW d, RowsOK(d), NEW old, NEW order
  PROVE  TimeoutEffect(TimedOut(d, old, order), d, old, order)
<1> DEFINE e == TimedOut(d, old, order)
           keep == \A i \in DOMAIN order : TimeoutStatus(order[i]) = old
<1>1. /\ DOMAIN e = DOMAIN d
      /\ e.version = d.version
      /\ e.leases = d.leases
      /\ e.waits = [g \in Gates |-> IF g \in Range(order) THEN TimeoutDecision(g)
                                    ELSE d.waits[g]]
      /\ e.status = IF keep THEN d.status ELSE TimeoutStatus(order[Len(order)])
  BY DEF TimedOut, RowsOK
<1>2. \A g : TimeoutStatus(g) \in {"failed", "running"}
  BY DEF TimeoutStatus
<1>3. \A g : TimeoutDecision(g) \in {"approved", "timed_out"}
  BY DEF TimeoutDecision
<1> HIDE DEF e, keep
<1>4. e.waits \in [Gates -> Decisions]
  BY <1>1, <1>3 DEF RowsOK, Decisions
<1>5. e.status \in Statuses
  BY <1>1, <1>2 DEF RowsOK, Statuses
<1>6. RowsOK(e)
  BY <1>1, <1>4, <1>5 DEF RowsOK
<1>7. \A g \in Gates : e.waits[g] = d.waits[g] \/ e.waits[g] # "none"
  BY <1>1, <1>3
<1>8. \A g \in Gates \ Range(order) : e.waits[g] = d.waits[g]
  BY <1>1
<1>9. e.status = W => keep /\ e.status = d.status
  BY <1>1, <1>2 DEF W
<1>10. TimeoutEffect(e, d, old, order)
  BY <1>6, <1>7, <1>8, <1>9 DEF TimeoutEffect, keep
<1> QED  BY <1>10 DEF e

-----------------------------------------------------------------------------
(* Steps that leave the waits alone and make no session ready to decide.   *)

(* Session s moves, to a record that is not about to decide a wait.        *)
Calm(s) ==
  /\ DOMAIN sess' = Sessions
  /\ \A t \in Sessions \ {s} : sess'[t] = sess[t]
  /\ SessionOK(sess'[s])
  /\ \A g \in Gates : ~AboutToDecide(sess'[s], g)
  /\ \A g \in Gates : Deciding(sess'[s], g) => Deciding(sess[s], g)
  /\ sess'[s].op = "hot_change" => sess'[s].num \in Versions

(* Rows that differ from the draft in no wait, and wait for no approval if *)
(* they change the status.                                                 *)
Quiet(d) ==
  /\ RowsOK(d)
  /\ d.waits = draft.waits
  /\ d.status = draft.status \/ d.status # W

(* What a step has to preserve.                                            *)
StepOK == CoreOK' /\ HotChangeOK' /\ GateInv'

(* A session that may write sees the draft.                                *)
LEMMA RowsAreDraft ==
  ASSUME IInv, NEW s \in Sessions, lock \in {NoSession, s}
  PROVE  Rows(s) = draft
BY ConstantsAssumption DEF IInv, CoreOK, Rows

(* What a calm step keeps of the sessions.                                 *)
LEMMA CalmSessions ==
  ASSUME IInv, NEW s \in Sessions, Calm(s)
  PROVE  /\ DOMAIN sess' = Sessions
         /\ \A t \in Sessions : SessionOK(sess'[t])
         /\ HotChangeOK'
         /\ \A t \in Sessions, g \in Gates : Deciding(sess'[t], g) => Deciding(sess[t], g)
         /\ \A g \in Gates : Informed(g) => Informed(g)'
<1>1. \A t \in Sessions : t = s \/ sess'[t] = sess[t]
  BY DEF Calm
<1>2. \A t \in Sessions : SessionOK(sess'[t])
  BY <1>1 DEF Calm, IInv, CoreOK
<1>3. HotChangeOK'
  BY <1>1 DEF Calm, IInv, HotChangeOK
<1>4. \A t \in Sessions, g \in Gates : Deciding(sess'[t], g) => Deciding(sess[t], g)
  BY <1>1 DEF Calm
<1>5. \A g \in Gates : Informed(g) => Informed(g)'
  BY <1>1 DEF Calm, Informed
<1> QED  BY <1>2, <1>3, <1>4, <1>5 DEF Calm

(* A calm step that writes quiet rows.                                     *)
LEMMA CalmWrite ==
  ASSUME IInv, NEW s \in Sessions, Calm(s), NEW d, Quiet(d), Write(s, d)
  PROVE  StepOK
<1>1. CoreOK'
  BY CalmSessions, ConstantsAssumption DEF IInv, CoreOK, Write, Quiet
<1>2. GateInv'
  BY CalmSessions DEF IInv, GateInv, Write, Quiet
<1> QED  BY <1>1, <1>2, CalmSessions DEF StepOK

(* A calm step that writes nothing.                                        *)
LEMMA CalmRead ==
  ASSUME IInv, NEW s \in Sessions, Calm(s), UNCHANGED <<db, lock, draft>>
  PROVE  StepOK
<1>1. CoreOK'
  BY CalmSessions DEF IInv, CoreOK
<1>2. GateInv'
  BY CalmSessions DEF IInv, GateInv
<1> QED  BY <1>1, <1>2, CalmSessions DEF StepOK

(* A session that ends, committed or rolled back.                          *)
LEMMA EndsCalmly ==
  ASSUME IInv, NEW s \in Sessions, sess' = [sess EXCEPT ![s] = Idle]
  PROVE  Calm(s)
<1>1. sess'[s] = Idle /\ DOMAIN sess' = Sessions
  BY DEF IInv, CoreOK
<1>2. \A t \in Sessions \ {s} : sess'[t] = sess[t]
  BY DEF IInv, CoreOK
<1>3. Idle.op # "hot_change"
  BY DEF Idle
<1> QED  BY <1>1, <1>2, <1>3, IdleOK DEF Calm, AboutToDecide

(* A rollback puts the committed rows back and keeps the invariant.        *)
LEMMA RollbackStep ==
  ASSUME IInv, NEW s \in Sessions, Rollback(s)
  PROVE  StepOK
<1>1. Calm(s)
  BY EndsCalmly DEF Rollback
<1>2. CoreOK'
  BY <1>1, CalmSessions DEF IInv, CoreOK, Rollback
<1>3. GateInv'
  BY <1>1, CalmSessions DEF IInv, GateInv, Rollback
<1> QED  BY <1>1, <1>2, <1>3, CalmSessions DEF StepOK

(* A commit makes the draft the committed rows: the draft waits for an     *)
(* approval only with an undecided wait of its own.                        *)
LEMMA CommitStep ==
  ASSUME IInv, NEW s \in Sessions, Commit(s)
  PROVE  StepOK
<1>1. Calm(s)
  BY EndsCalmly DEF Commit
<1>2. CoreOK'
  BY <1>1, CalmSessions, ConstantsAssumption DEF IInv, CoreOK, Commit, Rows
<1>3. GateInv'
  BY <1>1, CalmSessions DEF IInv, GateInv, Commit, Rows
<1> QED  BY <1>1, <1>2, <1>3, CalmSessions DEF StepOK

(* A session goes on to its commit.                                        *)
LEMMA GotoDone ==
  ASSUME IInv, NEW s \in Sessions, Goto(s, "done")
  PROVE  Calm(s)
<1>1. SessionOK(sess[s]) /\ DOMAIN sess = Sessions
  BY DEF IInv, CoreOK
<1> DEFINE r == [sess[s] EXCEPT !.pc = "done"]
<1>2. /\ SessionOK(r)
      /\ r.pc = "done"
      /\ r.op = sess[s].op /\ r.step = sess[s].step
      /\ r.todo = sess[s].todo /\ r.num = sess[s].num
  BY <1>1, IdleFields DEF SessionOK, Fields
<1>3. DOMAIN sess' = Sessions /\ sess'[s] = r
  BY <1>1 DEF Goto
<1>4. \A t \in Sessions \ {s} : sess'[t] = sess[t]
  BY <1>1 DEF Goto
<1> HIDE DEF r
<1>5. sess'[s].op = "hot_change" => sess'[s].num \in Versions
  BY <1>2, <1>3 DEF IInv, HotChangeOK
<1> QED  BY <1>2, <1>3, <1>4, <1>5 DEF Calm, AboutToDecide, Deciding

(* A tick moves on: it never times a wait out.                             *)
LEMMA TickMoves ==
  ASSUME IInv, NEW s \in Sessions, NEW r, SessionOK(r), r.op = "tick",
         sess' = [sess EXCEPT ![s] = r]
  PROVE  Calm(s)
<1>1. DOMAIN sess' = Sessions /\ sess'[s] = r
  BY DEF IInv, CoreOK
<1>2. \A t \in Sessions \ {s} : sess'[t] = sess[t]
  BY DEF IInv, CoreOK
<1> QED  BY <1>1, <1>2 DEF Calm, AboutToDecide, Deciding

(* Nor does an approval or a rejection.                                    *)
LEMMA DecisionMoves ==
  ASSUME IInv, NEW s \in Sessions, NEW r, SessionOK(r), r.op \in {"approve", "reject"},
         sess' = [sess EXCEPT ![s] = r]
  PROVE  Calm(s)
<1>1. DOMAIN sess' = Sessions /\ sess'[s] = r
  BY DEF IInv, CoreOK
<1>2. \A t \in Sessions \ {s} : sess'[t] = sess[t]
  BY DEF IInv, CoreOK
<1> QED  BY <1>1, <1>2 DEF Calm, AboutToDecide, Deciding

(* A handler other than the scan starts.                                   *)
LEMMA LoadCalmly ==
  ASSUME IInv, NEW s \in Sessions, NEW op, NEW step \in Steps \cup {NoStep}, NEW num,
         op # "scan", op = "hot_change" => num \in Versions,
         Load(s, op, step, num)
  PROVE  Calm(s)
<1> DEFINE r == [Idle EXCEPT !.op = op, !.pc = "loaded", !.step = step,
                             !.num = num, !.status = db.status, !.version = db.version]
<1>1. /\ SessionOK(r)
      /\ r.op = op /\ r.num = num
  BY ConstantsAssumption DEF SessionOK, Idle, IInv, CoreOK, RowsOK
<1>2. sess' = [sess EXCEPT ![s] = r]
  BY DEF Load
<1> HIDE DEF r
<1>3. DOMAIN sess' = Sessions /\ sess'[s] = r
  BY <1>2 DEF IInv, CoreOK
<1>4. \A t \in Sessions \ {s} : sess'[t] = sess[t]
  BY <1>2 DEF IInv, CoreOK
<1> QED  BY <1>1, <1>3, <1>4 DEF Calm, AboutToDecide, Deciding

(* The status a session assigns and the event it logs are quiet, unless    *)
(* the status is waiting_for_approval.                                     *)
LEMMA QuietUpdate ==
  ASSUME IInv, NEW old, NEW new \in Statuses \ {W}, NEW d, Quiet(d), NEW type, NEW step
  PROVE  Quiet(Log(SetStatus(d, old, new), type, step)) /\ Quiet(SetStatus(d, old, new))
<1> DEFINE e == SetStatus(d, old, new)
<1>1. RowsOK(e) /\ e.waits = d.waits /\ e.status \in {d.status, new}
  BY SetStatusRows, SMT DEF Quiet
<1> HIDE DEF e
<1>2. Quiet(e)
  BY <1>1 DEF Quiet
<1>3. Quiet(Log(e, type, step))
  BY <1>2, LogRows, SMT DEF Quiet
<1> QED  BY <1>2, <1>3 DEF e

(* The draft is quiet, and so are an event logged and a checkpoint added.  *)
LEMMA QuietDraft ==
  ASSUME IInv
  PROVE  /\ Quiet(draft)
         /\ \A type, step : Quiet(Log(draft, type, step))
         /\ \A d, num, st : Quiet(d) => Quiet(AddCheckpoint(d, num, st))
<1>1. Quiet(draft)
  BY DEF Quiet, IInv, CoreOK
<1>2. \A type, step : Quiet(Log(draft, type, step))
  BY <1>1, LogRows DEF Quiet
<1>3. \A d, num, st : Quiet(d) => Quiet(AddCheckpoint(d, num, st))
  BY AddCheckpointRows, SMT DEF Quiet
<1> QED  BY <1>1, <1>2, <1>3

-----------------------------------------------------------------------------
(* The steps of a tick.                                                    *)

(* A tick plans only steps of the version it has loaded.                   *)
LEMMA PlannedOK ==
  ASSUME NEW r, SessionOK(r)
  PROVE  SessionOK(Planned(r)) /\ Planned(r).op = r.op
<1> DEFINE todo == Runnable(r.version, r.seen.view) \cup {x \in StepsOf[r.version] : r.rows[x] > 0}
<1>1. todo \subseteq Steps
  BY DEF SessionOK, Runnable, Steps
<1>2. Planned(r) = [r EXCEPT !.todo = todo, !.pc = IF todo = {} THEN "finish" ELSE "loop"]
  BY DEF Planned
<1> HIDE DEF todo
<1> QED  BY <1>1, <1>2, IdleFields DEF SessionOK, Fields

(* The steps of a tick up to its plan read, log and release.               *)
LEMMA TickPlans ==
  ASSUME IInv, NEW s \in Sessions,
         TickRead(s) \/ TickQueued(s) \/ TickReprioritize(s) \/ TickCollect(s) \/ TickRelease(s)
  PROVE  StepOK
<1>1. SessionOK(sess[s]) /\ DOMAIN sess = Sessions
  BY DEF IInv, CoreOK
<1>2. CASE TickRead(s)
  <2> DEFINE fresh == Len(db.journal) = 1
             r == [sess[s] EXCEPT !.seen = CachedOr(db), !.fresh = fresh,
                                  !.pc = IF fresh THEN "fresh" ELSE "collect"]
  <2>1. SessionOK(r) /\ r.op = "tick"
    BY <1>1, <1>2, IdleFields DEF SessionOK, Fields, TickRead, At
  <2>2. sess' = [sess EXCEPT ![s] = r]
    BY <1>1, <1>2 DEF TickRead
  <2> HIDE DEF r
  <2>3. Calm(s)
    BY <2>1, <2>2, TickMoves
  <2> QED  BY <1>2, <2>3, CalmRead DEF TickRead
<1>3. CASE TickQueued(s)
  <2> DEFINE d == Log(Rows(s), "queued", NoStep)
             r == [sess[s] EXCEPT !.seen = Project(d), !.pc = "collect"]
  <2>1. SessionOK(r) /\ r.op = "tick"
    BY <1>1, <1>3, IdleFields DEF SessionOK, Fields, TickQueued, At
  <2>2. sess' = [sess EXCEPT ![s] = r]
    BY <1>1, <1>3 DEF TickQueued
  <2>3. Write(s, d) /\ lock \in {NoSession, s}
    BY <1>3 DEF TickQueued, Write
  <2>4. Quiet(d)
    BY <2>3, RowsAreDraft, QuietDraft
  <2> HIDE DEF r, d
  <2>5. Calm(s)
    BY <2>1, <2>2, TickMoves
  <2> QED  BY <2>3, <2>4, <2>5, CalmWrite
<1>4. CASE TickReprioritize(s)
  <2> DEFINE d == Log(Rows(s), "reprioritized", NoStep)
             r == [sess[s] EXCEPT !.num = 1]
  <2>1. SessionOK(r) /\ r.op = "tick"
    BY <1>1, <1>4, IdleFields DEF SessionOK, Fields, TickReprioritize, At
  <2>2. sess' = [sess EXCEPT ![s] = r]
    BY <1>1, <1>4 DEF TickReprioritize
  <2>3. Write(s, d) /\ lock \in {NoSession, s}
    BY <1>4 DEF TickReprioritize, Write
  <2>4. Quiet(d)
    BY <2>3, RowsAreDraft, QuietDraft
  <2> HIDE DEF r, d
  <2>5. Calm(s)
    BY <2>1, <2>2, TickMoves
  <2> QED  BY <2>3, <2>4, <2>5, CalmWrite
<1>5. CASE TickCollect(s)
  <2> DEFINE rows == Expired(Rows(s), sess[s].seen.view)
             r == [sess[s] EXCEPT !.rows = rows]
             q == IF rows = NoRows THEN Planned(r) ELSE [r EXCEPT !.pc = "release"]
  <2>1. sess[s].op = "tick" /\ sess' = [sess EXCEPT ![s] = q]
    BY <1>5 DEF TickCollect, At
  <2> HIDE DEF rows
  <2>2. SessionOK(r) /\ r.op = "tick"
    BY <1>1, <2>1, IdleFields DEF SessionOK, Fields
  <2> HIDE DEF r
  <2>3. SessionOK(q) /\ q.op = "tick"
    BY <2>2, PlannedOK, IdleFields DEF SessionOK, Fields
  <2> HIDE DEF q
  <2>4. Calm(s)
    BY <2>1, <2>3, TickMoves
  <2> QED  BY <1>5, <2>4, CalmRead DEF TickCollect
<1>6. CASE TickRelease(s)
  <2> DEFINE d == ReleaseLeases(Rows(s), sess[s].rows)
             q == Planned(sess[s])
  <2>1. sess[s].op = "tick" /\ sess' = [sess EXCEPT ![s] = q]
    BY <1>6 DEF TickRelease, At
  <2>2. Write(s, d) /\ lock \in {NoSession, s}
    BY <1>6 DEF TickRelease, Write
  <2>3. Rows(s) = draft /\ RowsOK(draft)
    BY <2>2, RowsAreDraft DEF IInv, CoreOK
  <2>4. Quiet(d)
    BY <2>3, ReleaseRows DEF Quiet
  <2>5. Calm(s)
    BY <1>1, <2>1, PlannedOK, TickMoves
  <2> QED  BY <2>2, <2>4, <2>5, CalmWrite
<1> QED  BY <1>2, <1>3, <1>4, <1>5, <1>6

(* On to the next step of the loop.                                        *)
LEMMA AdvanceCalmly ==
  ASSUME IInv, NEW s \in Sessions, NEW x, NEW status \in Statuses,
         sess[s].op = "tick", Advance(s, x, status)
  PROVE  Calm(s)
<1> DEFINE todo == sess[s].todo \ {x}
           r == [sess[s] EXCEPT !.todo = todo, !.status = status,
                                !.pc = IF todo = {} THEN "done" ELSE "loop"]
<1>1. SessionOK(sess[s]) /\ DOMAIN sess = Sessions
  BY DEF IInv, CoreOK
<1>2. SessionOK(r) /\ r.op = "tick"
  BY <1>1, IdleFields DEF SessionOK, Fields
<1>3. sess' = [sess EXCEPT ![s] = r]
  BY <1>1 DEF Advance
<1> HIDE DEF r
<1> QED  BY <1>2, <1>3, TickMoves

(* The step to dispatch is leased.                                         *)
LEMMA LeasedCalmly ==
  ASSUME IInv, NEW s \in Sessions, NEW x \in Steps, sess[s].op = "tick",
         sess' = [sess EXCEPT ![s].step = x, ![s].pc = "leased"]
  PROVE  Calm(s)
<1> DEFINE r == [sess[s] EXCEPT !.step = x, !.pc = "leased"]
<1>1. SessionOK(sess[s]) /\ DOMAIN sess = Sessions
  BY DEF IInv, CoreOK
<1>2. SessionOK(r) /\ r.op = "tick"
  BY <1>1, IdleFields DEF SessionOK, Fields
<1>3. sess' = [sess EXCEPT ![s] = r]
  BY <1>1
<1> HIDE DEF r
<1> QED  BY <1>2, <1>3, TickMoves

(* The rows after a pre-dispatch capture are quiet.                        *)
LEMMA CapturedQuiet ==
  ASSUME IInv, NEW s \in Sessions, NEW x, lock \in {NoSession, s}
  PROVE  Quiet(Captured(s, x))
BY RowsAreDraft, QuietDraft DEF Captured

(* A calm step that saves the captured rows, if there is anything to save. *)
LEMMA SaveCaptured ==
  ASSUME IInv, NEW s \in Sessions, NEW x, Calm(s), Save(s, Captured(s, x))
  PROVE  StepOK
<1> DEFINE d == Captured(s, x)
<1>1. CASE d = Rows(s)
  BY <1>1, CalmRead DEF Save
<1>2. CASE d # Rows(s)
  <2>1. Write(s, d) /\ lock \in {NoSession, s}
    BY <1>2 DEF Save, Write
  <2>2. Quiet(d)
    BY <2>1, CapturedQuiet, SMT
  <2> HIDE DEF d
  <2> QED  BY <2>1, <2>2, CalmWrite
<1> QED  BY <1>1, <1>2

(* A new gate: its wait is none in the committed rows as well, so nobody   *)
(* is about to decide it, and it keeps the invariant for the draft.        *)
LEMMA GateStep ==
  ASSUME IInv, NEW s \in Sessions, NEW x \in Gates, TickGate(s, x)
  PROVE  StepOK
<1> DEFINE k == Captured(s, x)
           c == [k EXCEPT !.waits[x] = "pending"]
           e == SetStatus(c, sess[s].status, W)
           d == Log(e, W, x)
<1>1. /\ lock \in {NoSession, s} /\ lock' = s
      /\ draft' = d /\ db' = db
      /\ sess[s].op = "tick"
  BY DEF TickGate, Write, Processing, At, W
<1>2. Calm(s)
  BY <1>1, AdvanceCalmly DEF TickGate, W, Statuses
<1>3. draft.waits[x] = "none"
  BY <1>1, RowsAreDraft DEF TickGate
<1>4. RowsOK(k) /\ k.waits = draft.waits /\ "pending" \in Decisions
  BY <1>1, CapturedQuiet, SMT DEF Quiet, Decisions
<1> HIDE DEF k
<1>5. RowsOK(c) /\ c.waits = [draft.waits EXCEPT ![x] = "pending"]
  BY <1>4, WaitRows, SMT
<1> HIDE DEF c
<1>6. RowsOK(e) /\ e.waits = c.waits
  BY <1>5, SetStatusRows, SMT DEF Statuses, W
<1> HIDE DEF e
<1>7. RowsOK(d) /\ d.waits = [draft.waits EXCEPT ![x] = "pending"]
  BY <1>5, <1>6, LogRows, SMT
<1> HIDE DEF d
<1>8. CoreOK'
  BY <1>1, <1>2, <1>7, CalmSessions, ConstantsAssumption DEF IInv, CoreOK
<1>9. db.waits[x] = "none"
  BY <1>3 DEF IInv, GateInv
<1>10. Informed(x)'
  <2>1. \A t \in Sessions : ~Deciding(sess[t], x)
    BY <1>9 DEF IInv, GateInv
  <2>2. \A t \in Sessions : ~Deciding(sess'[t], x)
    BY <1>2, <2>1, CalmSessions
  <2> QED  BY <2>2 DEF Informed, AboutToDecide
<1>11. DOMAIN draft.waits = Gates
  BY DEF IInv, CoreOK, RowsOK
<1>12. d.waits[x] = "pending" /\ \A g \in Gates \ {x} : d.waits[g] = draft.waits[g]
  BY <1>7, <1>11
<1>13. GateInv'
  <2>1. \A g \in Gates : db'.waits[g] # "none" => draft'.waits[g] # "none"
    BY <1>1, <1>9, <1>12 DEF IInv, GateInv
  <2>2. \A t \in Sessions, g \in Gates : Deciding(sess'[t], g) => db'.waits[g] # "none"
    BY <1>1, <1>2, CalmSessions DEF IInv, GateInv
  <2>3. db'.status = W => \E g \in Gates : Open(db'.waits[g]) /\ Informed(g)'
    BY <1>1, <1>2, CalmSessions DEF IInv, GateInv
  <2>4. Open(draft'.waits[x]) /\ db'.waits[x] = "none"
    BY <1>1, <1>9, <1>12 DEF Open
  <2> QED  BY <1>10, <2>1, <2>2, <2>3, <2>4 DEF GateInv
<1> QED  BY <1>2, <1>8, <1>13, CalmSessions DEF StepOK

(* The steps of the loop over the planned steps.                           *)
LEMMA TickLoops ==
  ASSUME IInv, NEW s \in Sessions, NEW x \in Steps,
         TickCaptureFails(s, x) \/ TickSkip(s, x) \/ TickGate(s, x) \/ TickAcquire(s, x)
  PROVE  StepOK
<1>1. sess[s].op = "tick" /\ sess[s].status \in Statuses
  BY DEF TickCaptureFails, TickSkip, TickGate, TickAcquire, Processing, At,
         IInv, CoreOK, SessionOK
<1>2. CASE TickCaptureFails(s, x)
  <2> DEFINE d == Log(SetStatus(Rows(s), sess[s].status, "paused"), "failed", x)
  <2>1. Write(s, d) /\ lock \in {NoSession, s} /\ Goto(s, "done")
    BY <1>2 DEF TickCaptureFails, Write
  <2>2. "paused" \in Statuses \ {W}
    BY DEF Statuses, W
  <2>3. Quiet(d)
    BY <2>1, <2>2, RowsAreDraft, QuietDraft, QuietUpdate
  <2> HIDE DEF d
  <2> QED  BY <2>1, <2>3, GotoDone, CalmWrite
<1>3. CASE TickSkip(s, x)
  BY <1>1, <1>3, AdvanceCalmly, SaveCaptured DEF TickSkip
<1>4. CASE TickGate(s, x)
  BY <1>4, GateStep DEF TickGate
<1>5. CASE TickAcquire(s, x)
  BY <1>1, <1>5, LeasedCalmly, SaveCaptured DEF TickAcquire
<1> QED  BY <1>2, <1>3, <1>4, <1>5

(* The lease row of the leased step is opened, and released at once when   *)
(* the preflight finds a secret; the rows stay quiet.                      *)
LEMMA QuietLease ==
  ASSUME IInv, NEW s \in Sessions, NEW state \in LeaseStates
  PROVE  Quiet([draft EXCEPT !.leases[sess[s].step] = Append(@, state)])
<1> DEFINE x == sess[s].step
           e == [draft EXCEPT !.leases[x] = Append(@, state)]
<1>1. x \in Steps \cup {NoStep} /\ RowsOK(draft)
  BY DEF IInv, CoreOK, SessionOK
<1>2. CASE x \in Steps
  BY <1>1, <1>2, LeaseRows, SMT DEF Quiet
<1>3. CASE x = NoStep
  <2>1. x \notin DOMAIN draft.leases
    BY <1>1, <1>3, ConstantsAssumption DEF RowsOK
  <2> HIDE DEF x
  <2>2. [draft.leases EXCEPT ![x] = Append(@, state)] = draft.leases
    BY <1>1, <2>1 DEF RowsOK
  <2>3. e.leases = draft.leases /\ e.waits = draft.waits /\ e.status = draft.status
        /\ e.version = draft.version /\ DOMAIN e = DOMAIN draft
    BY <1>1, <2>2 DEF RowsOK
  <2> HIDE DEF e
  <2>4. Quiet(e)
    BY <1>1, <2>3 DEF Quiet, RowsOK
  <2> QED  BY <2>4 DEF e, x
<1> QED  BY <1>1, <1>2, <1>3

(* The steps that end the processing of a leased step, and of the tick.    *)
LEMMA TickEnds ==
  ASSUME IInv, NEW s \in Sessions,
         TickFinish(s) \/ TickSecretLeak(s) \/ TickLaunch(s)
           \/ TickCheckpointClash(s) \/ TickLaunchFails(s)
  PROVE  StepOK
<1>1. CASE TickFinish(s)
  <2> DEFINE d == Log(SetStatus(Rows(s), sess[s].status, "completed"), "completed", NoStep)
  <2>1. Calm(s)
    BY <1>1, GotoDone DEF TickFinish
  <2>2. CASE UNCHANGED <<db, lock, draft>>
    BY <2>1, <2>2, CalmRead
  <2>3. CASE Write(s, d)
    <3>1. lock \in {NoSession, s} /\ "completed" \in Statuses \ {W}
      BY <2>3 DEF Write, Statuses, W
    <3>2. Quiet(d)
      BY <3>1, RowsAreDraft, QuietDraft, QuietUpdate
    <3> HIDE DEF d
    <3> QED  BY <2>1, <2>3, <3>2, CalmWrite
  <2> QED  BY <1>1, <2>2, <2>3 DEF TickFinish
<1>2. CASE TickSecretLeak(s)
  <2> DEFINE x == sess[s].step
             c == [Rows(s) EXCEPT !.leases[x] = Append(@, "released")]
             d == Log(SetStatus(c, sess[s].status, "failed"), "failed", x)
  <2>1. Write(s, d) /\ lock \in {NoSession, s} /\ Goto(s, "done")
    BY <1>2 DEF TickSecretLeak, Write
  <2>2. "failed" \in Statuses \ {W} /\ "released" \in LeaseStates
    BY DEF Statuses, W, LeaseStates
  <2>3. Quiet(c)
    BY <2>1, <2>2, RowsAreDraft, QuietLease
  <2> HIDE DEF c
  <2>4. Quiet(d)
    BY <2>2, <2>3, QuietUpdate
  <2> HIDE DEF d
  <2> QED  BY <2>1, <2>4, GotoDone, CalmWrite
<1>3. CASE TickLaunch(s)
  <2> DEFINE x == sess[s].step
             type == IF sess[s].rows[x] > 0 THEN "retried" ELSE "dispatched"
             c == OpenLease(Rows(s), x)
             d == Log(SetStatus(c, sess[s].status, "running"), type, x)
             e == IF CheckpointDue(d) THEN AddCheckpoint(d, 1, Project(d)) ELSE d
  <2>1. /\ Write(s, e) /\ lock \in {NoSession, s}
        /\ Advance(s, x, "running") /\ sess[s].op = "tick"
    BY <1>3 DEF TickLaunch, Write, Dispatched, At
  <2>2. "running" \in Statuses \ {W} /\ {"live", "lapsed"} \subseteq LeaseStates
    BY DEF Statuses, W, LeaseStates
  <2>3. Quiet(c)
    BY <2>1, <2>2, RowsAreDraft, QuietLease DEF OpenLease
  <2> HIDE DEF c, type
  <2>4. Quiet(d)
    BY <2>2, <2>3, QuietUpdate
  <2> HIDE DEF d
  <2>5. Quiet(e)
    BY <2>4, QuietDraft
  <2> HIDE DEF e
  <2>6. Calm(s)
    BY <2>1, <2>2, AdvanceCalmly
  <2> QED  BY <2>1, <2>5, <2>6, CalmWrite
<1>4. CASE TickCheckpointClash(s)
  BY <1>4, RollbackStep DEF TickCheckpointClash
<1>5. CASE TickLaunchFails(s)
  BY <1>5, RollbackStep DEF TickLaunchFails
<1> QED  BY <1>1, <1>2, <1>3, <1>4, <1>5

-----------------------------------------------------------------------------
(* The other handlers.                                                     *)

(* A handler that writes quiet rows keeps the invariant.                   *)
LEMMA QuietApply ==
  ASSUME IInv, NEW s \in Sessions, NEW d, Quiet(d), Apply1(s, d)
  PROVE  StepOK
BY GotoDone, CalmWrite DEF Apply1

(* So does one that assigns a status other than waiting_for_approval.      *)
LEMMA StatusApply ==
  ASSUME IInv, NEW s \in Sessions, NEW new \in Statuses \ {W}, NEW type, NEW step,
         \/ Apply1(s, Log(SetStatus(Rows(s), sess[s].status, new), type, step))
         \/ Apply1(s, SetStatus(Rows(s), sess[s].status, new))
  PROVE  StepOK
<1>1. Rows(s) = draft
  BY RowsAreDraft DEF Apply1, Write
<1> DEFINE e == SetStatus(Rows(s), sess[s].status, new)
           d == Log(e, type, step)
<1>2. Quiet(d) /\ Quiet(e)
  BY <1>1, QuietDraft, QuietUpdate
<1>3. Apply1(s, d) \/ Apply1(s, e)
  OBVIOUS
<1> HIDE DEF d, e
<1> QED  BY <1>2, <1>3, QuietApply

(* A decision loads the status and, in a second query, the wait.           *)
LEMMA DecisionLoads ==
  ASSUME IInv, NEW s \in Sessions,
         \/ \E g \in Gates, op \in {"approve", "reject"} : DecisionLoad(s, op, g)
         \/ DecisionRead(s)
  PROVE  StepOK
<1>1. ASSUME NEW g \in Gates, NEW op \in {"approve", "reject"}, DecisionLoad(s, op, g)
      PROVE  StepOK
  <2> DEFINE r == [Idle EXCEPT !.op = op, !.pc = "asked", !.step = g, !.status = db.status]
  <2>1. SessionOK(r) /\ r.op = op
    BY ConstantsAssumption DEF SessionOK, Idle, IInv, CoreOK, RowsOK
  <2>2. sess' = [sess EXCEPT ![s] = r] /\ UNCHANGED <<db, lock, draft>>
    BY <1>1 DEF DecisionLoad
  <2> HIDE DEF r
  <2>3. Calm(s)
    BY <2>1, <2>2, DecisionMoves
  <2> QED  BY <2>2, <2>3, CalmRead
<1>2. CASE DecisionRead(s)
  <2> DEFINE r == [sess[s] EXCEPT !.pc = "loaded"]
  <2>1. SessionOK(sess[s]) /\ sess[s].op \in {"approve", "reject"} /\ DOMAIN sess = Sessions
    BY <1>2 DEF DecisionRead, IInv, CoreOK
  <2>2. SessionOK(r) /\ r.op = sess[s].op
    BY <2>1, IdleFields DEF SessionOK, Fields
  <2>3. /\ sess' = [sess EXCEPT ![s] = r] \/ sess' = [sess EXCEPT ![s] = Idle]
        /\ UNCHANGED <<db, lock, draft>>
    BY <1>2, <2>1 DEF DecisionRead
  <2> HIDE DEF r
  <2>4. Calm(s)
    BY <2>1, <2>2, <2>3, DecisionMoves, EndsCalmly
  <2> QED  BY <2>3, <2>4, CalmRead
<1> QED  BY <1>1, <1>2

(* An approval queues the execution.                                       *)
LEMMA ApproveStep ==
  ASSUME IInv, NEW s \in Sessions, ApproveWrite(s)
  PROVE  StepOK
<1> DEFINE g == sess[s].step
           c == [draft EXCEPT !.waits[g] = "approved"]
           e == SetStatus(c, "running", "queued")
           d == Log(Log(e, "approved", g), "resumed", g)
<1>1. Rows(s) = draft
  BY RowsAreDraft DEF ApproveWrite, Apply1, Write
<1>2. lock' = s /\ draft' = d /\ db' = db /\ Goto(s, "done")
  BY <1>1 DEF ApproveWrite, Apply1, Write
<1>3. RowsOK(draft) /\ "approved" \in Decisions /\ "queued" \in Statuses
  BY DEF IInv, CoreOK, Decisions, Statuses
<1> HIDE DEF g
<1>4. RowsOK(c) /\ c.waits = [draft.waits EXCEPT ![g] = "approved"]
  BY <1>3 DEF RowsOK
<1> HIDE DEF c
<1>5. RowsOK(e) /\ e.waits = c.waits /\ e.status = "queued"
  BY <1>3, <1>4, SetStatusRows, SMT
<1> HIDE DEF e
<1>6. RowsOK(d) /\ d.waits = [draft.waits EXCEPT ![g] = "approved"] /\ d.status = "queued"
  BY <1>4, <1>5, LogRows, SMT
<1> HIDE DEF d
<1>7. Calm(s)
  BY <1>2, GotoDone
<1>8. CoreOK'
  BY <1>2, <1>6, <1>7, CalmSessions, ConstantsAssumption DEF IInv, CoreOK
<1>9. \A h \in Gates : d.waits[h] = draft.waits[h] \/ d.waits[h] # "none"
  BY <1>3, <1>6 DEF RowsOK
<1>10. GateInv'
  BY <1>2, <1>6, <1>7, <1>9, CalmSessions DEF IInv, GateInv, W
<1> QED  BY <1>7, <1>8, <1>10, CalmSessions DEF StepOK

(* A rejection that writes no status leaves an open wait: its own.         *)
LEMMA RejectStep ==
  ASSUME IInv, NEW s \in Sessions, RejectWrite(s)
  PROVE  StepOK
<1> DEFINE g == sess[s].step
           c == [draft EXCEPT !.waits[g] = "rejected"]
           e == SetStatus(c, sess[s].status, "failed")
           d == Log(e, "rejected", g)
<1>1. Rows(s) = draft
  BY RowsAreDraft DEF RejectWrite, Apply1, Write
<1>2. lock' = s /\ draft' = d /\ db' = db /\ Goto(s, "done")
  BY <1>1 DEF RejectWrite, Apply1, Write
<1>3. RowsOK(draft) /\ "rejected" \in Decisions /\ "failed" \in Statuses
  BY DEF IInv, CoreOK, Decisions, Statuses
<1> HIDE DEF g
<1>4. /\ RowsOK(c) /\ c.waits = [draft.waits EXCEPT ![g] = "rejected"]
      /\ c.status = draft.status
  BY <1>3, WaitRows, SMT
<1> HIDE DEF c
<1>5. RowsOK(e) /\ e.waits = c.waits /\ e.status \in {c.status, "failed"}
  BY <1>3, <1>4 DEF RowsOK, SetStatus
<1> HIDE DEF e
<1>6. /\ RowsOK(d) /\ d.waits = [draft.waits EXCEPT ![g] = "rejected"]
      /\ d.status = W => d.status = draft.status
  BY <1>4, <1>5 DEF W, RowsOK, Log
<1> HIDE DEF d
<1>7. Calm(s)
  BY <1>2, GotoDone
<1>8. CoreOK'
  BY <1>2, <1>6, <1>7, CalmSessions, ConstantsAssumption DEF IInv, CoreOK
<1>9. \A h \in Gates : d.waits[h] = draft.waits[h] \/ d.waits[h] = "rejected"
  BY <1>3, <1>6 DEF RowsOK
<1>10. GateInv'
  <2>1. \A h \in Gates : db'.waits[h] # "none" => draft'.waits[h] # "none"
    BY <1>2, <1>9 DEF IInv, GateInv
  <2>2. \A t \in Sessions, h \in Gates : Deciding(sess'[t], h) => db'.waits[h] # "none"
    BY <1>2, <1>7, CalmSessions DEF IInv, GateInv
  <2>3. db'.status = W => \E h \in Gates : Open(db'.waits[h]) /\ Informed(h)'
    BY <1>2, <1>7, CalmSessions DEF IInv, GateInv
  <2>4. ASSUME draft'.status = W
        PROVE  \E h \in Gates : /\ Open(draft'.waits[h])
                                /\ Informed(h)'
                                /\ db'.status = W \/ db'.waits[h] = "none"
    <3>1. PICK h \in Gates : /\ Open(draft.waits[h])
                             /\ Informed(h)
                             /\ db.status = W \/ db.waits[h] = "none"
      BY <1>2, <1>6, <2>4 DEF IInv, GateInv
    <3>2. Open(draft'.waits[h])
      BY <1>2, <1>9, <3>1 DEF Open
    <3> QED  BY <1>2, <1>7, <3>1, <3>2, CalmSessions
  <2> QED  BY <2>1, <2>2, <2>3, <2>4 DEF GateInv
<1> QED  BY <1>7, <1>8, <1>10, CalmSessions DEF StepOK

(* A scan lists undecided waits; it is not about to decide them yet.       *)
LEMMA ScanLists ==
  ASSUME IInv, NEW s \in Sessions, NEW overdue \in SUBSET Gates, ScanList(s, overdue)
  PROVE  StepOK
<1> DEFINE r == [Idle EXCEPT !.op = "scan", !.pc = "listed", !.todo = overdue]
<1>1. SessionOK(r) /\ r.op = "scan" /\ r.pc = "listed" /\ r.todo = overdue
  BY ConstantsAssumption DEF SessionOK, Idle, Statuses
<1>2. /\ sess' = [sess EXCEPT ![s] = r] /\ UNCHANGED <<db, lock, draft>>
      /\ \A g \in overdue : db.waits[g] = "pending"
  BY DEF ScanList
<1> HIDE DEF r
<1>3. DOMAIN sess' = Sessions /\ sess'[s] = r
  BY <1>2 DEF IInv, CoreOK
<1>4. \A t \in Sessions \ {s} : sess'[t] = sess[t]
  BY <1>2 DEF IInv, CoreOK
<1>5. CoreOK'
  BY <1>1, <1>2, <1>3, <1>4 DEF IInv, CoreOK
<1>6. HotChangeOK'
  BY <1>1, <1>3, <1>4 DEF IInv, HotChangeOK
<1>7. \A h \in Gates : Informed(h) => Informed(h)'
  BY <1>1, <1>3, <1>4 DEF Informed, AboutToDecide
<1>8. \A t \in Sessions, h \in Gates : Deciding(sess'[t], h) => db.waits[h] # "none"
  <2> SUFFICES ASSUME NEW t \in Sessions, NEW h \in Gates, Deciding(sess'[t], h)
               PROVE  db.waits[h] # "none"
    OBVIOUS
  <2>1. CASE t = s
    <3>1. h \in overdue
      BY <1>1, <1>3, <2>1 DEF Deciding
    <3> QED  BY <1>2, <3>1
  <2>2. CASE t # s
    BY <1>4, <2>2 DEF IInv, GateInv
  <2> QED  BY <2>1, <2>2
<1>9. GateInv'
  BY <1>2, <1>7, <1>8 DEF IInv, GateInv
<1> QED  BY <1>5, <1>6, <1>9 DEF StepOK

(* The scan loads the committed status.                                    *)
LEMMA ScanFetches ==
  ASSUME IInv, NEW s \in Sessions, ScanFetch(s)
  PROVE  StepOK
<1> DEFINE r == [sess[s] EXCEPT !.pc = "loaded", !.status = db.status]
<1>1. SessionOK(sess[s]) /\ DOMAIN sess = Sessions /\ db.status \in Statuses
  BY DEF IInv, CoreOK, RowsOK
<1>2. /\ SessionOK(r) /\ r.op = "scan"
      /\ r.todo = sess[s].todo /\ r.status = db.status /\ sess[s].op = "scan"
  BY <1>1, IdleFields DEF SessionOK, Fields, ScanFetch, At
<1>3. sess' = [sess EXCEPT ![s] = r] /\ UNCHANGED <<db, lock, draft>>
  BY <1>1 DEF ScanFetch
<1> HIDE DEF r
<1>4. DOMAIN sess' = Sessions /\ sess'[s] = r
  BY <1>1, <1>3
<1>5. \A t \in Sessions \ {s} : sess'[t] = sess[t]
  BY <1>1, <1>3
<1>6. CoreOK'
  BY <1>2, <1>3, <1>4, <1>5 DEF IInv, CoreOK
<1>7. HotChangeOK'
  BY <1>2, <1>4, <1>5 DEF IInv, HotChangeOK
<1>8. \A t \in Sessions, h \in Gates : Deciding(sess'[t], h) => Deciding(sess[t], h)
  BY <1>2, <1>4, <1>5 DEF Deciding
<1>9. \A h \in Gates : Informed(h) /\ (db.status = W \/ db.waits[h] = "none") => Informed(h)'
  <2> SUFFICES ASSUME NEW h \in Gates, Informed(h), db.status = W \/ db.waits[h] = "none",
                      NEW t \in Sessions, AboutToDecide(sess'[t], h)
               PROVE  sess'[t].status = W
    BY DEF Informed
  <2>1. db.waits[h] # "none"
    BY <1>8 DEF IInv, GateInv, AboutToDecide
  <2>2. CASE t = s
    BY <1>2, <1>4, <2>1, <2>2
  <2>3. CASE t # s
    BY <1>5, <2>3 DEF Informed
  <2> QED  BY <2>2, <2>3
<1>10. GateInv'
  BY <1>3, <1>8, <1>9 DEF IInv, GateInv
<1> QED  BY <1>6, <1>7, <1>10 DEF StepOK

(* The scan decides the waits it has listed.  If it writes no status, it   *)
(* had loaded failed or running, and so the listed waits are not the ones  *)
(* the execution waits for.                                                *)
LEMMA ScanWrites ==
  ASSUME IInv, NEW s \in Sessions, ScanWrite(s)
  PROVE  StepOK
<1>1. PICK order \in Bijection(1..Cardinality(sess[s].todo), sess[s].todo) :
             Apply1(s, TimedOut(Rows(s), sess[s].status, order))
  BY DEF ScanWrite
<1>2. Range(order) \subseteq sess[s].todo
  BY <1>1 DEF Bijection, Injection, Range
<1> DEFINE old == sess[s].status
           d == TimedOut(draft, old, order)
<1>3. Rows(s) = draft
  BY <1>1, RowsAreDraft DEF Apply1, Write
<1>4. /\ lock' = s /\ draft' = d /\ db' = db /\ Goto(s, "done")
      /\ \A g \in Range(order) : AboutToDecide(sess[s], g)
  BY <1>1, <1>2, <1>3 DEF Apply1, Write, ScanWrite, AboutToDecide, Deciding
<1>5. RowsOK(draft)
  BY DEF IInv, CoreOK
<1>6. TimeoutEffect(d, draft, old, order)
  BY <1>5, TimedOutRows
<1> HIDE DEF d
<1>7. /\ RowsOK(d)
      /\ \A g \in Gates : d.waits[g] = draft.waits[g] \/ d.waits[g] # "none"
      /\ \A g \in Gates \ Range(order) : d.waits[g] = draft.waits[g]
      /\ d.status = W => /\ d.status = draft.status
                        /\ \A i \in DOMAIN order : TimeoutStatus(order[i]) = old
  BY <1>6 DEF TimeoutEffect
<1>8. d.status = W => \A g \in Range(order) : old # W
  <2> SUFFICES ASSUME d.status = W, NEW g \in Range(order)
               PROVE  old # W
    OBVIOUS
  <2>1. PICK i \in DOMAIN order : order[i] = g
    BY DEF Range
  <2> QED  BY <1>7, <2>1 DEF TimeoutStatus, W
<1>9. Calm(s)
  BY <1>4, GotoDone
<1>10. CoreOK'
  BY <1>4, <1>7, <1>9, CalmSessions, ConstantsAssumption DEF IInv, CoreOK
<1>11. GateInv'
  <2>1. \A h \in Gates : db'.waits[h] # "none" => draft'.waits[h] # "none"
    BY <1>4, <1>7 DEF IInv, GateInv
  <2>2. \A t \in Sessions, h \in Gates : Deciding(sess'[t], h) => db'.waits[h] # "none"
    BY <1>4, <1>9, CalmSessions DEF IInv, GateInv
  <2>3. db'.status = W => \E h \in Gates : Open(db'.waits[h]) /\ Informed(h)'
    BY <1>4, <1>9, CalmSessions DEF IInv, GateInv
  <2>4. ASSUME draft'.status = W
        PROVE  \E h \in Gates : /\ Open(draft'.waits[h])
                                /\ Informed(h)'
                                /\ db'.status = W \/ db'.waits[h] = "none"
    <3>1. PICK h \in Gates : /\ Open(draft.waits[h])
                             /\ Informed(h)
                             /\ db.status = W \/ db.waits[h] = "none"
      BY <1>4, <1>7, <2>4 DEF IInv, GateInv
    <3>2. h \notin Range(order)
      BY <1>4, <1>8, <2>4, <3>1 DEF Informed
    <3> QED  BY <1>4, <1>7, <1>9, <3>1, <3>2, CalmSessions
  <2> QED  BY <2>1, <2>2, <2>3, <2>4 DEF GateInv
<1> QED  BY <1>9, <1>10, <1>11, CalmSessions DEF StepOK

(* A rollback, and one whose event could not be published.                 *)
LEMMA RollbackWrites ==
  ASSUME IInv, NEW s \in Sessions, RollbackWrite(s) \/ RollbackPublishFails(s)
  PROVE  StepOK
<1> DEFINE e == RolledBack(draft, sess[s].status, sess[s].num)
           d == [e EXCEPT !.status = "rollback_failed"]
<1>1. Rows(s) = draft
  BY RowsAreDraft DEF RollbackWrite, RollbackPublishFails, Write
<1>2. (Write(s, e) \/ Write(s, d)) /\ Goto(s, "done")
  BY <1>1 DEF RollbackWrite, RollbackPublishFails
<1>3. RowsOK(draft)
  BY DEF IInv, CoreOK
<1>4. RowsOK(e) /\ e.waits = draft.waits /\ e.status \in {draft.status, "rolled_back"}
  BY <1>3, RolledBackRows
<1> HIDE DEF e
<1>5. Quiet(e)
  BY <1>4 DEF Quiet, W
<1>6. Quiet(d)
  BY <1>4 DEF Quiet, RowsOK, Statuses, W
<1> HIDE DEF d
<1> QED  BY <1>2, <1>5, <1>6, GotoDone, CalmWrite

(* A handler that only loads the executions row, other than a decision or  *)
(* a scan, disturbs nothing.                                               *)
LEMMA LoadStep ==
  ASSUME IInv, NEW s \in Sessions, NEW op, NEW num, NEW step \in Steps \cup {NoStep},
         Load(s, op, step, num),
         op # "scan",
         op = "hot_change" => num \in Versions
  PROVE  StepOK
<1>1. Calm(s)
  BY LoadCalmly
<1> QED  BY <1>1, CalmRead DEF Load

(* The handlers that load and write without touching a wait.               *)
LEMMA OtherLoads ==
  ASSUME IInv, NEW s \in Sessions,
         \/ TickList(s) \/ CancelLoad(s) \/ PauseLoad(s) \/ OverageLoad(s)
         \/ \E x \in Steps : CompensateLoad(s, x)
         \/ \E v \in Versions : HotChangeLoad(s, v)
         \/ \E x \in Steps, type \in RuntimeEvents : RuntimeLoad(s, type, x)
         \/ \E n \in 1..MaxCheckpoints : RollbackLoad(s, n)
  PROVE  StepOK
<1>1. CASE TickList(s)
  BY <1>1, LoadStep DEF TickList
<1>2. CASE CancelLoad(s)
  BY <1>2, LoadStep DEF CancelLoad
<1>3. CASE PauseLoad(s)
  BY <1>3, LoadStep DEF PauseLoad
<1>4. CASE OverageLoad(s)
  BY <1>4, LoadStep DEF OverageLoad
<1>5. ASSUME NEW x \in Steps, CompensateLoad(s, x)
      PROVE  StepOK
  BY <1>5, LoadStep DEF CompensateLoad
<1>6. ASSUME NEW v \in Versions, HotChangeLoad(s, v)
      PROVE  StepOK
  BY <1>6, LoadStep DEF HotChangeLoad
<1>7. ASSUME NEW x \in Steps, NEW type \in RuntimeEvents, RuntimeLoad(s, type, x)
      PROVE  StepOK
  <2>1. Load(s, type, x, 0) /\ type \notin {"scan", "hot_change"}
    BY <1>7 DEF RuntimeLoad, RuntimeEvents
  <2> QED  BY <2>1, LoadStep
<1>8. ASSUME NEW n \in 1..MaxCheckpoints, RollbackLoad(s, n)
      PROVE  StepOK
  BY <1>8, LoadStep DEF RollbackLoad
<1> QED  BY <1>1, <1>2, <1>3, <1>4, <1>5, <1>6, <1>7, <1>8

(* Their writes assign a status that waits for no approval, or none.       *)
LEMMA OtherWrites ==
  ASSUME IInv, NEW s \in Sessions,
         \/ CancelWrite(s) \/ PauseWrite(s) \/ OverageWrite(s) \/ CompensateWrite(s)
         \/ HotChangeWrite(s) \/ RuntimeWrite(s)
  PROVE  StepOK
<1>1. {"canceled", "paused", "queued", "failed", "running"} \subseteq Statuses \ {W}
  BY DEF Statuses, W
<1>2. CASE CancelWrite(s)
  BY <1>1, <1>2, StatusApply DEF CancelWrite
<1>3. CASE PauseWrite(s)
  BY <1>1, <1>3, StatusApply DEF PauseWrite
<1>4. CASE OverageWrite(s)
  BY <1>1, <1>4, StatusApply DEF OverageWrite
<1>5. CASE CompensateWrite(s)
  <2> DEFINE d == Log(Rows(s), "compensated", sess[s].step)
  <2>1. Apply1(s, d) /\ Rows(s) = draft
    BY <1>5, RowsAreDraft DEF CompensateWrite, Apply1, Write
  <2>2. Quiet(d)
    BY <2>1, QuietDraft
  <2> HIDE DEF d
  <2> QED  BY <2>1, <2>2, QuietApply
<1>6. CASE HotChangeWrite(s)
  <2> DEFINE c == [draft EXCEPT !.version = sess[s].num]
             d == Log(c, "hot_changed", NoStep)
  <2>1. Rows(s) = draft
    BY <1>6, RowsAreDraft DEF HotChangeWrite, Apply1, Write
  <2>2. Apply1(s, d) /\ sess[s].num \in Versions
    BY <1>6, <2>1 DEF HotChangeWrite, IInv, HotChangeOK
  <2>3. RowsOK(c) /\ c.waits = draft.waits /\ c.status = draft.status
    BY <2>2 DEF RowsOK, IInv, CoreOK
  <2> HIDE DEF c
  <2>4. Quiet(d)
    BY <2>3 DEF Quiet, RowsOK, Log
  <2> HIDE DEF d
  <2> QED  BY <2>2, <2>4, QuietApply
<1>7. CASE RuntimeWrite(s)
  <2> DEFINE new == IF sess[s].op = "failed" THEN "failed" ELSE "running"
  <2>1. new \in Statuses \ {W}
    BY <1>1
  <2>2. Apply1(s, Log(SetStatus(Rows(s), sess[s].status, new), sess[s].op, sess[s].step))
    BY <1>7 DEF RuntimeWrite
  <2> HIDE DEF new
  <2> QED  BY <2>1, <2>2, StatusApply
<1> QED  BY <1>2, <1>3, <1>4, <1>5, <1>6, <1>7

-----------------------------------------------------------------------------
(* The steps of the environment, the histories and the theorems.           *)

(* Garbage collection, lapsing leases and reads touch no status or wait.   *)
LEMMA EnvironmentSteps ==
  ASSUME IInv, Environment
  PROVE  StepOK
<1>1. CASE UNCHANGED <<db, lock, draft, sess>>
  BY <1>1 DEF IInv, StepOK, CoreOK, HotChangeOK, GateInv, Informed
<1>2. ASSUME NEW n \in 1..MaxCheckpoints, GcExpired(n)
      PROVE  StepOK
  <2> DEFINE d == [db EXCEPT !.ckpts = {c \in db.ckpts : c.num > n \/ c.num \in db.pins}]
  <2>1. lock = NoSession /\ db' = d /\ draft' = d /\ UNCHANGED <<lock, sess>> /\ draft = db
    BY <1>2 DEF GcExpired, IInv, CoreOK
  <2>2. RowsOK(d) /\ d.waits = db.waits /\ d.status = db.status
    BY DEF RowsOK, IInv, CoreOK
  <2> HIDE DEF d
  <2>3. CoreOK'
    BY <2>1, <2>2 DEF IInv, CoreOK
  <2>4. HotChangeOK' /\ \A g : Informed(g)' <=> Informed(g)
    BY <2>1 DEF IInv, HotChangeOK, Informed
  <2>5. GateInv'
    BY <2>1, <2>2, <2>4 DEF IInv, GateInv
  <2> QED  BY <2>3, <2>4, <2>5 DEF StepOK
<1>3. ASSUME NEW x \in Steps, LeaseLapses(x)
      PROVE  StepOK
  <2>1. db' = Lapse(db, x) /\ draft' = Lapse(draft, x) /\ UNCHANGED <<lock, sess>>
    BY <1>3 DEF LeaseLapses
  <2>2. /\ RowsOK(db') /\ db'.waits = db.waits /\ db'.status = db.status
        /\ RowsOK(draft') /\ draft'.waits = draft.waits /\ draft'.status = draft.status
    BY <2>1, LapseRows DEF IInv, CoreOK
  <2>3. CoreOK'
    BY <2>1, <2>2 DEF IInv, CoreOK
  <2>4. HotChangeOK' /\ \A g : Informed(g)' <=> Informed(g)
    BY <2>1 DEF IInv, HotChangeOK, Informed
  <2>5. GateInv'
    BY <2>1, <2>2, <2>4 DEF IInv, GateInv
  <2> QED  BY <2>3, <2>4, <2>5 DEF StepOK
<1> QED  BY <1>1, <1>2, <1>3 DEF Environment, ReadState, ResumeExecution, CacheExpires

(* A counter that is incremented, of a step or of none.                    *)
LEMMA Incremented ==
  ASSUME NEW f \in [Steps -> Nat], NEW x
  PROVE  [f EXCEPT ![x] = f[x] + 1] \in [Steps -> Nat]
<1>1. CASE x \in Steps
  BY <1>1, SMT
<1>2. CASE x \notin Steps
  <2>1. [f EXCEPT ![x] = f[x] + 1] = f
    BY <1>2
  <2> QED  BY <2>1
<1> QED  BY <1>1, <1>2

(* The Redis keys are those of steps, and the counters count.              *)
LEMMA CountersStep ==
  ASSUME IInv, Next
  PROVE  CountersOK'
<1>1. CASE UNCHANGED <<keys, live, launched, lapsed>>
  BY <1>1 DEF IInv, CountersOK
<1>2. ASSUME NEW s \in Sessions, TickCollect(s)
      PROVE  CountersOK'
  BY <1>2 DEF TickCollect, IInv, CountersOK
<1>3. ASSUME NEW s \in Sessions, NEW x \in Steps, TickAcquire(s, x)
      PROVE  CountersOK'
  BY <1>3 DEF TickAcquire, IInv, CountersOK
<1>4. ASSUME NEW s \in Sessions, TickLaunch(s) \/ TickCheckpointClash(s)
      PROVE  CountersOK'
  <2>1. Launch(sess[s].step) /\ UNCHANGED <<keys, lapsed>>
    BY <1>4 DEF TickLaunch, TickCheckpointClash
  <2> DEFINE x == sess[s].step
  <2>2. /\ live' = [live EXCEPT ![x] = live[x] + 1]
        /\ launched' = [launched EXCEPT ![x] = launched[x] + 1]
    BY <2>1 DEF Launch
  <2> HIDE DEF x
  <2>3. live' \in [Steps -> Nat] /\ launched' \in [Steps -> Nat]
    BY <2>2, Incremented DEF IInv, CountersOK
  <2> QED  BY <2>1, <2>3 DEF IInv, CountersOK
<1>5. ASSUME NEW s \in Sessions, NEW x \in Steps, NEW type, RuntimeLoad(s, type, x)
      PROVE  CountersOK'
  <2>1. /\ UNCHANGED <<keys, lapsed, launched>> /\ live[x] > 0
        /\ live' = live \/ live' = [live EXCEPT ![x] = live[x] - 1]
    BY <1>5 DEF RuntimeLoad, Load
  <2>2. live \in [Steps -> Nat]
    BY DEF IInv, CountersOK
  <2>3. live' \in [Steps -> Nat]
    BY <2>1, <2>2, SMT
  <2> QED  BY <2>1, <2>3 DEF IInv, CountersOK
<1>6. ASSUME NEW x \in Steps, LeaseLapses(x)
      PROVE  CountersOK'
  BY <1>6, SMT DEF LeaseLapses, IInv, CountersOK
<1>7. ASSUME NEW s \in Sessions, Tick(s)
      PROVE  CountersOK'
  BY <1>1, <1>2, <1>3, <1>4, <1>7
  DEF Tick, TickList, Load, TickRead, TickQueued, TickReprioritize, TickRelease, TickFinish,
      TickCaptureFails, TickSkip, TickGate, TickSecretLeak, TickLaunchFails
<1>8. ASSUME NEW s \in Sessions, Handler(s)
      PROVE  CountersOK'
  BY <1>1, <1>5, <1>8
  DEF Handler, Apply1, Load, CancelLoad, CancelWrite, PauseLoad, PauseWrite, OverageLoad,
      OverageWrite, DecisionLoad, DecisionRead, ApproveWrite, RejectWrite, CompensateLoad,
      CompensateWrite, HotChangeLoad, HotChangeWrite, RuntimeWrite, ScanList, ScanFetch,
      ScanWrite, RollbackLoad, RollbackWrite, RollbackPublishFails
<1> QED
  BY <1>1, <1>6, <1>7, <1>8
  DEF Next, Commit, Abort, SequenceTaken, Environment, ReadState, ResumeExecution,
      CacheExpires, GcExpired

(* Only a rollback of a session assigns spoiled.                           *)
LEMMA SpoiledStep ==
  ASSUME IInv, Next
  PROVE  spoiled' \in BOOLEAN
<1>1. CASE UNCHANGED spoiled
  BY <1>1 DEF IInv
<1>2. ASSUME NEW s \in Sessions, Rollback(s)
      PROVE  spoiled' \in BOOLEAN
  BY <1>2 DEF Rollback
<1>3. ASSUME NEW s \in Sessions, Tick(s)
      PROVE  spoiled' \in BOOLEAN
  BY <1>1, <1>2, <1>3
  DEF Tick, TickList, Load, TickRead, TickQueued, TickReprioritize, TickCollect, TickRelease,
      TickFinish, TickCaptureFails, TickSkip, TickGate, TickAcquire, TickSecretLeak,
      TickLaunch, TickCheckpointClash, TickLaunchFails
<1>4. ASSUME NEW s \in Sessions, Handler(s)
      PROVE  spoiled' \in BOOLEAN
  BY <1>1, <1>4
  DEF Handler, Apply1, Load, CancelLoad, CancelWrite, PauseLoad, PauseWrite, OverageLoad,
      OverageWrite, DecisionLoad, DecisionRead, ApproveWrite, RejectWrite, CompensateLoad,
      CompensateWrite, HotChangeLoad, HotChangeWrite, RuntimeLoad, RuntimeWrite, ScanList,
      ScanFetch, ScanWrite, RollbackLoad, RollbackWrite, RollbackPublishFails
<1> QED
  BY <1>1, <1>2, <1>3, <1>4
  DEF Next, Commit, Abort, SequenceTaken, Environment, ReadState, ResumeExecution,
      CacheExpires, GcExpired, LeaseLapses

(* The invariant holds of a created execution.                             *)
LEMMA InitIInv == Init => IInv
<1> SUFFICES ASSUME Init PROVE IInv
  OBVIOUS
<1>1. RowsOK(db) /\ draft = db /\ db.status # W
  <2>1. PICK pre \in Precompleted, status \in {"queued"} \cup (Calls \cap {"overage"}),
             resumed \in BOOLEAN :
          db = [status  |-> IF status = "queued" THEN status ELSE "paused_quota_exceeded",
                version |-> FirstVersion,
                journal |-> IF resumed THEN <<Created(pre), Event("resumed", NoStep)>>
                            ELSE <<Created(pre)>>,
                waits   |-> [g \in Gates |-> "none"],
                leases  |-> [x \in Steps |-> <<>>],
                ckpts   |-> {},
                pins    |-> {}]
    BY Zenon DEF Init
  <2>2. draft = db
    BY DEF Init
  <2>3. db.status \in Statuses /\ db.status # W
    BY <2>1 DEF Statuses, W
  <2>4. db.version \in Versions
    BY <2>1, ConstantsAssumption
  <2>5. db.waits \in [Gates -> Decisions]
    BY <2>1 DEF Decisions
  <2>6. db.leases \in [Steps -> Seq({"live", "lapsed", "released"})]
    <3>1. <<>> \in Seq({"live", "lapsed", "released"})
      BY SMT
    <3> QED
      BY <2>1, <3>1
  <2>7. DOMAIN db = {"status", "version", "journal", "waits", "leases", "ckpts", "pins"}
    BY <2>1
  <2> QED
    BY <2>2, <2>3, <2>4, <2>5, <2>6, <2>7 DEF RowsOK
<1>2. CoreOK
  BY <1>1, IdleOK DEF Init, CoreOK
<1>3. \A s \in Sessions : sess[s] = Idle
  BY DEF Init
<1>4. GateInv
  BY <1>1, <1>3, IdleOK DEF GateInv
<1>5. HotChangeOK
  <2>1. Idle.op # "hot_change"
    BY DEF Idle
  <2> QED
    BY <1>3, <2>1 DEF HotChangeOK
<1>6. CountersOK
  BY DEF Init, CountersOK
<1>7. spoiled \in BOOLEAN
  BY DEF Init
<1> QED  BY <1>2, <1>4, <1>5, <1>6, <1>7 DEF IInv

(* Every step keeps it.                                                    *)
LEMMA NextIInv == IInv /\ [Next]_vars => IInv'
<1> SUFFICES ASSUME IInv, [Next]_vars PROVE IInv'
  OBVIOUS
<1>1. CASE Next
  <2>1. ASSUME NEW s \in Sessions, Tick(s) PROVE StepOK
    BY <2>1, OtherLoads, TickPlans, TickLoops, TickEnds DEF Tick
  <2>2. ASSUME NEW s \in Sessions, Handler(s) PROVE StepOK
    BY <2>2, OtherLoads, OtherWrites, DecisionLoads, ApproveStep, RejectStep, ScanLists,
       ScanFetches, ScanWrites, RollbackWrites DEF Handler
  <2>3. ASSUME NEW s \in Sessions, Commit(s) \/ Abort(s) \/ SequenceTaken(s) PROVE StepOK
    BY <2>3, CommitStep, RollbackStep DEF Abort, SequenceTaken
  <2>4. StepOK
    BY <1>1, <2>1, <2>2, <2>3, EnvironmentSteps DEF Next
  <2> QED  BY <1>1, <2>4, CountersStep, SpoiledStep DEF StepOK, IInv
<1>2. CASE UNCHANGED vars
  BY <1>2 DEF vars, IInv, CoreOK, CountersOK, HotChangeOK, GateInv, Informed
<1> QED  BY <1>1, <1>2

(* The invariant implies what the theorems state.                          *)
LEMMA IInvImplies == IInv => TypeOK /\ WaitingIsUndecidedOrRejected
BY DEF IInv, CoreOK, CountersOK, GateInv, TypeOK, WaitingIsUndecidedOrRejected, W, Open

(* The rows, sessions, leases and counters are of their types in every     *)
(* reachable state, and only a session that holds the lock has rows that   *)
(* differ from the committed ones.                                         *)
THEOREM TypeCorrect == Spec => []TypeOK
BY InitIInv, NextIInv, IInvImplies, PTL DEF Spec

(* Whatever ticks, decisions, timeouts, rollbacks, cancellations and       *)
(* aborts interleave, an execution whose status is waiting_for_approval    *)
(* has a wait that is undecided or was rejected: no approval and no        *)
(* timeout leaves it behind in a status that tick does not list.           *)
THEOREM WaitingIsOpen == Spec => []WaitingIsUndecidedOrRejected
BY InitIInv, NextIInv, IInvImplies, PTL DEF Spec
=============================================================================
