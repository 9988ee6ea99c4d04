------------------------------ MODULE Projector ------------------------------
(***************************************************************************)
(* ExecutionProjector (execution/projector.py): the state of a workflow    *)
(* execution is the fold of its journal.  The three step lists of          *)
(* ExecutionStateResponse are kept as sets (every update removes           *)
(* duplicates and nothing reads their order); the status the projector     *)
(* computes is left out, because both callers of project_state overwrite   *)
(* it with the status column of the executions row.                        *)
(***************************************************************************)
EXTENDS Naturals, Sequences

(***************************************************************************)
(* The step_id of an event that is about the execution as a whole (None).  *)
(***************************************************************************)
NoStep == "no_step"

EmptyView == [completed |-> {}, active |-> {}, pending |-> {}]

(***************************************************************************)
(* A journal row: its type, its step and, for the two events whose payload *)
(* carries step lists (created, rolled_back), those lists.                 *)
(***************************************************************************)
Event(type, step) == [type |-> type, step |-> step, view |-> EmptyView]
EventWith(type, view) == [type |-> type, step |-> NoStep, view |-> view]

-----------------------------------------------------------------------------
MoveToActive(v, step) ==
  IF step = NoStep THEN v
  ELSE [v EXCEPT !.active = @ \cup {step}, !.pending = @ \ {step}]

RemoveActive(v, step) == [v EXCEPT !.active = @ \ {step}]

MarkCompleted(v, step) ==
  IF step = NoStep THEN v
  ELSE [completed |-> v.completed \cup {step},
        active    |-> v.active \ {step},
        pending   |-> v.pending \ {step}]

MovesToActive == {"dispatched", "runtime_started", "sandbox_requested",
                  "retried", "waiting_for_approval"}
MarksCompleted == {"approved", "completed"}
RemovesActive == {"rejected", "approval_timed_out", "failed", "canceled"}

(***************************************************************************)
(* The _apply_<event type> methods.  Event types that leave the three      *)
(* lists alone (queued, resumed, reprioritized, compensated, hot_changed,  *)
(* ...) fall under OTHER.                                                  *)
(***************************************************************************)
Apply(v, e) ==
  CASE e.type = "created" ->
         [completed |-> e.view.completed, active |-> {},
          pending |-> e.view.pending \ e.view.completed]
    [] e.type = "rolled_back"      -> e.view
    [] e.type \in MovesToActive    -> MoveToActive(v, e.step)
    [] e.type \in MarksCompleted   -> MarkCompleted(v, e.step)
    [] e.type \in RemovesActive    -> RemoveActive(v, e.step)
    [] OTHER                       -> v

(***************************************************************************)
(* project_state(events, checkpoint), with events the rows whose sequence  *)
(* number is greater than the checkpoint's last_event_sequence.  The row   *)
(* with sequence number n is journal[n]: append_event numbers rows by      *)
(* counting them.                                                          *)
(***************************************************************************)
ProjectState(journal, checkpoint) ==
  LET view[n \in 0..Len(journal)] ==
        IF n <= checkpoint.last THEN checkpoint.view ELSE Apply(view[n - 1], journal[n])
  IN  [view |-> view[Len(journal)],
       last |-> IF Len(journal) > checkpoint.last THEN Len(journal) ELSE checkpoint.last]

(***************************************************************************)
(* Projecting without a checkpoint: replay_execution.                      *)
(***************************************************************************)
NoCheckpoint == [num |-> 0, view |-> EmptyView, last |-> 0, superseded |-> FALSE]
Replay(journal) == ProjectState(journal, NoCheckpoint)
=============================================================================
