--------------------------- MODULE OperatorTasks ---------------------------
(***************************************************************************)
(* The queue of operator tasks of the platform console                     *)
(* (api/v1/platform/p23): an in-memory view that collapses repeated source *)
(* events into one active task and ranks the tasks of one correlation.     *)
(* Tasks are numbered in the order of their creation.  Summaries, owners,  *)
(* notification records and the audit log are left out.                    *)
(***************************************************************************)
EXTENDS Naturals, Sequences, FiniteSets

CONSTANTS
  Correlations,   \* correlation id and tenant, which are always compared together
  MaxTasks        \* bound: tasks that are ever materialized

VARIABLE tasks

Severities == 0 .. 2
Low == 0
Medium == 1
High == 2

Sources == {"known", "unknown", "degraded"}

(***************************************************************************)
(* Types of the queue's own events, and the two that belong to closeouts.  *)
(***************************************************************************)
ForceHighTypes == {"source_unknown", "backup_check_warning", "execution_failed"}
OtherTypes == {"action_request_created", "approval_pending", "approval_decision_required",
               "execution_ready", "execution_completed"}
CloseoutTypes == {"incident_followup_required", "runbook_step_required"}
TaskTypes == ForceHighTypes \cup OtherTypes \cup CloseoutTypes

TerminalTaskStates == {"completed", "dismissed"}

\* The states that some caller asks for; waiting, expired and failed are never a target.
AllowedTaskTransitions ==
  [open         |-> {"acknowledged", "in_progress", "completed", "dismissed"},
   acknowledged |-> {"in_progress", "completed", "dismissed"},
   in_progress  |-> {"completed", "dismissed"},
   completed    |-> {},
   dismissed    |-> {}]

TaskStates == DOMAIN AllowedTaskTransitions

\* about: the closeout, the step or another linked object of a tenant, with its dedup variant.
Tasks == [type : TaskTypes, about : Nat, correlation : Correlations, source : Sources,
          gate : BOOLEAN, severity : Severities, state : TaskStates]

-----------------------------------------------------------------------------
ActiveTasks(ts) == {t \in DOMAIN ts : ts[t].state \notin TerminalTaskStates}

Peers(ts, correlation) == {t \in ActiveTasks(ts) : ts[t].correlation = correlation}

\* _dedup_key_digest
DedupKey(event) == <<event.type, event.about, event.source>>

\* _ACTIVE_DEDUP: a task enters it when it is created and leaves it with its last transition.
SameFollowUp(ts, event) == {t \in ActiveTasks(ts) : DedupKey(ts[t]) = DedupKey(event)}

AtLeast(level, severity) == IF severity < level THEN level ELSE severity

\* What the peers of a correlation force on each of them.
Floor(ts, peers) ==
  IF \E t \in peers : ts[t].type \in ForceHighTypes THEN High
  ELSE IF \E t \in peers : ts[t].severity = High THEN Medium
  ELSE Low

\* _severity_for
SeverityFor(ts, event) ==
  AtLeast(IF event.type \in ForceHighTypes THEN High
          ELSE Floor(ts, Peers(ts, event.correlation)),
          event.severity)

\* _rerank_correlation
Reranked(ts, correlation) ==
  LET peers == Peers(ts, correlation)
  IN  [t \in DOMAIN ts |->
         IF t \in peers THEN [ts[t] EXCEPT !.severity = AtLeast(Floor(ts, peers), @)]
         ELSE ts[t]]

\* The task that upsert_task_from_event returns for an event.
TaskOf(ts, event) ==
  IF SameFollowUp(ts, event) = {} THEN Len(ts) + 1
  ELSE CHOOSE t \in SameFollowUp(ts, event) : TRUE

\* What the queue holds of an event before it is ranked: a replay changes two fields.
Unranked(ts, event) ==
  LET t == TaskOf(ts, event)
  IN  IF t \in DOMAIN ts
      THEN [ts[t] EXCEPT !.severity = event.severity, !.gate = event.gate]
      ELSE event

Stored(ts, t, task) == IF t \in DOMAIN ts THEN [ts EXCEPT ![t] = task] ELSE Append(ts, task)

\* A mutant of Upserted: neither the task nor its peers are ranked.
UpsertedAsGiven(ts, event) ==
  Stored(ts, TaskOf(ts, event), Unranked(ts, event))

\* A mutant of Upserted: a new task is ranked and linked, and never stored.
UpsertedUnstored(ts, event) ==
  IF TaskOf(ts, event) \in DOMAIN ts THEN Reranked(ts, event.correlation) ELSE ts

(***************************************************************************)
(* upsert_task_from_event.  A replay recomputes the severity of the task   *)
(* from the new event, so it may fall; the peers are lifted either way.    *)
(***************************************************************************)
Upserted(ts, event) ==
  LET task == Unranked(ts, event)
      ranked == [task EXCEPT !.severity = SeverityFor(ts, task)]
  IN  Reranked(Stored(ts, TaskOf(ts, event), ranked), task.correlation)

RoomFor(ts, event) == TaskOf(ts, event) <= MaxTasks

\* _apply_transition, with evidence for a completion.
CanMove(ts, t, target) ==
  /\ target \in AllowedTaskTransitions[ts[t].state]
  /\ target = "completed" => ~ts[t].gate

TaskMoved(ts, t, target) ==
  IF CanMove(ts, t, target) THEN [ts EXCEPT ![t].state = target] ELSE ts

-----------------------------------------------------------------------------
(***************************************************************************)
(* The routes: an event from the execution layer, from the approvals or    *)
(* from the backup probe, and an operator's judgment on a task.            *)
(***************************************************************************)
Intake(event) ==
  /\ RoomFor(tasks, event)
  /\ tasks' = Upserted(tasks, event)

Judge(t, target) ==
  /\ CanMove(tasks, t, target)
  /\ tasks' = TaskMoved(tasks, t, target)

(***************************************************************************)
(* The peers of a correlation are raised together, whichever came first    *)
(* and however often an event is repeated: no active task is low beside a  *)
(* high one, and all are high beside one that forces it                    *)
(* (p23/services.py _severity_for and _rerank_correlation).                *)
(***************************************************************************)
PeersAreRaised ==
  \A t \in ActiveTasks(tasks), u \in ActiveTasks(tasks) :
    tasks[t].correlation = tasks[u].correlation
      => /\ tasks[t].severity = High => tasks[u].severity # Low
         /\ tasks[t].type \in ForceHighTypes => tasks[u].severity = High
=============================================================================
