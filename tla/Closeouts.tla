----------------------------- MODULE Closeouts -----------------------------
(***************************************************************************)
(* Incident closeouts and their runbook steps (api/v1/platform/p24), which *)
(* materialize tasks into the queue of OperatorTasks while a follow-up or  *)
(* a step is owed and resolve them afterwards.  One action is one request. *)
(* That is an abstraction: handlers neither await nor lock, but the routes *)
(* are plain functions that a thread pool runs, so two requests may meet   *)
(* inside a handler, which is not modelled.  Callers leave new ids to the  *)
(* service.                                                                *)
(* A replayed event changes a timestamp and writes an audit row: a stutter.*)
(***************************************************************************)
EXTENDS OperatorTasks

CONSTANTS
  MaxCloseouts,    \* bounds
  MaxSteps,
  StepKinds,       \* a subset of observation, action_pointer, approval_pointer
  Probes,          \* what events report of a source: [source, warning]
  CloseoutLevels,  \* severities of detected incidents
  Judgments,       \* what operators ask of a task: a subset of TaskStates
  QueueEvents      \* events of other types that reach the queue

\* The bounds are numbers; the two types of a closeout reach the queue from here alone.
ASSUME CloseoutsAssumption ==
  /\ MaxTasks \in Nat /\ MaxCloseouts \in Nat /\ MaxSteps \in Nat
  /\ StepKinds \subseteq {"observation", "action_pointer", "approval_pointer"}
  /\ Probes \subseteq [source : Sources, warning : BOOLEAN]
  /\ CloseoutLevels \subseteq Severities
  /\ Judgments \subseteq TaskStates
  /\ QueueEvents \subseteq {e \in Tasks : e.type \notin CloseoutTypes /\ e.state = "open"}

VARIABLES closeouts, steps

closeoutVars == <<tasks, closeouts, steps>>

NoTask == 0
Flags == {"observed_true", "observed_false", "observed_unknown"}

AllowedCloseoutTransitions ==
  [detected          |-> {"triaged", "withdrawn", "expired"},
   triaged           |-> {"flagged_active", "in_remediation", "closed", "withdrawn", "expired"},
   flagged_active    |-> {"in_remediation", "awaiting_closeout", "withdrawn", "expired"},
   in_remediation    |-> {"flagged_active", "awaiting_closeout", "withdrawn", "expired"},
   awaiting_closeout |-> {"closed", "in_remediation", "expired"},
   closed            |-> {},
   withdrawn         |-> {},
   expired           |-> {}]

CloseoutStates == DOMAIN AllowedCloseoutTransitions
TerminalCloseoutStates == {"closed", "withdrawn", "expired"}

AllowedStepTransitions ==
  [owed           |-> {"in_progress", "done", "not_applicable", "blocked"},
   in_progress    |-> {"done", "not_applicable", "blocked"},
   blocked        |-> {"owed", "not_applicable"},
   done           |-> {},
   not_applicable |-> {}]

StepStates == DOMAIN AllowedStepTransitions
TerminalStepStates == {"done", "not_applicable"}

CloseoutsTypeOK ==
  /\ tasks \in Seq(Tasks) /\ Len(tasks) <= MaxTasks
  /\ closeouts \in Seq([incident : Correlations, state : CloseoutStates, flag : Flags,
                        flagEverSet : BOOLEAN, severity : Severities, source : Sources,
                        warning : BOOLEAN, followup : 0 .. MaxTasks, owed : BOOLEAN])
  /\ steps \in Seq([closeout : DOMAIN closeouts, kind : StepKinds, state : StepStates,
                    source : Sources, resolved : BOOLEAN, warning : BOOLEAN,
                    task : 1 .. MaxTasks])
  /\ \A s \in DOMAIN steps : steps[s].task \in DOMAIN tasks
  /\ \A c \in DOMAIN closeouts :
       closeouts[c].followup # NoTask => closeouts[c].followup \in DOMAIN tasks

CloseoutsInit == tasks = <<>> /\ closeouts = <<>> /\ steps = <<>>

-----------------------------------------------------------------------------
ActiveSteps(c) ==
  {s \in DOMAIN steps : steps[s].closeout = c /\ steps[s].state \notin TerminalStepStates}

Correlation(c) == closeouts[c].incident

\* The events of _materialize_followup_task and _materialize_step_task.
FollowupEvent(c, closeout) ==
  [type |-> "incident_followup_required", about |-> c, correlation |-> closeout.incident,
   source |-> closeout.source, gate |-> FALSE, severity |-> closeout.severity,
   state |-> "open"]

StepSeverity(step) ==
  IF step.kind = "action_pointer" /\ (step.source = "unknown" \/ step.warning) THEN High
  ELSE closeouts[step.closeout].severity

StepEvent(s, step) ==
  [type |-> "runbook_step_required", about |-> s, correlation |-> Correlation(step.closeout),
   source |-> step.source, gate |-> FALSE, severity |-> StepSeverity(step),
   state |-> "open"]

-----------------------------------------------------------------------------
\* Closeouts

\* The denials of _transition_closeout, for the closeout with what the event observed.
Permitted(c, closeout, target) ==
  /\ target \in AllowedCloseoutTransitions[closeout.state]
  /\ target = "flagged_active" => closeout.flag = "observed_true"
  /\ target \in {"awaiting_closeout", "closed"} => ActiveSteps(c) = {}
  /\ target = "closed" =>
       /\ closeout.flagEverSet => closeout.flag = "observed_false"
       /\ closeout.owed => closeout.followup \notin ActiveTasks(tasks)
       /\ closeout.source # "unknown"
       /\ ~closeout.warning

\* _materialize_followup_task
OweFollowup(c, closeout) ==
  LET event == FollowupEvent(c, closeout) IN
    /\ RoomFor(tasks, event)
    /\ tasks' = Upserted(tasks, event)
    /\ closeouts' = [closeouts EXCEPT ![c] =
         [closeout EXCEPT !.followup = TaskOf(tasks, event), !.owed = TRUE]]

\* A mutant of ResolveFollowup: the mirror is cleared and the task is not.
ForgetFollowup(c, closeout) ==
  /\ tasks' = tasks
  /\ closeouts' = [closeouts EXCEPT ![c] = [closeout EXCEPT !.owed = FALSE]]

\* _resolve_followup_task
ResolveFollowup(c, closeout) ==
  /\ tasks' = TaskMoved(tasks, closeout.followup, "completed")
  /\ closeouts' = [closeouts EXCEPT ![c] = [closeout EXCEPT !.owed = FALSE]]

\* What _transition_closeout does when it accepts.
Advance(c, closeout, target) ==
  LET moved == [closeout EXCEPT !.state = target] IN
    \/ target = "flagged_active" /\ ~moved.owed /\ OweFollowup(c, moved)
    \/ /\ target \in TerminalCloseoutStates \cup {"awaiting_closeout"} /\ moved.owed
       /\ ResolveFollowup(c, moved)
    \/ /\ target = "flagged_active" => moved.owed
       /\ target \in TerminalCloseoutStates \cup {"awaiting_closeout"} => ~moved.owed
       /\ closeouts' = [closeouts EXCEPT ![c] = moved]
       /\ UNCHANGED tasks

\* incident_detected: a new closeout, unless an active one stands for the incident.
Detect(i, severity, flag, source, warning) ==
  /\ Len(closeouts) < MaxCloseouts
  /\ \A c \in DOMAIN closeouts :
       closeouts[c].incident = i => closeouts[c].state \in TerminalCloseoutStates
  /\ closeouts' = Append(closeouts,
       [incident |-> i, state |-> "detected", flag |-> flag,
        flagEverSet |-> flag = "observed_true",
        severity |-> IF source = "unknown" \/ warning THEN High ELSE severity,
        source |-> source, warning |-> warning, followup |-> NoTask, owed |-> FALSE])
  /\ UNCHANGED <<tasks, steps>>

\* incident_classified, closeout_transition and the transition route.
Transition(c, target) ==
  /\ Permitted(c, closeouts[c], target)
  /\ Advance(c, closeouts[c], target)
  /\ UNCHANGED steps

(***************************************************************************)
(* incident_flag_observed: the mirror is written whatever the state of the *)
(* closeout, and kept when the transition it asks for is denied.           *)
(***************************************************************************)
ObserveFlag(c, flag) ==
  LET seen == [closeouts[c] EXCEPT !.flag = flag,
                                   !.flagEverSet = @ \/ flag = "observed_true"]
      targets == {target \in {"flagged_active", "awaiting_closeout"} :
                    \/ /\ flag = "observed_true" /\ target = "flagged_active"
                       /\ seen.state \in {"triaged", "in_remediation"}
                    \/ /\ flag = "observed_false" /\ target = "awaiting_closeout"
                       /\ seen.state = "flagged_active"}
      accepted == {target \in targets : Permitted(c, seen, target)}
  IN /\ \/ \E target \in accepted : Advance(c, seen, target)
        \/ /\ accepted = {}
           /\ closeouts' = [closeouts EXCEPT ![c] = seen]
           /\ UNCHANGED tasks
     /\ UNCHANGED steps

-----------------------------------------------------------------------------
\* Runbook steps

\* runbook_step_owed: the state of the closeout is not asked, a closed one takes steps too.
OweStep(c, kind, source, warning) ==
  LET s == Len(steps) + 1
      step == [closeout |-> c, kind |-> kind, state |-> "owed", source |-> source,
               resolved |-> FALSE, warning |-> warning, task |-> NoTask]
      event == StepEvent(s, step)
  IN /\ s <= MaxSteps
     /\ RoomFor(tasks, event)
     /\ tasks' = Upserted(tasks, event)
     /\ steps' = Append(steps, [step EXCEPT !.task = TaskOf(tasks, event)])
     /\ closeouts' =
          IF closeouts[c].state \in {"triaged", "flagged_active"}
          THEN [closeouts EXCEPT ![c].state = "in_remediation"] ELSE closeouts

\* The denials of _transition_step.
StepPermitted(step, target, evidence) ==
  /\ target \in AllowedStepTransitions[step.state]
  /\ target = "done" =>
       IF step.kind = "observation" THEN evidence ELSE step.resolved

\* A mutant of MoveStep: the task of a finished step is left in the queue.
MoveStepOnly(s, step, target) ==
  LET moved == [step EXCEPT !.state = target] IN
    \/ /\ target \notin TerminalStepStates
       /\ RoomFor(tasks, StepEvent(s, moved))
       /\ tasks' = Upserted(tasks, StepEvent(s, moved))
       /\ steps' = [steps EXCEPT ![s] =
            [moved EXCEPT !.task = TaskOf(tasks, StepEvent(s, moved))]]
    \/ /\ target \in TerminalStepStates
       /\ steps' = [steps EXCEPT ![s] = moved]
       /\ UNCHANGED tasks

(***************************************************************************)
(* What _transition_step does when it accepts.  The source a step reports  *)
(* is part of the task's key: after it has changed, the step gets another  *)
(* task, and the one it had is no longer linked.                           *)
(***************************************************************************)
MoveStep(s, step, target) ==
  LET moved == [step EXCEPT !.state = target]
      event == StepEvent(s, moved)
  IN \/ /\ target \notin TerminalStepStates
        /\ RoomFor(tasks, event)
        /\ tasks' = Upserted(tasks, event)
        /\ steps' = [steps EXCEPT ![s] = [moved EXCEPT !.task = TaskOf(tasks, event)]]
     \/ /\ target \in TerminalStepStates
        /\ steps' = [steps EXCEPT ![s] = moved]
        /\ tasks' = TaskMoved(tasks, step.task,
                              IF target = "done" THEN "completed" ELSE "dismissed")

\* The step transition route.
TransitionStep(s, target, evidence) ==
  /\ StepPermitted(steps[s], target, evidence)
  /\ MoveStep(s, steps[s], target)
  /\ UNCHANGED closeouts

\* runbook_step_progress and _terminal: what the event observed is kept when it is denied.
ReportStep(s, target, evidence, source, resolved, warning) ==
  LET seen == [steps[s] EXCEPT !.source = source, !.resolved = resolved, !.warning = warning]
  IN /\ \/ StepPermitted(seen, target, evidence) /\ MoveStep(s, seen, target)
        \/ /\ ~StepPermitted(seen, target, evidence)
           /\ steps' = [steps EXCEPT ![s] = seen]
           /\ UNCHANGED tasks
     /\ UNCHANGED closeouts

-----------------------------------------------------------------------------
CloseoutsNext ==
  \/ \E i \in Correlations, severity \in CloseoutLevels, flag \in Flags,
        probe \in Probes :
       Detect(i, severity, flag, probe.source, probe.warning)
  \/ \E c \in DOMAIN closeouts :
       \/ \E target \in CloseoutStates : Transition(c, target)
       \/ \E flag \in Flags : ObserveFlag(c, flag)
       \/ \E kind \in StepKinds, probe \in Probes :
            OweStep(c, kind, probe.source, probe.warning)
  \/ \E s \in DOMAIN steps, evidence \in BOOLEAN :
       \/ \E target \in StepStates : TransitionStep(s, target, evidence)
       \/ \E target \in {"in_progress", "done"}, probe \in Probes, resolved \in BOOLEAN :
            ReportStep(s, target, evidence, probe.source, resolved, probe.warning)
  \/ /\ \/ \E event \in QueueEvents : Intake(event)
        \/ \E t \in DOMAIN tasks, target \in Judgments : Judge(t, target)
     /\ UNCHANGED <<closeouts, steps>>

CloseoutsSpec == CloseoutsInit /\ [][CloseoutsNext]_closeoutVars

-----------------------------------------------------------------------------
\* The tasks in the queue that stand for a closeout's follow-up or for one of its steps.
TasksOf(c) ==
  {t \in ActiveTasks(tasks) :
     \/ tasks[t].type = "incident_followup_required" /\ tasks[t].about = c
     \/ /\ tasks[t].type = "runbook_step_required"
        /\ steps[tasks[t].about].closeout = c}

\* A task whose step has been linked to another one.
Orphans ==
  {t \in ActiveTasks(tasks) :
     /\ tasks[t].type = "runbook_step_required"
     /\ steps[tasks[t].about].task # t}

(***************************************************************************)
(* The queue and the closeouts tell one story: an active follow-up task is *)
(* the one its closeout owes, and only while the incident is worked on; an *)
(* active step task belongs to an active step, except for orphans, whose   *)
(* source is not the one of the task that replaced them                    *)
(* (p24/services.py _resolve_followup_task and _resolve_step_task).        *)
(***************************************************************************)
TasksFollowTheirRecords ==
  \A t \in ActiveTasks(tasks) :
    LET about == tasks[t].about IN
      /\ tasks[t].type = "incident_followup_required" =>
           /\ closeouts[about].owed /\ closeouts[about].followup = t
           /\ closeouts[about].state \in {"flagged_active", "in_remediation"}
      /\ tasks[t].type = "runbook_step_required" =>
           IF t \in Orphans THEN tasks[t].source # tasks[steps[about].task].source
           ELSE steps[about].state \notin TerminalStepStates

(***************************************************************************)
(* When a closeout closes, the only tasks it leaves in the queue are       *)
(* orphans of its steps, however flag, steps, follow-up and the operators' *)
(* own judgments on the tasks were interleaved before                      *)
(* (p24/services.py _transition_closeout and its close gate).              *)
(***************************************************************************)
ClosingLeavesOnlyOrphans ==
  [][\A c \in DOMAIN closeouts :
       closeouts[c].state # "closed" /\ closeouts'[c].state = "closed"
         => TasksOf(c)' \subseteq Orphans']_closeoutVars
=============================================================================
