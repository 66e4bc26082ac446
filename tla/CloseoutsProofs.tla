-------------------------- MODULE CloseoutsProofs --------------------------
(***************************************************************************)
(* The guarantees of the closeouts and of the operators' queue, for any    *)
(* number of incidents, steps and tasks.  The argument is about the keys:  *)
(* two active tasks never have the same one, so the task that a step or a  *)
(* follow-up was last given is the only active one of its source.          *)
(***************************************************************************)
EXTENDS Closeouts, SequenceTheorems, TLAPS

Followup == "incident_followup_required"
RunbookStep == "runbook_step_required"

CloseoutRecords ==
  [incident : Correlations, state : CloseoutStates, flag : Flags, flagEverSet : BOOLEAN,
   severity : Severities, source : Sources, warning : BOOLEAN, followup : 0 .. MaxTasks,
   owed : BOOLEAN]

StepRecords(cs) ==
  [closeout : cs, kind : StepKinds, state : StepStates, source : Sources,
   resolved : BOOLEAN, warning : BOOLEAN, task : 1 .. MaxTasks]

DataOK ==
  /\ tasks \in Seq(Tasks) /\ Len(tasks) <= MaxTasks
  /\ closeouts \in Seq(CloseoutRecords)
  /\ steps \in Seq(StepRecords(DOMAIN closeouts))
  /\ \A s \in DOMAIN steps : steps[s].task \in DOMAIN tasks
  /\ \A c \in DOMAIN closeouts :
       /\ closeouts[c].followup # NoTask => closeouts[c].followup \in DOMAIN tasks
       /\ closeouts[c].owed => closeouts[c].followup # NoTask

\* A task of a closeout names a record that exists, and no gate holds its completion up.
TasksAreShaped ==
  \A t \in DOMAIN tasks :
    /\ tasks[t].type = Followup => tasks[t].about \in DOMAIN closeouts /\ ~tasks[t].gate
    /\ tasks[t].type = RunbookStep => tasks[t].about \in DOMAIN steps /\ ~tasks[t].gate

\* _ACTIVE_DEDUP holds one task of a key.
KeysDiffer ==
  \A t \in ActiveTasks(tasks), u \in ActiveTasks(tasks) :
    DedupKey(tasks[t]) = DedupKey(tasks[u]) => t = u

FollowupsFit ==
  \A t \in ActiveTasks(tasks) :
    tasks[t].type = Followup =>
      /\ closeouts[tasks[t].about].owed /\ closeouts[tasks[t].about].followup = t
      /\ closeouts[tasks[t].about].state \in {"flagged_active", "in_remediation"}

StepsFit ==
  \A t \in ActiveTasks(tasks) :
    tasks[t].type = RunbookStep =>
      /\ steps[tasks[t].about].task = t =>
           steps[tasks[t].about].state \notin TerminalStepStates
      /\ steps[tasks[t].about].task # t =>
           tasks[t].source # tasks[steps[tasks[t].about].task].source

CloseoutsInv ==
  /\ DataOK
  /\ TasksAreShaped
  /\ KeysDiffer
  /\ FollowupsFit
  /\ StepsFit
  /\ PeersAreRaised

-----------------------------------------------------------------------------
\* The queue

\* What nothing but a replay or a judgment changes of a task.
SameBut(a, b) ==
  /\ a.type = b.type /\ a.about = b.about /\ a.correlation = b.correlation
  /\ a.source = b.source /\ a.gate = b.gate /\ a.state = b.state

Raised(ts) ==
  \A t \in ActiveTasks(ts), u \in ActiveTasks(ts) :
    ts[t].correlation = ts[u].correlation
      => /\ ts[t].severity = High => ts[u].severity # Low
         /\ ts[t].type \in ForceHighTypes => ts[u].severity = High

LEMMA FloorIsASeverity ==
  ASSUME NEW ts, NEW peers PROVE Floor(ts, peers) \in Severities
BY DEF Floor, Severities, High, Medium, Low

LEMMA AtLeastIsASeverity ==
  ASSUME NEW a \in Severities, NEW b \in Severities
  PROVE  AtLeast(a, b) \in Severities
BY DEF AtLeast, Severities

\* Ranking a correlation changes severities alone.
LEMMA RankingKeeps ==
  ASSUME NEW ts \in Seq(Tasks), NEW i
  PROVE  /\ Reranked(ts, i) \in Seq(Tasks)
         /\ Len(Reranked(ts, i)) = Len(ts)
         /\ DOMAIN Reranked(ts, i) = DOMAIN ts
         /\ \A t \in DOMAIN ts : SameBut(Reranked(ts, i)[t], ts[t])
         /\ \A t \in DOMAIN ts \ Peers(ts, i) : Reranked(ts, i)[t] = ts[t]
         /\ \A t \in Peers(ts, i) :
              Reranked(ts, i)[t].severity = AtLeast(Floor(ts, Peers(ts, i)), ts[t].severity)
<1> DEFINE new == Reranked(ts, i)
           level == Floor(ts, Peers(ts, i))
<1>1. level \in Severities
  BY FloorIsASeverity
<1>2. /\ DOMAIN new = DOMAIN ts
      /\ \A t \in DOMAIN ts :
           new[t] = IF t \in Peers(ts, i)
                    THEN [ts[t] EXCEPT !.severity = AtLeast(level, @)] ELSE ts[t]
  BY DEF Reranked
<1>3. \A t \in DOMAIN ts : ts[t] \in Tasks
  BY ElementOfSeq
<1>4. Peers(ts, i) \subseteq DOMAIN ts
  BY DEF Peers, ActiveTasks
<1> HIDE DEF level, new
<1>5. ASSUME NEW t \in DOMAIN ts
      PROVE  /\ new[t] \in Tasks /\ SameBut(new[t], ts[t])
             /\ t \notin Peers(ts, i) => new[t] = ts[t]
             /\ t \in Peers(ts, i) => new[t].severity = AtLeast(level, ts[t].severity)
  <2>1. CASE t \in Peers(ts, i)
    <3>1. new[t] = [ts[t] EXCEPT !.severity = AtLeast(level, ts[t].severity)]
      BY <1>2, <2>1
    <3>2. ts[t] \in Tasks /\ ts[t].severity \in Severities
      BY <1>3 DEF Tasks
    <3>3. AtLeast(level, ts[t].severity) \in Severities
      BY <1>1, <3>2, AtLeastIsASeverity
    <3> QED
      BY <2>1, <3>1, <3>2, <3>3 DEF Tasks, SameBut
  <2>2. CASE t \notin Peers(ts, i)
    BY <1>2, <1>3, <2>2 DEF SameBut
  <2> QED
    BY <2>1, <2>2
<1>6. DOMAIN ts = 1 .. Len(ts) /\ Len(ts) \in Nat
  BY LenProperties
<1>7. new \in [1 .. Len(ts) -> Tasks]
  <2>1. new = [t \in DOMAIN ts |-> new[t]]
    BY <1>2 DEF new, Reranked
  <2> QED
    BY <2>1, <1>5, <1>6
<1>8. new \in Seq(Tasks) /\ Len(new) = Len(ts)
  BY <1>6, <1>7, SeqDef, LenProperties
<1> QED
  BY <1>2, <1>4, <1>5, <1>8 DEF new, level

\* A ranked correlation is raised; the others stay as they were.
LEMMA RankingRaises ==
  ASSUME NEW ts \in Seq(Tasks), NEW i,
         \A t \in ActiveTasks(ts), u \in ActiveTasks(ts) :
           ts[t].correlation = ts[u].correlation /\ ts[t].correlation # i
             => /\ ts[t].severity = High => ts[u].severity # Low
                /\ ts[t].type \in ForceHighTypes => ts[u].severity = High
  PROVE  Raised(Reranked(ts, i))
<1> DEFINE new == Reranked(ts, i)
           level == Floor(ts, Peers(ts, i))
<1>1. /\ DOMAIN new = DOMAIN ts
      /\ \A t \in DOMAIN ts : SameBut(new[t], ts[t])
      /\ \A t \in DOMAIN ts \ Peers(ts, i) : new[t] = ts[t]
      /\ \A t \in Peers(ts, i) : new[t].severity = AtLeast(level, ts[t].severity)
  BY RankingKeeps
<1>2. level \in Severities
  BY FloorIsASeverity
<1>3. \A t \in DOMAIN ts : ts[t] \in Tasks /\ ts[t].severity \in Severities
  <2>1. \A t \in DOMAIN ts : ts[t] \in Tasks
    BY ElementOfSeq
  <2> QED
    BY <2>1 DEF Tasks
<1>4. /\ (\E t \in Peers(ts, i) : ts[t].type \in ForceHighTypes) => level = High
      /\ (\E t \in Peers(ts, i) : ts[t].severity = High) => level \in {Medium, High}
      /\ level = High => \E t \in Peers(ts, i) : ts[t].type \in ForceHighTypes
  BY DEF Floor, High, Medium, Low
<1> HIDE DEF level, new
<1>5. ActiveTasks(new) = ActiveTasks(ts)
  BY <1>1 DEF ActiveTasks, SameBut
<1>6. ASSUME NEW t \in ActiveTasks(ts), NEW u \in ActiveTasks(ts),
             new[t].correlation = new[u].correlation
      PROVE  /\ new[t].severity = High => new[u].severity # Low
             /\ new[t].type \in ForceHighTypes => new[u].severity = High
  <2>1. /\ t \in DOMAIN ts /\ u \in DOMAIN ts
        /\ ts[t].correlation = ts[u].correlation
        /\ new[t].type = ts[t].type
    BY <1>1, <1>6 DEF ActiveTasks, SameBut
  <2>2. CASE ts[t].correlation # i
    <3>1. t \notin Peers(ts, i) /\ u \notin Peers(ts, i)
      BY <2>1, <2>2 DEF Peers
    <3> QED
      BY <1>1, <2>1, <2>2, <3>1
  <2>3. CASE ts[t].correlation = i
    <3>1. t \in Peers(ts, i) /\ u \in Peers(ts, i)
      BY <2>1, <2>3 DEF Peers
    <3>2. /\ new[t].severity = AtLeast(level, ts[t].severity)
          /\ new[u].severity = AtLeast(level, ts[u].severity)
          /\ ts[t].severity \in Severities /\ ts[u].severity \in Severities
      BY <1>1, <1>3, <2>1, <3>1
    <3>3. new[t].type \in ForceHighTypes => level = High
      BY <1>4, <2>1, <3>1
    <3>4. level \in {Medium, High} => new[u].severity # Low
      BY <3>2 DEF AtLeast, Severities, Low, Medium, High
    <3>5. level = High => new[u].severity = High
      BY <3>2 DEF AtLeast, Severities, Low, Medium, High
    <3>6. level = Low /\ new[t].severity = High => ts[t].severity = High
      BY <3>2 DEF AtLeast, Severities, Low, Medium, High
    <3>7. level \in {Low, Medium, High}
      BY <1>2 DEF Severities, Low, Medium, High
    <3> QED
      BY <1>4, <3>1, <3>3, <3>4, <3>5, <3>6, <3>7
  <2> QED
    BY <2>2, <2>3
<1>7. Raised(new)
  BY <1>5, <1>6 DEF Raised
<1> QED
  BY <1>7 DEF new

\* What an event leaves in the queue: task n stands for it, the others are ranked at most.
Files(ts, new, n, event) ==
  /\ new \in Seq(Tasks)
  /\ DOMAIN new = DOMAIN ts \cup {n}
  /\ n \in DOMAIN ts => Len(new) = Len(ts)
  /\ n \notin DOMAIN ts => Len(new) = n
  /\ \A t \in DOMAIN ts \ {n} : SameBut(new[t], ts[t])
  /\ new[n].type = event.type /\ new[n].about = event.about
  /\ new[n].source = event.source /\ new[n].gate = event.gate
  /\ ActiveTasks(new) = ActiveTasks(ts) \cup {n}
  /\ n \in DOMAIN ts => n \in ActiveTasks(ts)
  /\ n \notin DOMAIN ts => SameFollowUp(ts, event) = {}
  /\ n \in DOMAIN ts =>
       ts[n].type = event.type /\ ts[n].about = event.about /\ ts[n].source = event.source

LEMMA TaskOfAnEvent ==
  ASSUME NEW ts \in Seq(Tasks), NEW event, NEW n, n = TaskOf(ts, event)
  PROVE  /\ n \in Nat \ {0}
         /\ n \in DOMAIN ts =>
              /\ n \in ActiveTasks(ts)
              /\ ts[n].type = event.type /\ ts[n].about = event.about
              /\ ts[n].source = event.source
         /\ n \notin DOMAIN ts => n = Len(ts) + 1 /\ SameFollowUp(ts, event) = {}
<1>1. DOMAIN ts = 1 .. Len(ts) /\ Len(ts) \in Nat
  BY LenProperties
<1>2. CASE SameFollowUp(ts, event) = {}
  <2>1. n = Len(ts) + 1
    BY <1>2 DEF TaskOf
  <2> QED
    BY <1>1, <1>2, <2>1
<1>3. CASE SameFollowUp(ts, event) # {}
  <2>1. n \in SameFollowUp(ts, event)
    BY <1>3 DEF TaskOf
  <2>2. n \in ActiveTasks(ts) /\ DedupKey(ts[n]) = DedupKey(event)
    BY <2>1 DEF SameFollowUp
  <2>3. n \in DOMAIN ts
    BY <2>2 DEF ActiveTasks
  <2> QED
    BY <1>1, <2>2, <2>3 DEF DedupKey
<1> QED
  BY <1>2, <1>3

\* The task of an event before its correlation is ranked.
RankedTask(ts, event) ==
  [Unranked(ts, event) EXCEPT !.severity = SeverityFor(ts, Unranked(ts, event))]

LEMMA RankedTaskIs ==
  ASSUME NEW ts \in Seq(Tasks), NEW event \in Tasks, event.state = "open",
         NEW n, n = TaskOf(ts, event)
  PROVE  /\ RankedTask(ts, event) \in Tasks
         /\ RankedTask(ts, event).type = event.type
         /\ RankedTask(ts, event).about = event.about
         /\ RankedTask(ts, event).source = event.source
         /\ RankedTask(ts, event).gate = event.gate
         /\ RankedTask(ts, event).state \notin TerminalTaskStates
         /\ RankedTask(ts, event).correlation = Unranked(ts, event).correlation
         /\ n \in DOMAIN ts => RankedTask(ts, event).correlation = ts[n].correlation
<1> DEFINE task == Unranked(ts, event)
           level == SeverityFor(ts, task)
<1>1. /\ task \in Tasks
      /\ task.type = event.type /\ task.about = event.about
      /\ task.source = event.source /\ task.gate = event.gate
      /\ task.state \notin TerminalTaskStates
      /\ n \in DOMAIN ts => task.correlation = ts[n].correlation
  <2>1. CASE n \in DOMAIN ts
    <3>1. task = [ts[n] EXCEPT !.severity = event.severity, !.gate = event.gate]
      BY <2>1 DEF Unranked
    <3>2. ts[n] \in Tasks
      BY <2>1, ElementOfSeq
    <3>3. /\ n \in ActiveTasks(ts)
          /\ ts[n].type = event.type /\ ts[n].about = event.about
          /\ ts[n].source = event.source
      BY <2>1, TaskOfAnEvent
    <3>4. ts[n].state \notin TerminalTaskStates
      BY <3>3 DEF ActiveTasks
    <3> HIDE DEF task
    <3> QED
      BY <3>1, <3>2, <3>3, <3>4 DEF Tasks
  <2>2. CASE n \notin DOMAIN ts
    BY <2>2 DEF Unranked, TerminalTaskStates
  <2> QED
    BY <2>1, <2>2
<1>2. level \in Severities
  <2>1. task.severity \in Severities
    BY <1>1 DEF Tasks
  <2>2. High \in Severities /\ Floor(ts, Peers(ts, task.correlation)) \in Severities
    BY FloorIsASeverity DEF High, Severities
  <2> HIDE DEF task
  <2> QED
    BY <2>1, <2>2, AtLeastIsASeverity DEF SeverityFor
<1>3. RankedTask(ts, event) = [task EXCEPT !.severity = level]
  BY DEF RankedTask
<1> HIDE DEF task, level
<1>4. /\ RankedTask(ts, event).type = task.type /\ RankedTask(ts, event).about = task.about
      /\ RankedTask(ts, event).source = task.source /\ RankedTask(ts, event).gate = task.gate
      /\ RankedTask(ts, event).state = task.state
      /\ RankedTask(ts, event).correlation = task.correlation
      /\ RankedTask(ts, event) \in Tasks
  BY <1>1, <1>2, <1>3, SMTT(30) DEF Tasks
<1> QED
  BY <1>1, <1>4 DEF task

LEMMA StoredIsASeq ==
  ASSUME NEW ts \in Seq(Tasks), NEW n \in Nat, n \in DOMAIN ts \/ n = Len(ts) + 1,
         NEW task \in Tasks
  PROVE  Stored(ts, n, task) \in Seq(Tasks)
<1>1. DOMAIN ts = 1 .. Len(ts)
  BY LenProperties
<1>2. CASE n \in DOMAIN ts
  BY <1>1, <1>2, ExceptSeq DEF Stored
<1>3. CASE n \notin DOMAIN ts
  BY <1>3, AppendProperties DEF Stored
<1> QED
  BY <1>2, <1>3

LEMMA StoringATask ==
  ASSUME NEW ts \in Seq(Tasks), NEW n \in Nat, n \in DOMAIN ts \/ n = Len(ts) + 1,
         NEW task \in Tasks, NEW new \in Seq(Tasks), new = Stored(ts, n, task)
  PROVE  /\ n \in DOMAIN ts => Len(new) = Len(ts)
         /\ n \notin DOMAIN ts => Len(new) = n
         /\ new[n] = task
         /\ \A t \in DOMAIN ts \ {n} : new[t] = ts[t]
<1>1. DOMAIN ts = 1 .. Len(ts) /\ Len(ts) \in Nat
  BY LenProperties
<1>2. CASE n \in DOMAIN ts
  <2>1. new = [ts EXCEPT ![n] = task]
    BY <1>2 DEF Stored
  <2>2. Len([ts EXCEPT ![n] = task]) = Len(ts)
    BY <1>1, <1>2, ExceptSeq
  <2> QED
    BY <1>2, <2>1, <2>2
<1>3. CASE n \notin DOMAIN ts
  <2>1. new = Append(ts, task) /\ n = Len(ts) + 1
    BY <1>3 DEF Stored
  <2>2. /\ Len(new) = n /\ new[n] = task
        /\ \A t \in 1 .. Len(ts) : new[t] = ts[t]
    BY <2>1, AppendProperties
  <2> QED
    BY <1>1, <1>3, <2>2
<1> QED
  BY <1>2, <1>3

\* upsert_task_from_event files an event, and it leaves the peers raised.
LEMMA UpsertingFiles ==
  ASSUME NEW ts \in Seq(Tasks), NEW event \in Tasks, event.state = "open",
         NEW n, n = TaskOf(ts, event)
  PROVE  /\ Files(ts, Upserted(ts, event), n, event)
         /\ Raised(ts) => Raised(Upserted(ts, event))
<1>0. RankedTask(ts, event) \in Tasks
  BY RankedTaskIs
<1> PICK task \in Tasks : task = RankedTask(ts, event)
  BY <1>0
<1>00. Stored(ts, n, task) \in Seq(Tasks)
  BY TaskOfAnEvent, StoredIsASeq
<1> PICK stored \in Seq(Tasks) : stored = Stored(ts, n, task)
  BY <1>00
<1> PICK i : i = Unranked(ts, event).correlation
  OBVIOUS
<1> DEFINE new == Upserted(ts, event)
<1>1. new = Reranked(stored, i)
  BY DEF Upserted, RankedTask
<1>2. /\ n \in Nat
      /\ n \in DOMAIN ts =>
           /\ n \in ActiveTasks(ts)
           /\ ts[n].type = event.type /\ ts[n].about = event.about
           /\ ts[n].source = event.source
      /\ n \notin DOMAIN ts => n = Len(ts) + 1 /\ SameFollowUp(ts, event) = {}
  BY TaskOfAnEvent
<1>3. /\ task.type = event.type /\ task.about = event.about
      /\ task.source = event.source /\ task.gate = event.gate
      /\ task.state \notin TerminalTaskStates /\ task.correlation = i
      /\ n \in DOMAIN ts => task.correlation = ts[n].correlation
  BY RankedTaskIs
<1>4. /\ n \in DOMAIN ts => Len(stored) = Len(ts)
      /\ n \notin DOMAIN ts => Len(stored) = n
      /\ stored[n] = task
      /\ \A t \in DOMAIN ts \ {n} : stored[t] = ts[t]
  <2>1. n \in DOMAIN ts \/ n = Len(ts) + 1
    BY <1>2
  <2> QED
    BY <1>2, <2>1, StoringATask
<1>41. DOMAIN stored = DOMAIN ts \cup {n}
  <2>1. /\ DOMAIN ts = 1 .. Len(ts) /\ Len(ts) \in Nat
        /\ DOMAIN stored = 1 .. Len(stored)
    BY LenProperties
  <2>2. CASE n \in DOMAIN ts
    BY <1>4, <2>1, <2>2
  <2>3. CASE n \notin DOMAIN ts
    BY <1>2, <1>4, <2>1, <2>3
  <2> QED
    BY <2>2, <2>3
<1> HIDE DEF new
<1>5. /\ new \in Seq(Tasks) /\ Len(new) = Len(stored) /\ DOMAIN new = DOMAIN stored
      /\ \A t \in DOMAIN stored : SameBut(new[t], stored[t])
  BY <1>1, <1>4, <1>41, RankingKeeps
<1>6. ActiveTasks(stored) = ActiveTasks(ts) \cup {n}
  BY <1>3, <1>4, <1>41 DEF ActiveTasks
<1>7. ActiveTasks(new) = ActiveTasks(ts) \cup {n}
  BY <1>5, <1>6 DEF ActiveTasks, SameBut
<1>8. Files(ts, new, n, event)
  <2>1. /\ new[n].type = event.type /\ new[n].about = event.about
        /\ new[n].source = event.source /\ new[n].gate = event.gate
    BY <1>3, <1>4, <1>41, <1>5 DEF SameBut
  <2>2. \A t \in DOMAIN ts \ {n} : SameBut(new[t], ts[t])
    BY <1>4, <1>41, <1>5
  <2> QED
    BY <1>2, <1>4, <1>41, <1>5, <1>7, <2>1, <2>2 DEF Files
<1>9. ASSUME Raised(ts) PROVE Raised(new)
  <2>1. ASSUME NEW t \in ActiveTasks(stored), NEW u \in ActiveTasks(stored),
               stored[t].correlation = stored[u].correlation, stored[t].correlation # i
        PROVE  /\ stored[t].severity = High => stored[u].severity # Low
               /\ stored[t].type \in ForceHighTypes => stored[u].severity = High
    <3>1. t # n /\ u # n
      BY <1>3, <1>4, <1>41, <2>1
    <3>2. t \in ActiveTasks(ts) /\ u \in ActiveTasks(ts)
      BY <1>6, <3>1
    <3>3. stored[t] = ts[t] /\ stored[u] = ts[u]
      BY <1>4, <1>41, <3>1, <3>2 DEF ActiveTasks
    <3> QED
      BY <1>9, <2>1, <3>2, <3>3 DEF Raised
  <2> QED
    BY <1>1, <1>4, <1>41, <2>1, RankingRaises
<1> QED
  BY <1>8, <1>9 DEF new

\* What a judgment leaves in the queue: nothing but the state of one task may differ.
Settles(ts, new) ==
  /\ new \in Seq(Tasks) /\ Len(new) = Len(ts) /\ DOMAIN new = DOMAIN ts
  /\ \A t \in DOMAIN ts :
       /\ new[t].type = ts[t].type /\ new[t].about = ts[t].about
       /\ new[t].correlation = ts[t].correlation /\ new[t].source = ts[t].source
       /\ new[t].gate = ts[t].gate /\ new[t].severity = ts[t].severity
  /\ ActiveTasks(new) \subseteq ActiveTasks(ts)

LEMMA MovingSettles ==
  ASSUME NEW ts \in Seq(Tasks), NEW n \in DOMAIN ts, NEW target \in TaskStates
  PROVE  /\ Settles(ts, TaskMoved(ts, n, target))
         /\ ~ts[n].gate /\ target \in TerminalTaskStates
              => n \notin ActiveTasks(TaskMoved(ts, n, target))
<1> DEFINE new == TaskMoved(ts, n, target)
<1>1. DOMAIN ts = 1 .. Len(ts) /\ Len(ts) \in Nat
  BY LenProperties
<1>2. ts[n] \in Tasks
  BY <1>1, ElementOfSeq
<1>3. ts[n].state \in TaskStates
  BY <1>2 DEF Tasks
<1>4. CASE ~CanMove(ts, n, target)
  <2>1. new = ts
    BY <1>4 DEF TaskMoved
  <2>2. target \notin AllowedTaskTransitions[ts[n].state] \/ ts[n].gate
    BY <1>4 DEF CanMove
  <2>3. target \in TerminalTaskStates /\ ~ts[n].gate => ts[n].state \in TerminalTaskStates
    BY <1>3, <2>2 DEF TaskStates, AllowedTaskTransitions, TerminalTaskStates
  <2> QED
    BY <2>1, <2>3 DEF Settles, ActiveTasks
<1>5. CASE CanMove(ts, n, target)
  <2>1. new = [ts EXCEPT ![n].state = target]
    BY <1>5 DEF TaskMoved
  <2>2. ts[n].state \notin TerminalTaskStates
    BY <1>3, <1>5 DEF CanMove, TaskStates, AllowedTaskTransitions, TerminalTaskStates
  <2> DEFINE moved == [ts[n] EXCEPT !.state = target]
  <2>3. moved \in Tasks
    BY <1>2 DEF Tasks
  <2>4. new = [ts EXCEPT ![n] = moved]
    BY <2>1
  <2>5. /\ moved.type = ts[n].type /\ moved.about = ts[n].about
        /\ moved.correlation = ts[n].correlation /\ moved.source = ts[n].source
        /\ moved.gate = ts[n].gate /\ moved.severity = ts[n].severity
        /\ moved.state = target
    BY <1>2 DEF Tasks
  <2> HIDE DEF moved, new
  <2>6. new \in Seq(Tasks) /\ Len(new) = Len(ts)
    BY <1>1, <2>3, <2>4, ExceptSeq
  <2>7. DOMAIN new = DOMAIN ts /\ \A t \in DOMAIN ts : new[t] = IF t = n THEN moved ELSE ts[t]
    BY <2>4
  <2>8. ActiveTasks(new) \subseteq ActiveTasks(ts)
    BY <2>2, <2>7 DEF ActiveTasks
  <2>9. target \in TerminalTaskStates => n \notin ActiveTasks(new)
    BY <2>5, <2>7 DEF ActiveTasks
  <2>10. Settles(ts, new)
    BY <2>5, <2>6, <2>7, <2>8 DEF Settles
  <2> QED
    BY <2>9, <2>10 DEF new
<1> QED
  BY <1>4, <1>5

-----------------------------------------------------------------------------
\* What a filed event and a judgment keep of the invariant

LEMMA RecordsAreTyped ==
  ASSUME DataOK
  PROVE  /\ \A t \in DOMAIN tasks : tasks[t] \in Tasks
         /\ \A c \in DOMAIN closeouts : closeouts[c] \in CloseoutRecords
         /\ \A s \in DOMAIN steps : steps[s] \in StepRecords(DOMAIN closeouts)
<1>1. /\ tasks \in Seq(Tasks) /\ closeouts \in Seq(CloseoutRecords)
      /\ steps \in Seq(StepRecords(DOMAIN closeouts))
  BY DEF DataOK
<1>2. \A t \in DOMAIN tasks : tasks[t] \in Tasks
  BY <1>1, ElementOfSeq
<1>3. \A c \in DOMAIN closeouts : closeouts[c] \in CloseoutRecords
  BY <1>1, ElementOfSeq
<1>4. \A s \in DOMAIN steps : steps[s] \in StepRecords(DOMAIN closeouts)
  BY <1>1, ElementOfSeq
<1> QED
  BY <1>2, <1>3, <1>4

LEMMA FiledTasks ==
  ASSUME KeysDiffer, NEW event, NEW n, Files(tasks, tasks', n, event)
  PROVE  /\ KeysDiffer'
         /\ \A t \in DOMAIN tasks :
              /\ t \in DOMAIN tasks' /\ tasks'[t].type = tasks[t].type
              /\ tasks'[t].about = tasks[t].about /\ tasks'[t].source = tasks[t].source
         /\ \A t \in DOMAIN tasks' : t # n => t \in DOMAIN tasks /\ tasks'[t].gate = tasks[t].gate
         /\ \A t \in ActiveTasks(tasks') :
              t # n => t \in ActiveTasks(tasks) /\ DedupKey(tasks[t]) # DedupKey(event)
<1>1. /\ DOMAIN tasks' = DOMAIN tasks \cup {n}
      /\ ActiveTasks(tasks') = ActiveTasks(tasks) \cup {n}
      /\ \A t \in DOMAIN tasks \ {n} : SameBut(tasks'[t], tasks[t])
      /\ DedupKey(tasks'[n]) = DedupKey(event)
  BY DEF Files, DedupKey
<1>2. ASSUME n \in DOMAIN tasks
      PROVE  n \in ActiveTasks(tasks) /\ DedupKey(tasks[n]) = DedupKey(event)
  BY <1>2 DEF Files, DedupKey
<1>3. ASSUME n \notin DOMAIN tasks PROVE SameFollowUp(tasks, event) = {}
  BY <1>3 DEF Files
<1>4. ASSUME NEW t \in DOMAIN tasks
      PROVE  /\ t \in DOMAIN tasks' /\ tasks'[t].type = tasks[t].type
             /\ tasks'[t].about = tasks[t].about /\ tasks'[t].source = tasks[t].source
  <2>1. CASE t = n
    BY <1>1, <2>1 DEF Files
  <2>2. CASE t # n
    BY <1>1, <2>2 DEF SameBut
  <2> QED
    BY <2>1, <2>2
<1>5. ASSUME NEW t \in ActiveTasks(tasks'), t # n
      PROVE  t \in ActiveTasks(tasks) /\ DedupKey(tasks[t]) # DedupKey(event)
  <2>1. t \in ActiveTasks(tasks)
    BY <1>1, <1>5
  <2>2. CASE n \in DOMAIN tasks
    BY <1>2, <1>5, <2>1, <2>2 DEF KeysDiffer
  <2>3. CASE n \notin DOMAIN tasks
    BY <1>3, <2>1, <2>3 DEF SameFollowUp
  <2> QED
    BY <2>1, <2>2, <2>3
<1>6. ASSUME NEW t \in DOMAIN tasks PROVE DedupKey(tasks'[t]) = DedupKey(tasks[t])
  BY <1>4 DEF DedupKey
<1>7. KeysDiffer'
  <2> SUFFICES ASSUME NEW t \in ActiveTasks(tasks'), NEW u \in ActiveTasks(tasks'),
                      DedupKey(tasks'[t]) = DedupKey(tasks'[u])
               PROVE  t = u
    BY DEF KeysDiffer
  <2>1. CASE t # n /\ u # n
    <3>1. t \in ActiveTasks(tasks) /\ u \in ActiveTasks(tasks)
      BY <1>5, <2>1
    <3>2. t \in DOMAIN tasks /\ u \in DOMAIN tasks
      BY <3>1 DEF ActiveTasks
    <3> QED
      BY <1>6, <3>1, <3>2 DEF KeysDiffer
  <2>2. CASE t = n /\ u # n
    <3>1. u \in ActiveTasks(tasks) /\ DedupKey(tasks[u]) # DedupKey(event)
      BY <1>5, <2>2
    <3>2. u \in DOMAIN tasks
      BY <3>1 DEF ActiveTasks
    <3> QED
      BY <1>1, <1>6, <2>2, <3>1, <3>2
  <2>3. CASE t # n /\ u = n
    <3>1. t \in ActiveTasks(tasks) /\ DedupKey(tasks[t]) # DedupKey(event)
      BY <1>5, <2>3
    <3>2. t \in DOMAIN tasks
      BY <3>1 DEF ActiveTasks
    <3> QED
      BY <1>1, <1>6, <2>3, <3>1, <3>2
  <2> QED
    BY <2>1, <2>2, <2>3
<1>8. ASSUME NEW t \in DOMAIN tasks', t # n
      PROVE  t \in DOMAIN tasks /\ tasks'[t].gate = tasks[t].gate
  BY <1>1, <1>8 DEF SameBut
<1> QED
  BY <1>4, <1>5, <1>7, <1>8

LEMMA FiledTasksAreShaped ==
  ASSUME KeysDiffer, TasksAreShaped, NEW event, NEW n, Files(tasks, tasks', n, event),
         DOMAIN closeouts \subseteq DOMAIN closeouts', DOMAIN steps \subseteq DOMAIN steps',
         event.type = Followup => event.about \in DOMAIN closeouts' /\ ~event.gate,
         event.type = RunbookStep => event.about \in DOMAIN steps' /\ ~event.gate
  PROVE  TasksAreShaped'
<1> SUFFICES ASSUME NEW t \in DOMAIN tasks'
             PROVE  /\ tasks'[t].type = Followup =>
                         tasks'[t].about \in DOMAIN closeouts' /\ ~tasks'[t].gate
                    /\ tasks'[t].type = RunbookStep =>
                         tasks'[t].about \in DOMAIN steps' /\ ~tasks'[t].gate
  BY DEF TasksAreShaped
<1>1. CASE t = n
  BY <1>1 DEF Files
<1>2. CASE t # n
  <2>1. /\ t \in DOMAIN tasks /\ tasks'[t].type = tasks[t].type
        /\ tasks'[t].about = tasks[t].about /\ tasks'[t].gate = tasks[t].gate
    BY <1>2, FiledTasks
  <2> QED
    BY <2>1 DEF TasksAreShaped
<1> QED
  BY <1>1, <1>2

\* A follow-up keeps fitting while its closeout owes it and is worked on.
FollowupsStay ==
  \A c \in DOMAIN closeouts :
    closeouts[c].owed /\ closeouts[c].state \in {"flagged_active", "in_remediation"} =>
      /\ closeouts'[c].owed /\ closeouts'[c].followup = closeouts[c].followup
      /\ closeouts'[c].state \in {"flagged_active", "in_remediation"}

LEMMA FiledKeepsFollowups ==
  ASSUME KeysDiffer, TasksAreShaped, FollowupsFit,
         NEW event, NEW n, Files(tasks, tasks', n, event),
         event.type # Followup, FollowupsStay
  PROVE  FollowupsFit'
<1> SUFFICES ASSUME NEW t \in ActiveTasks(tasks'), tasks'[t].type = Followup
             PROVE  /\ closeouts'[tasks'[t].about].owed
                    /\ closeouts'[tasks'[t].about].followup = t
                    /\ closeouts'[tasks'[t].about].state \in {"flagged_active", "in_remediation"}
  BY DEF FollowupsFit
<1>1. t # n
  BY DEF Files
<1>2. t \in ActiveTasks(tasks)
  BY <1>1, FiledTasks
<1>3. t \in DOMAIN tasks
  BY <1>2 DEF ActiveTasks
<1>4. tasks[t].type = Followup /\ tasks'[t].about = tasks[t].about
  BY <1>3, FiledTasks
<1>5. tasks[t].about \in DOMAIN closeouts
  BY <1>3, <1>4 DEF TasksAreShaped
<1> QED
  BY <1>2, <1>4, <1>5 DEF FollowupsFit, FollowupsStay

LEMMA FiledKeepsSteps ==
  ASSUME DataOK, KeysDiffer, TasksAreShaped, StepsFit,
         NEW event, NEW n, Files(tasks, tasks', n, event),
         event.type # RunbookStep, steps' = steps
  PROVE  StepsFit'
<1> SUFFICES ASSUME NEW t \in ActiveTasks(tasks'), tasks'[t].type = RunbookStep
             PROVE  /\ steps'[tasks'[t].about].task = t =>
                         steps'[tasks'[t].about].state \notin TerminalStepStates
                    /\ steps'[tasks'[t].about].task # t =>
                         tasks'[t].source # tasks'[steps'[tasks'[t].about].task].source
  BY DEF StepsFit
<1>1. t # n
  BY DEF Files
<1>2. t \in ActiveTasks(tasks)
  BY <1>1, FiledTasks
<1>3. t \in DOMAIN tasks
  BY <1>2 DEF ActiveTasks
<1>4. /\ tasks[t].type = RunbookStep /\ tasks'[t].about = tasks[t].about
      /\ tasks'[t].source = tasks[t].source
  BY <1>3, FiledTasks
<1>5. tasks[t].about \in DOMAIN steps
  BY <1>3, <1>4 DEF TasksAreShaped
<1>6. steps[tasks[t].about].task \in DOMAIN tasks
  BY <1>5 DEF DataOK
<1>7. tasks'[steps[tasks[t].about].task].source = tasks[steps[tasks[t].about].task].source
  BY <1>6, FiledTasks
<1> QED
  BY <1>2, <1>4, <1>7 DEF StepsFit

LEMMA SettledTasks ==
  ASSUME KeysDiffer, TasksAreShaped, PeersAreRaised, Settles(tasks, tasks'),
         DOMAIN closeouts \subseteq DOMAIN closeouts', DOMAIN steps \subseteq DOMAIN steps'
  PROVE  /\ KeysDiffer' /\ TasksAreShaped' /\ PeersAreRaised'
         /\ \A t \in DOMAIN tasks :
              /\ t \in DOMAIN tasks' /\ tasks'[t].type = tasks[t].type
              /\ tasks'[t].about = tasks[t].about /\ tasks'[t].source = tasks[t].source
         /\ \A t \in ActiveTasks(tasks') : t \in ActiveTasks(tasks) /\ t \in DOMAIN tasks
<1>1. /\ DOMAIN tasks' = DOMAIN tasks
      /\ \A t \in DOMAIN tasks :
           /\ tasks'[t].type = tasks[t].type /\ tasks'[t].about = tasks[t].about
           /\ tasks'[t].correlation = tasks[t].correlation
           /\ tasks'[t].source = tasks[t].source
           /\ tasks'[t].gate = tasks[t].gate /\ tasks'[t].severity = tasks[t].severity
  BY DEF Settles
<1>2. \A t \in ActiveTasks(tasks') : t \in ActiveTasks(tasks) /\ t \in DOMAIN tasks
  BY DEF Settles, ActiveTasks
<1>3. \A t \in DOMAIN tasks : DedupKey(tasks'[t]) = DedupKey(tasks[t])
  BY <1>1 DEF DedupKey
<1>4. KeysDiffer'
  BY <1>2, <1>3 DEF KeysDiffer
<1>5. TasksAreShaped'
  <2> SUFFICES ASSUME NEW t \in DOMAIN tasks'
               PROVE  /\ tasks'[t].type = Followup =>
                           tasks'[t].about \in DOMAIN closeouts' /\ ~tasks'[t].gate
                      /\ tasks'[t].type = RunbookStep =>
                           tasks'[t].about \in DOMAIN steps' /\ ~tasks'[t].gate
    BY DEF TasksAreShaped
  <2> QED
    BY <1>1 DEF TasksAreShaped
<1>6. PeersAreRaised'
  <2> SUFFICES ASSUME NEW t \in ActiveTasks(tasks'), NEW u \in ActiveTasks(tasks'),
                      tasks'[t].correlation = tasks'[u].correlation
               PROVE  /\ tasks'[t].severity = High => tasks'[u].severity # Low
                      /\ tasks'[t].type \in ForceHighTypes => tasks'[u].severity = High
    BY DEF PeersAreRaised
  <2> QED
    BY <1>1, <1>2 DEF PeersAreRaised
<1> QED
  BY <1>1, <1>2, <1>4, <1>5, <1>6

\* A follow-up that stays in the queue stays owed.
StandingFollowupsStay ==
  \A c \in DOMAIN closeouts :
    /\ closeouts[c].owed /\ closeouts[c].state \in {"flagged_active", "in_remediation"}
    /\ closeouts[c].followup \in ActiveTasks(tasks')
    /\ tasks[closeouts[c].followup].type = Followup
    /\ tasks[closeouts[c].followup].about = c
    => /\ closeouts'[c].owed /\ closeouts'[c].followup = closeouts[c].followup
       /\ closeouts'[c].state \in {"flagged_active", "in_remediation"}

\* A step keeps its task, and is not over while that task stays in the queue.
StandingStepsStay ==
  \A s \in DOMAIN steps :
    /\ steps'[s].task = steps[s].task
    /\ /\ steps[s].state \notin TerminalStepStates
       /\ steps[s].task \in ActiveTasks(tasks')
       /\ tasks[steps[s].task].type = RunbookStep
       /\ tasks[steps[s].task].about = s
       => steps'[s].state \notin TerminalStepStates

LEMMA SettledKeeps ==
  ASSUME DataOK, KeysDiffer, TasksAreShaped, PeersAreRaised, FollowupsFit, StepsFit,
         Settles(tasks, tasks'),
         DOMAIN closeouts \subseteq DOMAIN closeouts', DOMAIN steps \subseteq DOMAIN steps',
         StandingFollowupsStay, StandingStepsStay
  PROVE  FollowupsFit' /\ StepsFit'
<1>1. /\ \A t \in DOMAIN tasks :
           /\ t \in DOMAIN tasks' /\ tasks'[t].type = tasks[t].type
           /\ tasks'[t].about = tasks[t].about /\ tasks'[t].source = tasks[t].source
      /\ \A t \in ActiveTasks(tasks') : t \in ActiveTasks(tasks) /\ t \in DOMAIN tasks
  BY SettledTasks
<1>2. ASSUME NEW t \in ActiveTasks(tasks'), tasks'[t].type = Followup
      PROVE  /\ closeouts'[tasks'[t].about].owed
             /\ closeouts'[tasks'[t].about].followup = t
             /\ closeouts'[tasks'[t].about].state \in {"flagged_active", "in_remediation"}
  <2>1. /\ t \in ActiveTasks(tasks) /\ t \in DOMAIN tasks /\ tasks[t].type = Followup
        /\ tasks'[t].about = tasks[t].about
    BY <1>1, <1>2
  <2>2. tasks[t].about \in DOMAIN closeouts
    BY <2>1 DEF TasksAreShaped
  <2>3. /\ closeouts[tasks[t].about].owed /\ closeouts[tasks[t].about].followup = t
        /\ closeouts[tasks[t].about].state \in {"flagged_active", "in_remediation"}
    BY <2>1 DEF FollowupsFit
  <2> QED
    BY <1>2, <2>1, <2>2, <2>3 DEF StandingFollowupsStay
<1>3. ASSUME NEW t \in ActiveTasks(tasks'), tasks'[t].type = RunbookStep
      PROVE  /\ steps'[tasks'[t].about].task = t =>
                  steps'[tasks'[t].about].state \notin TerminalStepStates
             /\ steps'[tasks'[t].about].task # t =>
                  tasks'[t].source # tasks'[steps'[tasks'[t].about].task].source
  <2>1. /\ t \in ActiveTasks(tasks) /\ t \in DOMAIN tasks /\ tasks[t].type = RunbookStep
        /\ tasks'[t].about = tasks[t].about /\ tasks'[t].source = tasks[t].source
    BY <1>1, <1>3
  <2>2. tasks[t].about \in DOMAIN steps
    BY <2>1 DEF TasksAreShaped
  <2>3. steps[tasks[t].about].task \in DOMAIN tasks
    BY <2>2 DEF DataOK
  <2>4. steps'[tasks[t].about].task = steps[tasks[t].about].task
    BY <2>2 DEF StandingStepsStay
  <2>5. /\ steps[tasks[t].about].task = t =>
             steps[tasks[t].about].state \notin TerminalStepStates
        /\ steps[tasks[t].about].task # t =>
             tasks[t].source # tasks[steps[tasks[t].about].task].source
    BY <2>1 DEF StepsFit
  <2>6. tasks'[steps[tasks[t].about].task].source = tasks[steps[tasks[t].about].task].source
    BY <1>1, <2>3
  <2>7. ASSUME steps[tasks[t].about].task = t
        PROVE  steps'[tasks[t].about].state \notin TerminalStepStates
    BY <1>3, <2>1, <2>2, <2>5, <2>7 DEF StandingStepsStay
  <2> QED
    BY <2>1, <2>4, <2>5, <2>6, <2>7
<1>4. FollowupsFit'
  BY <1>2 DEF FollowupsFit
<1>5. StepsFit'
  BY <1>3 DEF StepsFit
<1> QED
  BY <1>4, <1>5

LEMMA UnchangedSettles ==
  ASSUME DataOK, tasks' = tasks PROVE Settles(tasks, tasks')
BY DEF DataOK, Settles

LEMMA UpdatingASequence ==
  ASSUME NEW S, NEW seq \in Seq(S), NEW i \in DOMAIN seq, NEW e \in S
  PROVE  [seq EXCEPT ![i] = e] \in Seq(S)
BY LenProperties, ExceptSeq

-----------------------------------------------------------------------------
\* The queue's own routes

LEMMA IntakeKeeps ==
  ASSUME CloseoutsInv, NEW event \in QueueEvents, Intake(event), UNCHANGED <<closeouts, steps>>
  PROVE  CloseoutsInv'
<1>1. event \in Tasks /\ event.type \notin CloseoutTypes /\ event.state = "open"
  BY CloseoutsAssumption
<1>2. event.type # Followup /\ event.type # RunbookStep
  BY <1>1 DEF CloseoutTypes, Followup, RunbookStep
<1> PICK n : n = TaskOf(tasks, event)
  OBVIOUS
<1>3. n <= MaxTasks /\ tasks' = Upserted(tasks, event)
  BY DEF Intake, RoomFor
<1>4. tasks \in Seq(Tasks)
  BY DEF CloseoutsInv, DataOK
<1>5. Files(tasks, tasks', n, event) /\ (Raised(tasks) => Raised(tasks'))
  BY <1>1, <1>3, <1>4, UpsertingFiles
<1>6. KeysDiffer' /\ \A t \in DOMAIN tasks : t \in DOMAIN tasks'
  BY <1>5, FiledTasks DEF CloseoutsInv
<1>7. TasksAreShaped'
  BY <1>2, <1>5, FiledTasksAreShaped DEF CloseoutsInv
<1>8. FollowupsFit'
  <2>1. FollowupsStay
    BY DEF FollowupsStay
  <2> QED
    BY <1>2, <1>5, <2>1, FiledKeepsFollowups DEF CloseoutsInv
<1>9. StepsFit'
  BY <1>2, <1>5, FiledKeepsSteps DEF CloseoutsInv
<1>10. PeersAreRaised'
  BY <1>5 DEF CloseoutsInv, PeersAreRaised, Raised
<1>11. DataOK'
  <2>1. tasks' \in Seq(Tasks) /\ Len(tasks') <= MaxTasks
    BY <1>3, <1>5 DEF Files, CloseoutsInv, DataOK
  <2> QED
    BY <1>6, <2>1 DEF CloseoutsInv, DataOK
<1> QED
  BY <1>6, <1>7, <1>8, <1>9, <1>10, <1>11 DEF CloseoutsInv

LEMMA JudgeKeeps ==
  ASSUME CloseoutsInv, NEW t \in DOMAIN tasks, NEW target \in Judgments, Judge(t, target),
         UNCHANGED <<closeouts, steps>>
  PROVE  CloseoutsInv'
<1>1. target \in TaskStates /\ tasks \in Seq(Tasks) /\ tasks' = TaskMoved(tasks, t, target)
  BY CloseoutsAssumption DEF Judge, CloseoutsInv, DataOK
<1>2. Settles(tasks, tasks')
  BY <1>1, MovingSettles
<1>3. KeysDiffer' /\ TasksAreShaped' /\ PeersAreRaised'
  BY <1>2, SettledTasks DEF CloseoutsInv
<1>4. FollowupsFit' /\ StepsFit'
  <2>1. StandingFollowupsStay /\ StandingStepsStay
    BY DEF StandingFollowupsStay, StandingStepsStay
  <2> QED
    BY <1>2, <2>1, SettledKeeps DEF CloseoutsInv
<1>5. DataOK'
  BY <1>2 DEF Settles, CloseoutsInv, DataOK
<1> QED
  BY <1>3, <1>4, <1>5 DEF CloseoutsInv

-----------------------------------------------------------------------------
\* Closeouts

\* What the routes of a closeout change of it before they move it: the mirror of its flag.
Seen(c, m) ==
  /\ m \in CloseoutRecords
  /\ m.incident = closeouts[c].incident /\ m.state = closeouts[c].state
  /\ m.followup = closeouts[c].followup /\ m.owed = closeouts[c].owed

LEMMA DetectKeeps ==
  ASSUME CloseoutsInv, NEW i \in Correlations, NEW severity \in CloseoutLevels,
         NEW flag \in Flags, NEW probe \in Probes,
         Detect(i, severity, flag, probe.source, probe.warning)
  PROVE  CloseoutsInv'
<1> PICK level : level = IF probe.source = "unknown" \/ probe.warning THEN High ELSE severity
  OBVIOUS
<1> PICK r : r =
      [incident |-> i, state |-> "detected", flag |-> flag,
       flagEverSet |-> flag = "observed_true", severity |-> level, source |-> probe.source,
       warning |-> probe.warning, followup |-> NoTask, owed |-> FALSE]
  OBVIOUS
<1>1. closeouts' = Append(closeouts, r) /\ tasks' = tasks /\ steps' = steps
  BY DEF Detect
<1>2. r \in CloseoutRecords /\ r.followup = NoTask /\ ~r.owed
  <2>1. probe.source \in Sources /\ probe.warning \in BOOLEAN /\ severity \in Severities
    BY CloseoutsAssumption
  <2>2. level \in Severities
    BY <2>1 DEF Severities, High
  <2>3. NoTask \in 0 .. MaxTasks /\ "detected" \in CloseoutStates
    BY CloseoutsAssumption DEF NoTask, CloseoutStates, AllowedCloseoutTransitions
  <2> QED
    BY <2>1, <2>2, <2>3 DEF CloseoutRecords
<1>3. closeouts \in Seq(CloseoutRecords)
  BY DEF CloseoutsInv, DataOK
<1>4. /\ closeouts' \in Seq(CloseoutRecords) /\ Len(closeouts') = Len(closeouts) + 1
      /\ \A c \in 1 .. Len(closeouts) : closeouts'[c] = closeouts[c]
      /\ closeouts'[Len(closeouts) + 1] = r
  BY <1>1, <1>2, <1>3, AppendProperties
<1>5. /\ DOMAIN closeouts = 1 .. Len(closeouts) /\ Len(closeouts) \in Nat
      /\ DOMAIN closeouts' = 1 .. Len(closeouts) + 1
  BY <1>3, <1>4, LenProperties
<1>6. /\ DOMAIN closeouts \subseteq DOMAIN closeouts'
      /\ \A c \in DOMAIN closeouts : closeouts'[c] = closeouts[c]
      /\ \A c \in DOMAIN closeouts' : c \notin DOMAIN closeouts => closeouts'[c] = r
  BY <1>4, <1>5
<1>7. Settles(tasks, tasks')
  BY <1>1, UnchangedSettles DEF CloseoutsInv
<1>8. KeysDiffer' /\ TasksAreShaped' /\ PeersAreRaised'
  BY <1>1, <1>6, <1>7, SettledTasks DEF CloseoutsInv
<1>9. FollowupsFit' /\ StepsFit'
  <2>1. StandingFollowupsStay
    BY <1>6 DEF StandingFollowupsStay
  <2>2. StandingStepsStay
    BY <1>1 DEF StandingStepsStay
  <2> QED
    BY <1>1, <1>6, <1>7, <2>1, <2>2, SettledKeeps DEF CloseoutsInv
<1>10. DataOK'
  <2>1. steps \in Seq(StepRecords(DOMAIN closeouts))
    BY DEF CloseoutsInv, DataOK
  <2>2. StepRecords(DOMAIN closeouts) \subseteq StepRecords(DOMAIN closeouts')
    BY <1>6 DEF StepRecords
  <2>3. steps \in Seq(StepRecords(DOMAIN closeouts'))
    BY <2>1, <2>2, SeqDef, LenProperties
  <2>4. \A c \in DOMAIN closeouts' :
          /\ closeouts'[c].followup # NoTask => closeouts'[c].followup \in DOMAIN tasks
          /\ closeouts'[c].owed => closeouts'[c].followup # NoTask
    BY <1>2, <1>6 DEF CloseoutsInv, DataOK
  <2> QED
    BY <1>1, <1>4, <2>3, <2>4 DEF CloseoutsInv, DataOK
<1> QED
  BY <1>8, <1>9, <1>10 DEF CloseoutsInv

\* A closeout is rewritten beside a judgment of its follow-up, or beside no change at all.
LEMMA RewritingKeeps ==
  ASSUME CloseoutsInv, NEW c \in DOMAIN closeouts, NEW m \in CloseoutRecords,
         closeouts' = [closeouts EXCEPT ![c] = m], steps' = steps,
         Settles(tasks, tasks'), m.followup = closeouts[c].followup,
         m.owed => closeouts[c].owed,
         /\ closeouts[c].owed /\ closeouts[c].state \in {"flagged_active", "in_remediation"}
         /\ closeouts[c].followup \in ActiveTasks(tasks')
         /\ tasks[closeouts[c].followup].type = Followup
         /\ tasks[closeouts[c].followup].about = c
         => m.owed /\ m.state \in {"flagged_active", "in_remediation"}
  PROVE  CloseoutsInv'
<1>1. closeouts \in Seq(CloseoutRecords)
  BY DEF CloseoutsInv, DataOK
<1>2. /\ DOMAIN closeouts' = DOMAIN closeouts
      /\ \A d \in DOMAIN closeouts : closeouts'[d] = IF d = c THEN m ELSE closeouts[d]
  OBVIOUS
<1>3. closeouts' \in Seq(CloseoutRecords)
  BY <1>1, UpdatingASequence
<1>4. KeysDiffer' /\ TasksAreShaped' /\ PeersAreRaised'
  BY <1>2, SettledTasks DEF CloseoutsInv
<1>5. FollowupsFit' /\ StepsFit'
  <2>1. StandingFollowupsStay
    BY <1>2 DEF StandingFollowupsStay
  <2>2. StandingStepsStay
    BY DEF StandingStepsStay
  <2> QED
    BY <1>2, <2>1, <2>2, SettledKeeps DEF CloseoutsInv
<1>6. DataOK'
  <2>1. tasks' \in Seq(Tasks) /\ Len(tasks') <= MaxTasks /\ DOMAIN tasks' = DOMAIN tasks
    BY DEF Settles, CloseoutsInv, DataOK
  <2>2. steps' \in Seq(StepRecords(DOMAIN closeouts'))
    BY <1>2 DEF CloseoutsInv, DataOK
  <2>3. \A d \in DOMAIN closeouts' :
          /\ closeouts'[d].followup # NoTask => closeouts'[d].followup \in DOMAIN tasks
          /\ closeouts'[d].owed => closeouts'[d].followup # NoTask
    BY <1>2 DEF CloseoutsInv, DataOK
  <2>4. \A s \in DOMAIN steps' : steps'[s].task \in DOMAIN tasks'
    BY <2>1 DEF CloseoutsInv, DataOK
  <2> QED
    BY <1>3, <2>1, <2>2, <2>3, <2>4 DEF DataOK
<1> QED
  BY <1>4, <1>5, <1>6 DEF CloseoutsInv

\* _materialize_followup_task, by a closeout that owes nothing: its task is a new one.
LEMMA OwingKeeps ==
  ASSUME CloseoutsInv, NEW c \in DOMAIN closeouts, NEW m \in CloseoutRecords,
         ~closeouts[c].owed, m.state = "flagged_active", OweFollowup(c, m), steps' = steps
  PROVE  CloseoutsInv'
<1> PICK event : event = FollowupEvent(c, m)
  OBVIOUS
<1> PICK n : n = TaskOf(tasks, event)
  OBVIOUS
<1> PICK r : r = [m EXCEPT !.followup = n, !.owed = TRUE]
  OBVIOUS
<1>1. /\ n <= MaxTasks /\ tasks' = Upserted(tasks, event)
      /\ closeouts' = [closeouts EXCEPT ![c] = r]
  BY DEF OweFollowup, RoomFor
<1>2. tasks \in Seq(Tasks) /\ closeouts \in Seq(CloseoutRecords)
  BY DEF CloseoutsInv, DataOK
<1>3. c \in Nat
  BY <1>2, LenProperties
<1>4. /\ event \in Tasks /\ event.state = "open" /\ event.type = Followup
      /\ event.about = c /\ ~event.gate
  <2>1. Followup \in TaskTypes /\ "open" \in TaskStates
    BY DEF Followup, TaskTypes, CloseoutTypes, TaskStates, AllowedTaskTransitions
  <2>2. m.incident \in Correlations /\ m.source \in Sources /\ m.severity \in Severities
    BY DEF CloseoutRecords
  <2>3. event = [type |-> Followup, about |-> c, correlation |-> m.incident,
                 source |-> m.source, gate |-> FALSE, severity |-> m.severity,
                 state |-> "open"]
    BY DEF FollowupEvent, Followup
  <2> QED
    BY <1>3, <2>1, <2>2, <2>3 DEF Tasks
<1>5. Files(tasks, tasks', n, event) /\ (Raised(tasks) => Raised(tasks'))
  BY <1>1, <1>2, <1>4, UpsertingFiles
<1>6. n \in DOMAIN tasks' /\ n \in 0 .. MaxTasks /\ n # NoTask
  <2>1. n \in Nat \ {0}
    BY <1>2, TaskOfAnEvent
  <2> QED
    BY <1>1, <1>5, <2>1, CloseoutsAssumption DEF Files, NoTask
<1>7. r \in CloseoutRecords /\ r.followup = n /\ r.owed /\ r.state = m.state
  <2>1. r.owed = TRUE /\ r.followup = n /\ r.state = m.state
    BY DEF CloseoutRecords
  <2>2. r \in CloseoutRecords
    BY <1>6 DEF CloseoutRecords
  <2> QED
    BY <2>1, <2>2
<1>8. /\ DOMAIN closeouts' = DOMAIN closeouts
      /\ \A d \in DOMAIN closeouts : closeouts'[d] = IF d = c THEN r ELSE closeouts[d]
  BY <1>1
<1>9. closeouts' \in Seq(CloseoutRecords)
  BY <1>1, <1>2, <1>7, UpdatingASequence
<1>10. /\ KeysDiffer'
       /\ \A t \in DOMAIN tasks :
            /\ t \in DOMAIN tasks' /\ tasks'[t].type = tasks[t].type
            /\ tasks'[t].about = tasks[t].about
       /\ \A t \in ActiveTasks(tasks') : t # n => t \in ActiveTasks(tasks)
  BY <1>5, FiledTasks DEF CloseoutsInv
<1>11. TasksAreShaped'
  <2>1. event.type = Followup => event.about \in DOMAIN closeouts' /\ ~event.gate
    BY <1>4, <1>8
  <2>2. event.type # RunbookStep
    BY <1>4 DEF Followup, RunbookStep
  <2> QED
    BY <1>5, <1>8, <2>1, <2>2, FiledTasksAreShaped DEF CloseoutsInv
<1>12. StepsFit'
  <2>1. event.type # RunbookStep
    BY <1>4 DEF Followup, RunbookStep
  <2> QED
    BY <1>5, <2>1, FiledKeepsSteps DEF CloseoutsInv
<1>13. FollowupsFit'
  <2> SUFFICES ASSUME NEW t \in ActiveTasks(tasks'), tasks'[t].type = Followup
               PROVE  /\ closeouts'[tasks'[t].about].owed
                      /\ closeouts'[tasks'[t].about].followup = t
                      /\ closeouts'[tasks'[t].about].state
                           \in {"flagged_active", "in_remediation"}
    BY DEF FollowupsFit
  <2>1. CASE t = n
    <3>1. tasks'[t].about = c
      BY <1>4, <1>5, <2>1 DEF Files
    <3> QED
      BY <1>7, <1>8, <2>1, <3>1
  <2>2. CASE t # n
    <3>1. t \in ActiveTasks(tasks) /\ t \in DOMAIN tasks
      BY <1>10, <2>2 DEF ActiveTasks
    <3>2. tasks[t].type = Followup /\ tasks'[t].about = tasks[t].about
      BY <1>10, <3>1
    <3>3. tasks[t].about \in DOMAIN closeouts
      BY <3>1, <3>2 DEF CloseoutsInv, TasksAreShaped
    <3>4. /\ closeouts[tasks[t].about].owed /\ closeouts[tasks[t].about].followup = t
          /\ closeouts[tasks[t].about].state \in {"flagged_active", "in_remediation"}
      BY <3>1, <3>2 DEF CloseoutsInv, FollowupsFit
    <3> QED
      BY <1>8, <3>2, <3>3, <3>4
  <2> QED
    BY <2>1, <2>2
<1>14. PeersAreRaised'
  BY <1>5 DEF CloseoutsInv, PeersAreRaised, Raised
<1>15. DataOK'
  <2>1. tasks' \in Seq(Tasks) /\ Len(tasks') <= MaxTasks
    BY <1>1, <1>5 DEF Files, CloseoutsInv, DataOK
  <2>2. steps' \in Seq(StepRecords(DOMAIN closeouts'))
    BY <1>8 DEF CloseoutsInv, DataOK
  <2>3. ASSUME NEW d \in DOMAIN closeouts'
        PROVE  /\ closeouts'[d].followup # NoTask => closeouts'[d].followup \in DOMAIN tasks'
               /\ closeouts'[d].owed => closeouts'[d].followup # NoTask
    <3>1. CASE d = c
      BY <1>6, <1>7, <1>8, <3>1
    <3>2. CASE d # c
      BY <1>8, <1>10, <3>2 DEF CloseoutsInv, DataOK
    <3> QED
      BY <3>1, <3>2
  <2>4. \A s \in DOMAIN steps' : steps'[s].task \in DOMAIN tasks'
    BY <1>10 DEF CloseoutsInv, DataOK
  <2> QED
    BY <1>9, <2>1, <2>2, <2>3, <2>4 DEF DataOK
<1> QED
  BY <1>10, <1>11, <1>12, <1>13, <1>14, <1>15 DEF CloseoutsInv

LEMMA WorkedOnMoves ==
  ASSUME NEW state \in CloseoutStates, NEW target \in AllowedCloseoutTransitions[state]
  PROVE  /\ target \in CloseoutStates
         /\ state \in {"flagged_active", "in_remediation"} =>
              target \in {"flagged_active", "in_remediation", "awaiting_closeout"}
                           \cup TerminalCloseoutStates
BY DEF CloseoutStates, AllowedCloseoutTransitions, TerminalCloseoutStates

LEMMA AdvanceKeeps ==
  ASSUME CloseoutsInv, NEW c \in DOMAIN closeouts, NEW m, Seen(c, m),
         NEW target \in AllowedCloseoutTransitions[m.state],
         Advance(c, m, target), steps' = steps
  PROVE  CloseoutsInv'
<1> PICK moved : moved = [m EXCEPT !.state = target]
  OBVIOUS
<1>1. m \in CloseoutRecords /\ m.state \in CloseoutStates
  BY DEF Seen, CloseoutRecords
<1>2. /\ target \in CloseoutStates
      /\ m.state \in {"flagged_active", "in_remediation"} =>
           target \in {"flagged_active", "in_remediation", "awaiting_closeout"}
                        \cup TerminalCloseoutStates
  BY <1>1, WorkedOnMoves
<1>3. moved \in CloseoutRecords
  BY <1>1, <1>2 DEF CloseoutRecords
<1>4. /\ moved.state = target /\ moved.followup = closeouts[c].followup
      /\ moved.owed = closeouts[c].owed
  BY <1>1 DEF Seen, CloseoutRecords
<1>5. moved.owed \in BOOLEAN
  BY <1>3 DEF CloseoutRecords
<1>6. CASE target = "flagged_active" /\ ~moved.owed /\ OweFollowup(c, moved)
  BY <1>3, <1>4, <1>6, OwingKeeps
<1>7. CASE /\ target \in TerminalCloseoutStates \cup {"awaiting_closeout"} /\ moved.owed
           /\ ResolveFollowup(c, moved)
  <2> PICK r : r = [moved EXCEPT !.owed = FALSE]
    OBVIOUS
  <2> PICK t : t = closeouts[c].followup
    OBVIOUS
  <2>1. /\ tasks' = TaskMoved(tasks, t, "completed")
        /\ closeouts' = [closeouts EXCEPT ![c] = r]
    BY <1>4, <1>7 DEF ResolveFollowup
  <2>2. r \in CloseoutRecords /\ r.followup = t /\ r.owed = FALSE
    BY <1>3, <1>4 DEF CloseoutRecords
  <2>3. t \in DOMAIN tasks /\ tasks \in Seq(Tasks)
    BY <1>4, <1>7 DEF CloseoutsInv, DataOK
  <2>4. "completed" \in TaskStates /\ "completed" \in TerminalTaskStates
    BY DEF TaskStates, AllowedTaskTransitions, TerminalTaskStates
  <2>5. /\ Settles(tasks, tasks')
        /\ ~tasks[t].gate => t \notin ActiveTasks(tasks')
    BY <2>1, <2>3, <2>4, MovingSettles
  <2>6. tasks[t].type = Followup => ~tasks[t].gate
    BY <2>3 DEF CloseoutsInv, TasksAreShaped
  <2> QED
    BY <2>1, <2>2, <2>5, <2>6, RewritingKeeps
<1>8. CASE /\ target = "flagged_active" => moved.owed
           /\ target \in TerminalCloseoutStates \cup {"awaiting_closeout"} => ~moved.owed
           /\ closeouts' = [closeouts EXCEPT ![c] = moved]
           /\ UNCHANGED tasks
  <2>1. Settles(tasks, tasks')
    BY <1>8, UnchangedSettles DEF CloseoutsInv
  <2>2. closeouts[c].owed /\ closeouts[c].state \in {"flagged_active", "in_remediation"}
          => moved.owed /\ moved.state \in {"flagged_active", "in_remediation"}
    BY <1>2, <1>4, <1>8 DEF Seen
  <2> QED
    BY <1>3, <1>4, <1>8, <2>1, <2>2, RewritingKeeps
<1> QED
  BY <1>6, <1>7, <1>8 DEF Advance

LEMMA TransitionKeeps ==
  ASSUME CloseoutsInv, NEW c \in DOMAIN closeouts, NEW target, Transition(c, target)
  PROVE  CloseoutsInv'
<1> PICK m : m = closeouts[c]
  OBVIOUS
<1>1. Seen(c, m)
  BY RecordsAreTyped DEF CloseoutsInv, Seen
<1>2. target \in AllowedCloseoutTransitions[m.state]
  BY DEF Transition, Permitted
<1> QED
  BY <1>1, <1>2, AdvanceKeeps DEF Transition

LEMMA ObserveFlagKeeps ==
  ASSUME CloseoutsInv, NEW c \in DOMAIN closeouts, NEW flag \in Flags, ObserveFlag(c, flag)
  PROVE  CloseoutsInv'
<1> PICK seen : seen = [closeouts[c] EXCEPT !.flag = flag,
                                            !.flagEverSet = @ \/ flag = "observed_true"]
  OBVIOUS
<1>1. closeouts[c] \in CloseoutRecords
  BY RecordsAreTyped DEF CloseoutsInv
<1>2. /\ seen.incident = closeouts[c].incident /\ seen.state = closeouts[c].state
      /\ seen.followup = closeouts[c].followup /\ seen.owed = closeouts[c].owed
  BY <1>1 DEF CloseoutRecords
<1>3. seen \in CloseoutRecords
  BY <1>1 DEF CloseoutRecords
<1>4. steps' = steps
  BY DEF ObserveFlag
<1>5. \/ \E target \in CloseoutStates : Permitted(c, seen, target) /\ Advance(c, seen, target)
      \/ closeouts' = [closeouts EXCEPT ![c] = seen] /\ UNCHANGED tasks
  <2>1. {"flagged_active", "awaiting_closeout"} \subseteq CloseoutStates
    BY DEF CloseoutStates, AllowedCloseoutTransitions
  <2> QED
    BY <2>1 DEF ObserveFlag
<1>6. ASSUME NEW target \in CloseoutStates,
             Permitted(c, seen, target) /\ Advance(c, seen, target)
      PROVE  CloseoutsInv'
  <2>1. target \in AllowedCloseoutTransitions[seen.state]
    BY <1>6 DEF Permitted
  <2>2. Seen(c, seen)
    BY <1>2, <1>3 DEF Seen
  <2> QED
    BY <1>4, <1>6, <2>1, <2>2, AdvanceKeeps
<1>7. CASE closeouts' = [closeouts EXCEPT ![c] = seen] /\ UNCHANGED tasks
  <2>1. Settles(tasks, tasks')
    BY <1>7, UnchangedSettles DEF CloseoutsInv
  <2> QED
    BY <1>2, <1>3, <1>4, <1>7, <2>1, RewritingKeeps
<1> QED
  BY <1>5, <1>6, <1>7

-----------------------------------------------------------------------------
\* Runbook steps

LEMMA StepEventIs ==
  ASSUME DataOK, NEW s \in Nat, NEW step \in [closeout : DOMAIN closeouts, kind : StepKinds,
                 state : StepStates, source : Sources, resolved : BOOLEAN, warning : BOOLEAN,
                 task : Nat]
  PROVE  /\ StepEvent(s, step) \in Tasks
         /\ StepEvent(s, step).state = "open" /\ StepEvent(s, step).type = RunbookStep
         /\ StepEvent(s, step).about = s /\ ~StepEvent(s, step).gate
         /\ StepEvent(s, step).source = step.source
<1>1. closeouts[step.closeout] \in CloseoutRecords
  BY RecordsAreTyped
<1>2. /\ closeouts[step.closeout].incident \in Correlations
      /\ closeouts[step.closeout].severity \in Severities
  BY <1>1 DEF CloseoutRecords
<1>3. StepSeverity(step) \in Severities
  BY <1>2 DEF StepSeverity, Severities, High
<1>4. RunbookStep \in TaskTypes /\ "open" \in TaskStates
  BY DEF RunbookStep, TaskTypes, CloseoutTypes, TaskStates, AllowedTaskTransitions
<1>5. StepEvent(s, step) =
        [type |-> RunbookStep, about |-> s, correlation |-> Correlation(step.closeout),
         source |-> step.source, gate |-> FALSE, severity |-> StepSeverity(step),
         state |-> "open"]
  BY DEF StepEvent, RunbookStep
<1>6. Correlation(step.closeout) \in Correlations
  BY <1>2 DEF Correlation
<1> QED
  BY <1>3, <1>4, <1>5, <1>6 DEF Tasks

\* _materialize_step_task: the step is linked to the task of its source; a task it had
\* for another source stays behind, and differs from the new one in its source.
LEMMA MaterializingKeeps ==
  ASSUME CloseoutsInv, NEW s \in Nat, NEW event \in Tasks, event.state = "open",
         event.type = RunbookStep, event.about = s, ~event.gate,
         NEW n, n = TaskOf(tasks, event), n <= MaxTasks, tasks' = Upserted(tasks, event),
         steps' \in Seq(StepRecords(DOMAIN closeouts)),
         DOMAIN steps' = DOMAIN steps \cup {s},
         steps'[s].task = n, steps'[s].state \notin TerminalStepStates,
         \A z \in DOMAIN steps : z # s => steps'[z] = steps[z],
         closeouts' \in Seq(CloseoutRecords), DOMAIN closeouts' = DOMAIN closeouts,
         \A c \in DOMAIN closeouts :
           /\ closeouts'[c].followup = closeouts[c].followup
           /\ closeouts'[c].owed = closeouts[c].owed,
         FollowupsStay
  PROVE  CloseoutsInv'
<1>1. tasks \in Seq(Tasks)
  BY DEF CloseoutsInv, DataOK
<1>2. Files(tasks, tasks', n, event) /\ (Raised(tasks) => Raised(tasks'))
  BY <1>1, UpsertingFiles
<1>3. /\ KeysDiffer'
      /\ \A t \in DOMAIN tasks :
           /\ t \in DOMAIN tasks' /\ tasks'[t].type = tasks[t].type
           /\ tasks'[t].about = tasks[t].about /\ tasks'[t].source = tasks[t].source
      /\ \A t \in ActiveTasks(tasks') :
           t # n => t \in ActiveTasks(tasks) /\ DedupKey(tasks[t]) # DedupKey(event)
  BY <1>2, FiledTasks DEF CloseoutsInv
<1>4. event.type # Followup
  BY DEF Followup, RunbookStep
<1>5. TasksAreShaped'
  BY <1>2, <1>4, FiledTasksAreShaped DEF CloseoutsInv
<1>6. FollowupsFit'
  BY <1>2, <1>4, FiledKeepsFollowups DEF CloseoutsInv
<1>7. PeersAreRaised'
  BY <1>2 DEF CloseoutsInv, PeersAreRaised, Raised
<1>8. StepsFit'
  <2> SUFFICES ASSUME NEW t \in ActiveTasks(tasks'), tasks'[t].type = RunbookStep
               PROVE  /\ steps'[tasks'[t].about].task = t =>
                           steps'[tasks'[t].about].state \notin TerminalStepStates
                      /\ steps'[tasks'[t].about].task # t =>
                           tasks'[t].source # tasks'[steps'[tasks'[t].about].task].source
    BY DEF StepsFit
  <2>1. tasks'[n].about = s /\ tasks'[n].source = event.source
    BY <1>2 DEF Files
  <2>2. CASE t = n
    BY <2>1, <2>2
  <2>3. CASE t # n
    <3>1. /\ t \in ActiveTasks(tasks) /\ DedupKey(tasks[t]) # DedupKey(event)
          /\ t \in DOMAIN tasks
      BY <1>3, <2>3 DEF ActiveTasks
    <3>2. /\ tasks[t].type = RunbookStep /\ tasks'[t].about = tasks[t].about
          /\ tasks'[t].source = tasks[t].source
      BY <1>3, <3>1
    <3>3. CASE tasks[t].about = s
      <4>1. tasks[t].source # event.source
        BY <3>1, <3>2, <3>3 DEF DedupKey
      <4> QED
        BY <2>1, <2>3, <3>2, <3>3, <4>1
    <3>4. CASE tasks[t].about # s
      <4>1. tasks[t].about \in DOMAIN steps
        BY <3>1, <3>2 DEF CloseoutsInv, TasksAreShaped
      <4>2. steps'[tasks[t].about] = steps[tasks[t].about]
        BY <3>4, <4>1
      <4>3. steps[tasks[t].about].task \in DOMAIN tasks
        BY <4>1 DEF CloseoutsInv, DataOK
      <4>4. tasks'[steps[tasks[t].about].task].source
              = tasks[steps[tasks[t].about].task].source
        BY <1>3, <4>3
      <4> QED
        BY <3>1, <3>2, <4>2, <4>4 DEF CloseoutsInv, StepsFit
    <3> QED
      BY <3>3, <3>4
  <2> QED
    BY <2>2, <2>3
<1>9. DataOK'
  <2>1. tasks' \in Seq(Tasks) /\ Len(tasks') <= MaxTasks /\ n \in DOMAIN tasks'
    BY <1>2 DEF Files, CloseoutsInv, DataOK
  <2>2. \A z \in DOMAIN steps' : steps'[z].task \in DOMAIN tasks'
    BY <1>3, <2>1 DEF CloseoutsInv, DataOK
  <2>3. \A c \in DOMAIN closeouts' :
          /\ closeouts'[c].followup # NoTask => closeouts'[c].followup \in DOMAIN tasks'
          /\ closeouts'[c].owed => closeouts'[c].followup # NoTask
    BY <1>3 DEF CloseoutsInv, DataOK
  <2>4. steps' \in Seq(StepRecords(DOMAIN closeouts'))
    OBVIOUS
  <2> QED
    BY <2>1, <2>2, <2>3, <2>4 DEF DataOK
<1> QED
  BY <1>3, <1>5, <1>6, <1>7, <1>8, <1>9 DEF CloseoutsInv

\* A step is rewritten beside a judgment of its task, or beside no change at all.
LEMMA RewritingAStepKeeps ==
  ASSUME CloseoutsInv, NEW s \in DOMAIN steps, NEW r \in StepRecords(DOMAIN closeouts),
         steps' = [steps EXCEPT ![s] = r], closeouts' = closeouts, Settles(tasks, tasks'),
         r.task = steps[s].task,
         /\ steps[s].state \notin TerminalStepStates
         /\ steps[s].task \in ActiveTasks(tasks')
         /\ tasks[steps[s].task].type = RunbookStep /\ tasks[steps[s].task].about = s
         => r.state \notin TerminalStepStates
  PROVE  CloseoutsInv'
<1>1. /\ DOMAIN steps' = DOMAIN steps
      /\ \A z \in DOMAIN steps : steps'[z] = IF z = s THEN r ELSE steps[z]
  OBVIOUS
<1>2. steps \in Seq(StepRecords(DOMAIN closeouts))
  BY DEF CloseoutsInv, DataOK
<1>3. steps' \in Seq(StepRecords(DOMAIN closeouts))
  BY <1>2, UpdatingASequence
<1>4. KeysDiffer' /\ TasksAreShaped' /\ PeersAreRaised'
  BY <1>1, SettledTasks DEF CloseoutsInv
<1>5. FollowupsFit' /\ StepsFit'
  <2>1. StandingFollowupsStay
    BY DEF StandingFollowupsStay
  <2>2. StandingStepsStay
    BY <1>1 DEF StandingStepsStay
  <2> QED
    BY <1>1, <2>1, <2>2, SettledKeeps DEF CloseoutsInv
<1>6. DataOK'
  <2>1. tasks' \in Seq(Tasks) /\ Len(tasks') <= MaxTasks /\ DOMAIN tasks' = DOMAIN tasks
    BY DEF Settles, CloseoutsInv, DataOK
  <2>2. \A z \in DOMAIN steps' : steps'[z].task \in DOMAIN tasks'
    BY <1>1, <2>1 DEF CloseoutsInv, DataOK
  <2> QED
    BY <1>3, <2>1, <2>2 DEF CloseoutsInv, DataOK
<1> QED
  BY <1>4, <1>5, <1>6 DEF CloseoutsInv

LEMMA TaskNumber ==
  ASSUME DataOK, NEW event, RoomFor(tasks, event)
  PROVE  TaskOf(tasks, event) \in 1 .. MaxTasks
<1>1. tasks \in Seq(Tasks)
  BY DEF DataOK
<1> PICK n : n = TaskOf(tasks, event)
  OBVIOUS
<1>2. n \in Nat \ {0}
  BY <1>1, TaskOfAnEvent
<1> QED
  BY <1>2, CloseoutsAssumption DEF RoomFor

LEMMA OweStepKeeps ==
  ASSUME CloseoutsInv, NEW c \in DOMAIN closeouts, NEW kind \in StepKinds, NEW probe \in Probes,
         OweStep(c, kind, probe.source, probe.warning)
  PROVE  CloseoutsInv'
<1>0. PICK s : s = Len(steps) + 1
  OBVIOUS
<1>01. PICK step : step =
      [closeout |-> c, kind |-> kind, state |-> "owed", source |-> probe.source,
       resolved |-> FALSE, warning |-> probe.warning, task |-> NoTask]
  OBVIOUS
<1> PICK event : event = StepEvent(s, step)
  OBVIOUS
<1> PICK n : n = TaskOf(tasks, event)
  OBVIOUS
<1> PICK r : r = [step EXCEPT !.task = n]
  OBVIOUS
<1>1. /\ RoomFor(tasks, event) /\ tasks' = Upserted(tasks, event)
      /\ steps' = Append(steps, r)
      /\ closeouts' = IF closeouts[c].state \in {"triaged", "flagged_active"}
                      THEN [closeouts EXCEPT ![c].state = "in_remediation"] ELSE closeouts
  BY <1>0, <1>01 DEF OweStep
<1>2. /\ steps \in Seq(StepRecords(DOMAIN closeouts)) /\ closeouts \in Seq(CloseoutRecords)
      /\ DataOK /\ closeouts[c] \in CloseoutRecords
  BY RecordsAreTyped DEF CloseoutsInv, DataOK
<1>3. DOMAIN steps = 1 .. Len(steps) /\ Len(steps) \in Nat /\ s \in Nat
  BY <1>0, <1>2, LenProperties
<1>4. "owed" \in StepStates /\ "owed" \notin TerminalStepStates
  BY DEF StepStates, AllowedStepTransitions, TerminalStepStates
<1>5. probe.source \in Sources /\ probe.warning \in BOOLEAN
  BY CloseoutsAssumption
<1>6. step \in [closeout : DOMAIN closeouts, kind : StepKinds, state : StepStates,
                source : Sources, resolved : BOOLEAN, warning : BOOLEAN, task : Nat]
  BY <1>01, <1>4, <1>5 DEF NoTask
<1>7. /\ event \in Tasks /\ event.state = "open" /\ event.type = RunbookStep
      /\ event.about = s /\ ~event.gate
  <2>1. DataOK /\ s \in Nat
    BY <1>2, <1>3
  <2> QED
    BY <2>1, <1>6, StepEventIs
<1>8. n \in 1 .. MaxTasks
  BY <1>1, <1>2, TaskNumber
<1>9. r \in StepRecords(DOMAIN closeouts) /\ r.task = n /\ r.state = "owed"
  BY <1>01, <1>6, <1>8 DEF StepRecords
<1>10. /\ steps' \in Seq(StepRecords(DOMAIN closeouts)) /\ Len(steps') = s /\ steps'[s] = r
       /\ \A z \in 1 .. Len(steps) : steps'[z] = steps[z]
  BY <1>0, <1>1, <1>2, <1>9, AppendProperties
<1>11. DOMAIN steps' = 1 .. s
  BY <1>10, LenProperties
<1>12. DOMAIN steps' = DOMAIN steps \cup {s}
  BY <1>0, <1>3, <1>11
<1>13. n <= MaxTasks
  BY <1>8, CloseoutsAssumption
<1>14. /\ closeouts' \in Seq(CloseoutRecords) /\ DOMAIN closeouts' = DOMAIN closeouts
       /\ \A d \in DOMAIN closeouts :
            /\ closeouts'[d].followup = closeouts[d].followup
            /\ closeouts'[d].owed = closeouts[d].owed
       /\ FollowupsStay
  <2>1. CASE closeouts[c].state \in {"triaged", "flagged_active"}
    <3> PICK m : m = [closeouts[c] EXCEPT !.state = "in_remediation"]
      OBVIOUS
    <3>1. closeouts' = [closeouts EXCEPT ![c] = m]
      BY <1>1, <2>1
    <3>2. /\ m \in CloseoutRecords /\ m.state = "in_remediation"
          /\ m.followup = closeouts[c].followup /\ m.owed = closeouts[c].owed
      BY <1>2 DEF CloseoutRecords, CloseoutStates, AllowedCloseoutTransitions
    <3>3. closeouts' \in Seq(CloseoutRecords)
      BY <1>2, <3>1, <3>2, UpdatingASequence
    <3>4. /\ DOMAIN closeouts' = DOMAIN closeouts
          /\ \A d \in DOMAIN closeouts : closeouts'[d] = IF d = c THEN m ELSE closeouts[d]
      BY <3>1
    <3> QED
      BY <3>2, <3>3, <3>4 DEF FollowupsStay
  <2>2. CASE closeouts[c].state \notin {"triaged", "flagged_active"}
    <3>1. closeouts' = closeouts
      BY <1>1, <2>2
    <3> QED
      BY <1>2, <3>1 DEF FollowupsStay
  <2> QED
    BY <2>1, <2>2
<1>15. \A z \in DOMAIN steps : steps'[z] = steps[z]
  BY <1>3, <1>10
<1>16. steps'[s].task = n /\ steps'[s].state \notin TerminalStepStates
  BY <1>4, <1>9, <1>10
<1> QED
  BY <1>1, <1>3, <1>7, <1>10, <1>12, <1>13, <1>14, <1>15, <1>16, MaterializingKeeps

\* What the routes of a step change of it before they move it: what was observed.
Looked(s, m) ==
  /\ m \in StepRecords(DOMAIN closeouts)
  /\ m.closeout = steps[s].closeout /\ m.state = steps[s].state /\ m.task = steps[s].task

LEMMA MoveStepKeeps ==
  ASSUME CloseoutsInv, NEW s \in DOMAIN steps, NEW m, Looked(s, m),
         NEW target \in StepStates, MoveStep(s, m, target), closeouts' = closeouts
  PROVE  CloseoutsInv'
<1> PICK moved : moved = [m EXCEPT !.state = target]
  OBVIOUS
<1>1. m \in StepRecords(DOMAIN closeouts)
  BY DEF Looked
<1>2. /\ moved \in StepRecords(DOMAIN closeouts) /\ moved.state = target
      /\ moved.task = steps[s].task
  BY <1>1 DEF Looked, StepRecords
<1>3. /\ steps \in Seq(StepRecords(DOMAIN closeouts)) /\ closeouts \in Seq(CloseoutRecords)
      /\ DataOK /\ tasks \in Seq(Tasks)
  BY DEF CloseoutsInv, DataOK
<1>4. CASE /\ target \notin TerminalStepStates
           /\ RoomFor(tasks, StepEvent(s, moved))
           /\ tasks' = Upserted(tasks, StepEvent(s, moved))
           /\ steps' = [steps EXCEPT ![s] =
                [moved EXCEPT !.task = TaskOf(tasks, StepEvent(s, moved))]]
  <2> PICK event : event = StepEvent(s, moved)
    OBVIOUS
  <2> PICK n : n = TaskOf(tasks, event)
    OBVIOUS
  <2> PICK r : r = [moved EXCEPT !.task = n]
    OBVIOUS
  <2>1. /\ RoomFor(tasks, event) /\ tasks' = Upserted(tasks, event)
        /\ steps' = [steps EXCEPT ![s] = r]
    BY <1>4
  <2>2. s \in Nat
    BY <1>3, LenProperties
  <2>3. moved \in [closeout : DOMAIN closeouts, kind : StepKinds, state : StepStates,
                   source : Sources, resolved : BOOLEAN, warning : BOOLEAN, task : Nat]
    BY <1>2 DEF StepRecords
  <2>4. /\ event \in Tasks /\ event.state = "open" /\ event.type = RunbookStep
        /\ event.about = s /\ ~event.gate
    BY <1>3, <2>2, <2>3, StepEventIs
  <2>5. n \in 1 .. MaxTasks
    BY <1>3, <2>1, TaskNumber
  <2>6. r \in StepRecords(DOMAIN closeouts) /\ r.task = n /\ r.state = target
    BY <1>2, <2>5 DEF StepRecords
  <2>7. steps' \in Seq(StepRecords(DOMAIN closeouts))
    BY <1>3, <2>1, <2>6, UpdatingASequence
  <2>8. /\ DOMAIN steps' = DOMAIN steps \cup {s} /\ steps'[s] = r
        /\ \A z \in DOMAIN steps : z # s => steps'[z] = steps[z]
    BY <2>1
  <2>9. n <= MaxTasks
    BY <2>5, CloseoutsAssumption
  <2>10. FollowupsStay
    BY DEF FollowupsStay
  <2>11. steps'[s].task = n /\ steps'[s].state \notin TerminalStepStates
    BY <1>4, <2>6, <2>8
  <2> QED
    BY <1>3, <2>1, <2>2, <2>4, <2>7, <2>8, <2>9, <2>10, <2>11, MaterializingKeeps
<1>5. CASE /\ target \in TerminalStepStates
           /\ steps' = [steps EXCEPT ![s] = moved]
           /\ tasks' = TaskMoved(tasks, m.task,
                                 IF target = "done" THEN "completed" ELSE "dismissed")
  <2> PICK t : t = steps[s].task
    OBVIOUS
  <2> PICK ending : ending = IF target = "done" THEN "completed" ELSE "dismissed"
    OBVIOUS
  <2>1. tasks' = TaskMoved(tasks, t, ending)
    BY <1>5 DEF Looked
  <2>2. ending \in TaskStates /\ ending \in TerminalTaskStates
    BY DEF TaskStates, AllowedTaskTransitions, TerminalTaskStates
  <2>3. t \in DOMAIN tasks
    BY <1>3 DEF DataOK
  <2>4. Settles(tasks, tasks') /\ (~tasks[t].gate => t \notin ActiveTasks(tasks'))
    BY <1>3, <2>1, <2>2, <2>3, MovingSettles
  <2>5. tasks[t].type = RunbookStep => ~tasks[t].gate
    BY <2>3 DEF CloseoutsInv, TasksAreShaped
  <2> QED
    BY <1>2, <1>5, <2>4, <2>5, RewritingAStepKeeps
<1> QED
  BY <1>4, <1>5 DEF MoveStep

LEMMA TransitionStepKeeps ==
  ASSUME CloseoutsInv, NEW s \in DOMAIN steps, NEW evidence, NEW target \in StepStates,
         TransitionStep(s, target, evidence)
  PROVE  CloseoutsInv'
<1> PICK m : m = steps[s]
  OBVIOUS
<1>1. Looked(s, m)
  BY RecordsAreTyped DEF CloseoutsInv, Looked
<1>2. MoveStep(s, m, target) /\ closeouts' = closeouts
  BY DEF TransitionStep
<1> QED
  BY <1>1, <1>2, MoveStepKeeps

LEMMA ReportStepKeeps ==
  ASSUME CloseoutsInv, NEW s \in DOMAIN steps, NEW evidence,
         NEW target \in {"in_progress", "done"}, NEW probe \in Probes, NEW resolved \in BOOLEAN,
         ReportStep(s, target, evidence, probe.source, resolved, probe.warning)
  PROVE  CloseoutsInv'
<1> PICK seen : seen = [steps[s] EXCEPT !.source = probe.source, !.resolved = resolved,
                                        !.warning = probe.warning]
  OBVIOUS
<1>1. steps[s] \in StepRecords(DOMAIN closeouts)
  BY RecordsAreTyped DEF CloseoutsInv
<1>2. probe.source \in Sources /\ probe.warning \in BOOLEAN
  BY CloseoutsAssumption
<1>3. /\ seen \in StepRecords(DOMAIN closeouts) /\ seen.closeout = steps[s].closeout
      /\ seen.state = steps[s].state /\ seen.task = steps[s].task
  BY <1>1, <1>2 DEF StepRecords
<1>4. target \in StepStates
  BY DEF StepStates, AllowedStepTransitions
<1>5. closeouts' = closeouts
  BY DEF ReportStep
<1>6. \/ MoveStep(s, seen, target)
      \/ steps' = [steps EXCEPT ![s] = seen] /\ tasks' = tasks
  BY DEF ReportStep
<1>7. CASE MoveStep(s, seen, target)
  <2>1. Looked(s, seen)
    BY <1>3 DEF Looked
  <2> QED
    BY <1>4, <1>5, <1>7, <2>1, MoveStepKeeps
<1>8. CASE steps' = [steps EXCEPT ![s] = seen] /\ tasks' = tasks
  <2>1. Settles(tasks, tasks')
    BY <1>8, UnchangedSettles DEF CloseoutsInv
  <2> QED
    BY <1>3, <1>5, <1>8, <2>1, RewritingAStepKeeps
<1> QED
  BY <1>6, <1>7, <1>8

-----------------------------------------------------------------------------
LEMMA CloseoutsStart == CloseoutsInit => CloseoutsInv
<1> SUFFICES ASSUME CloseoutsInit PROVE CloseoutsInv
  OBVIOUS
<1>1. DOMAIN tasks = {} /\ DOMAIN closeouts = {} /\ DOMAIN steps = {} /\ Len(tasks) = 0
  BY DEF CloseoutsInit
<1>2. ActiveTasks(tasks) = {}
  BY <1>1 DEF ActiveTasks
<1>3. /\ tasks \in Seq(Tasks) /\ closeouts \in Seq(CloseoutRecords)
      /\ steps \in Seq(StepRecords(DOMAIN closeouts))
  BY DEF CloseoutsInit
<1>4. DataOK
  BY <1>1, <1>3, CloseoutsAssumption DEF DataOK
<1> QED
  BY <1>1, <1>2, <1>4
     DEF CloseoutsInv, TasksAreShaped, KeysDiffer, FollowupsFit, StepsFit, PeersAreRaised

LEMMA CloseoutsNextKeeps ==
  ASSUME CloseoutsInv, [CloseoutsNext]_closeoutVars PROVE CloseoutsInv'
<1>1. ASSUME NEW i \in Correlations, NEW severity \in CloseoutLevels, NEW flag \in Flags,
             NEW probe \in Probes, Detect(i, severity, flag, probe.source, probe.warning)
      PROVE  CloseoutsInv'
  BY <1>1, DetectKeeps
<1>2. ASSUME NEW c \in DOMAIN closeouts, NEW target \in CloseoutStates, Transition(c, target)
      PROVE  CloseoutsInv'
  BY <1>2, TransitionKeeps
<1>3. ASSUME NEW c \in DOMAIN closeouts, NEW flag \in Flags, ObserveFlag(c, flag)
      PROVE  CloseoutsInv'
  BY <1>3, ObserveFlagKeeps
<1>4. ASSUME NEW c \in DOMAIN closeouts, NEW kind \in StepKinds, NEW probe \in Probes,
             OweStep(c, kind, probe.source, probe.warning)
      PROVE  CloseoutsInv'
  BY <1>4, OweStepKeeps
<1>5. ASSUME NEW s \in DOMAIN steps, NEW evidence \in BOOLEAN, NEW target \in StepStates,
             TransitionStep(s, target, evidence)
      PROVE  CloseoutsInv'
  BY <1>5, TransitionStepKeeps
<1>6. ASSUME NEW s \in DOMAIN steps, NEW evidence \in BOOLEAN,
             NEW target \in {"in_progress", "done"}, NEW probe \in Probes,
             NEW resolved \in BOOLEAN,
             ReportStep(s, target, evidence, probe.source, resolved, probe.warning)
      PROVE  CloseoutsInv'
  BY <1>6, ReportStepKeeps
<1>7. ASSUME NEW event \in QueueEvents, Intake(event), UNCHANGED <<closeouts, steps>>
      PROVE  CloseoutsInv'
  BY <1>7, IntakeKeeps
<1>8. ASSUME NEW t \in DOMAIN tasks, NEW target \in Judgments, Judge(t, target),
             UNCHANGED <<closeouts, steps>>
      PROVE  CloseoutsInv'
  BY <1>8, JudgeKeeps
<1>9. CASE UNCHANGED closeoutVars
  BY <1>9 DEF closeoutVars, CloseoutsInv, DataOK, TasksAreShaped, KeysDiffer, FollowupsFit,
              StepsFit, PeersAreRaised, ActiveTasks
<1> QED
  BY <1>1, <1>2, <1>3, <1>4, <1>5, <1>6, <1>7, <1>8, <1>9 DEF CloseoutsNext

(***************************************************************************)
(* The invariant the rest follows from: the keys of active tasks differ    *)
(* (p23/services.py _ACTIVE_DEDUP), and every task fits its record.        *)
(***************************************************************************)
THEOREM CloseoutsInvariant == CloseoutsSpec => []CloseoutsInv
BY CloseoutsStart, CloseoutsNextKeeps, PTL DEF CloseoutsSpec

(***************************************************************************)
(* Every task, closeout and step is a record of its type, every step is    *)
(* linked to a task of the queue, and so is every follow-up that was ever  *)
(* materialized (p23/services.py _StoredTask; p24/services.py              *)
(* _StoredCloseout, _StoredStep).                                          *)
(***************************************************************************)
THEOREM CloseoutsAreTyped == CloseoutsSpec => []CloseoutsTypeOK
<1>1. CloseoutsInv => CloseoutsTypeOK
  <2> SUFFICES ASSUME DataOK PROVE CloseoutsTypeOK
    BY DEF CloseoutsInv
  <2>1. /\ tasks \in Seq(Tasks) /\ Len(tasks) <= MaxTasks
        /\ \A s \in DOMAIN steps : steps[s].task \in DOMAIN tasks
        /\ \A c \in DOMAIN closeouts :
             closeouts[c].followup # NoTask => closeouts[c].followup \in DOMAIN tasks
    BY DEF DataOK
  <2>2. closeouts \in Seq([incident : Correlations, state : CloseoutStates, flag : Flags,
                           flagEverSet : BOOLEAN, severity : Severities, source : Sources,
                           warning : BOOLEAN, followup : 0 .. MaxTasks, owed : BOOLEAN])
    BY DEF DataOK, CloseoutRecords
  <2>3. steps \in Seq([closeout : DOMAIN closeouts, kind : StepKinds, state : StepStates,
                       source : Sources, resolved : BOOLEAN, warning : BOOLEAN,
                       task : 1 .. MaxTasks])
    BY DEF DataOK, StepRecords
  <2> QED
    BY <2>1, <2>2, <2>3 DEF CloseoutsTypeOK
<1> QED
  BY <1>1, CloseoutsInvariant, PTL

(***************************************************************************)
(* Among the active tasks of a correlation none is low beside a high one,  *)
(* and all are high beside one that forces it, whichever event came first  *)
(* (p23/services.py _severity_for and _rerank_correlation).                *)
(***************************************************************************)
THEOREM PeersAreAlwaysRaised == CloseoutsSpec => []PeersAreRaised
<1>1. CloseoutsInv => PeersAreRaised
  BY DEF CloseoutsInv
<1> QED
  BY <1>1, CloseoutsInvariant, PTL

\* What TasksFollowTheirRecords says of a task, from the two parts of the invariant.
LEMMA TasksFollow == CloseoutsInv => TasksFollowTheirRecords
<1> SUFFICES ASSUME CloseoutsInv, NEW t \in ActiveTasks(tasks)
             PROVE  /\ tasks[t].type = Followup =>
                         /\ closeouts[tasks[t].about].owed
                         /\ closeouts[tasks[t].about].followup = t
                         /\ closeouts[tasks[t].about].state
                              \in {"flagged_active", "in_remediation"}
                    /\ tasks[t].type = RunbookStep =>
                         IF t \in Orphans
                         THEN tasks[t].source # tasks[steps[tasks[t].about].task].source
                         ELSE steps[tasks[t].about].state \notin TerminalStepStates
  BY DEF TasksFollowTheirRecords, Followup, RunbookStep
<1>1. tasks[t].type = RunbookStep =>
        (t \in Orphans <=> steps[tasks[t].about].task # t)
  BY DEF Orphans, RunbookStep
<1> QED
  BY <1>1 DEF CloseoutsInv, FollowupsFit, StepsFit

(***************************************************************************)
(* The queue and the closeouts tell one story: an active follow-up is the  *)
(* one its closeout owes, and an active step task belongs to an active     *)
(* step or is an orphan of another source                                  *)
(* (p24/services.py _resolve_followup_task and _resolve_step_task).        *)
(***************************************************************************)
THEOREM TasksAlwaysFollow == CloseoutsSpec => []TasksFollowTheirRecords
BY TasksFollow, CloseoutsInvariant, PTL

\* A closeout is closed by one route alone, and only when no step of it is active.
LEMMA ClosingIsGated ==
  ASSUME CloseoutsInv, CloseoutsNext, NEW c \in DOMAIN closeouts,
         closeouts[c].state # "closed", closeouts'[c].state = "closed"
  PROVE  steps' = steps /\ ActiveSteps(c) = {}
<1>1. /\ closeouts \in Seq(CloseoutRecords)
      /\ \A d \in DOMAIN closeouts : closeouts[d] \in CloseoutRecords
  BY RecordsAreTyped DEF CloseoutsInv, DataOK
<1>2. DOMAIN closeouts = 1 .. Len(closeouts)
  BY <1>1, LenProperties
<1>3. closeouts' # closeouts
  OBVIOUS
\* Whatever Advance does, it leaves a closeout in the state asked for, and the others alone.
<1>4. ASSUME NEW d \in DOMAIN closeouts, NEW m \in CloseoutRecords, NEW target,
             Advance(d, m, target)
      PROVE  /\ d # c => closeouts'[c] = closeouts[c]
             /\ d = c => closeouts'[c].state = target
  <2> PICK moved : moved = [m EXCEPT !.state = target]
    OBVIOUS
  <2>1. moved.state = target
    BY DEF CloseoutRecords
  <2>2. \/ \E n : closeouts' = [closeouts EXCEPT ![d] =
                      [moved EXCEPT !.followup = n, !.owed = TRUE]]
        \/ closeouts' = [closeouts EXCEPT ![d] = [moved EXCEPT !.owed = FALSE]]
        \/ closeouts' = [closeouts EXCEPT ![d] = moved]
    BY <1>4 DEF Advance, OweFollowup, ResolveFollowup
  <2>3. \E r : closeouts' = [closeouts EXCEPT ![d] = r] /\ r.state = target
    BY <2>1, <2>2, ZenonT(40) DEF CloseoutRecords
  <2> QED
    BY <2>3
<1>5. ASSUME NEW i \in Correlations, NEW severity, NEW flag, NEW source, NEW warning,
             Detect(i, severity, flag, source, warning)
      PROVE  FALSE
  BY <1>2, <1>5, AppendProperties DEF Detect
<1>6. ASSUME NEW d \in DOMAIN closeouts, NEW target \in CloseoutStates, Transition(d, target)
      PROVE  steps' = steps /\ ActiveSteps(c) = {}
  <2>1. d = c /\ target = "closed"
    BY <1>1, <1>4, <1>6 DEF Transition
  <2> QED
    BY <1>6, <2>1 DEF Transition, Permitted
<1>7. ASSUME NEW d \in DOMAIN closeouts, NEW flag \in Flags, ObserveFlag(d, flag)
      PROVE  FALSE
  <2> PICK seen : seen = [closeouts[d] EXCEPT !.flag = flag,
                                              !.flagEverSet = @ \/ flag = "observed_true"]
    OBVIOUS
  <2>1. seen \in CloseoutRecords /\ seen.state = closeouts[d].state
    BY <1>1 DEF CloseoutRecords
  <2>2. \/ \E target \in {"flagged_active", "awaiting_closeout"} : Advance(d, seen, target)
        \/ closeouts' = [closeouts EXCEPT ![d] = seen]
    BY <1>7 DEF ObserveFlag
  <2> QED
    BY <1>4, <2>1, <2>2
<1>8. ASSUME NEW d \in DOMAIN closeouts, NEW kind, NEW source, NEW warning,
             OweStep(d, kind, source, warning)
      PROVE  FALSE
  <2>1. \/ closeouts' = [closeouts EXCEPT ![d].state = "in_remediation"]
        \/ closeouts' = closeouts
    BY <1>8 DEF OweStep
  <2> QED
    BY <1>1, <2>1 DEF CloseoutRecords
<1>9. ASSUME NEW s, NEW target, NEW evidence, TransitionStep(s, target, evidence)
      PROVE  FALSE
  BY <1>3, <1>9 DEF TransitionStep
<1>10. ASSUME NEW s, NEW target, NEW evidence, NEW source, NEW resolved, NEW warning,
              ReportStep(s, target, evidence, source, resolved, warning)
       PROVE  FALSE
  BY <1>3, <1>10 DEF ReportStep
<1> QED
  BY <1>3, <1>5, <1>6, <1>7, <1>8, <1>9, <1>10 DEF CloseoutsNext

LEMMA ClosingLeaves ==
  ASSUME CloseoutsInv, CloseoutsInv', CloseoutsNext, NEW c \in DOMAIN closeouts,
         closeouts[c].state # "closed", closeouts'[c].state = "closed"
  PROVE  TasksOf(c)' \subseteq Orphans'
<1> SUFFICES ASSUME NEW t \in TasksOf(c)' PROVE t \in Orphans'
  OBVIOUS
<1>1. t \in ActiveTasks(tasks)'
  BY DEF TasksOf
<1>2. ~(tasks'[t].type = Followup /\ tasks'[t].about = c)
  BY <1>1 DEF CloseoutsInv, FollowupsFit
<1>3. tasks'[t].type = RunbookStep /\ steps'[tasks'[t].about].closeout = c
  BY <1>2 DEF TasksOf, Followup, RunbookStep
<1>4. t \in DOMAIN tasks'
  BY <1>1 DEF ActiveTasks
<1>5. tasks'[t].about \in DOMAIN steps'
  BY <1>3, <1>4 DEF CloseoutsInv, TasksAreShaped
<1>6. steps'[tasks'[t].about].state \in TerminalStepStates
  BY <1>3, <1>5, ClosingIsGated DEF ActiveSteps
<1>7. steps'[tasks'[t].about].task # t
  BY <1>1, <1>3, <1>6 DEF CloseoutsInv, StepsFit
<1> QED
  BY <1>1, <1>3, <1>7 DEF Orphans, RunbookStep

(***************************************************************************)
(* When a closeout closes, the only tasks it leaves in the queue are       *)
(* orphans of its steps: its follow-up and the tasks its steps are linked  *)
(* to are over (p24/services.py _transition_closeout and its close gate).  *)
(***************************************************************************)
THEOREM ClosedLeavesOnlyOrphans == CloseoutsSpec => ClosingLeavesOnlyOrphans
<1>1. CloseoutsInv /\ CloseoutsInv' /\ [CloseoutsNext]_closeoutVars
        => [\A c \in DOMAIN closeouts :
              closeouts[c].state # "closed" /\ closeouts'[c].state = "closed"
                => TasksOf(c)' \subseteq Orphans']_closeoutVars
  BY ClosingLeaves
<1> QED
  BY <1>1, CloseoutsInvariant, PTL DEF CloseoutsSpec, ClosingLeavesOnlyOrphans
=============================================================================
