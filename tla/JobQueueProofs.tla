--------------------------- MODULE JobQueueProofs ---------------------------
(***************************************************************************)
(* A job has one record and a bounded number of attempts, for any number   *)
(* of jobs, workers and faults.  Both rest on one invariant: a row that    *)
(* does not exist has no record anywhere, a record that is not being run   *)
(* may still be started, and an idle worker holds no job.  Exports are     *)
(* jobs of the queue, so what is proved of jobs holds of them.             *)
(***************************************************************************)
EXTENDS Exports, FiniteSetTheorems, TLAPS

TaskData == [stage : Stages, job : Jobs \cup {NoJob}]

\* The part of QueueTypeOK the records depend on.
DataOK ==
  /\ row \in [Jobs -> Statuses]
  /\ attempts \in [Jobs -> Nat]
  /\ arriving \subseteq Jobs
  /\ queue \in Seq(Jobs)
  /\ task \in [Workers -> TaskData]

IdleHoldsNothing ==
  \A w \in Workers : task[w].stage \in {"waiting", "stopped"} <=> task[w].job = NoJob

UnknownIsNowhere ==
  \A j \in Jobs : row[j] = "none" =>
    /\ attempts[j] = 0
    /\ j \notin arriving
    /\ ~Queued(j)
    /\ \A w \in Workers : task[w].job # j

\* The number of attempts of a job that will be marked running once more.
MayStart(j) == attempts[j] = 0 \/ MayRetry(j)

RecordsMayStart ==
  /\ \A j \in Jobs : j \in arriving \/ Queued(j) => MayStart(j)
  /\ \A w \in Workers : At(w, "starting") => MayStart(task[w].job)

RecordInv ==
  /\ DataOK
  /\ IdleHoldsNothing
  /\ UnknownIsNowhere
  /\ OneRecord
  /\ RecordsMayStart
  /\ AttemptsBounded

LEMMA RecordInit == QueueInit => RecordInv
<1> SUFFICES ASSUME QueueInit PROVE RecordInv
  OBVIOUS
<1>1. DataOK
  BY DEF QueueInit, FreshMemory, DataOK, TaskData, Statuses, Stages, Waiting, Task
<1>2. queue = <<>> /\ arriving = {} /\ \A w \in Workers : task[w] = Waiting
  BY DEF QueueInit, FreshMemory
<1>3. \A j \in Jobs : ~Queued(j)
  BY <1>2 DEF Queued
<1>4. \A w \in Workers : task[w].job = NoJob /\ task[w].stage = "waiting"
  BY <1>2 DEF Waiting, Task
<1>5. \A j \in Jobs : j # NoJob
  BY QueueAssumption
<1> QED
  BY <1>1, <1>2, <1>3, <1>4, <1>5
     DEF QueueInit, RecordInv, IdleHoldsNothing, UnknownIsNowhere, OneRecord, RecordsMayStart,
         AttemptsBounded, Runs, At

-----------------------------------------------------------------------------
(***************************************************************************)
(* A worker goes on with its job, or lets go of it.                        *)
(***************************************************************************)
LEMMA WorkerGoesOn ==
  ASSUME RecordInv,
         NEW w \in Workers, task[w].job \in Jobs,
         NEW t \in TaskData,
         \/ t.stage \in {"waiting", "stopped"} /\ t.job = NoJob
         \/ /\ t.stage \in {"handling", "completing", "failing", "leaving"}
            /\ t.job = task[w].job
            /\ ~At(w, "leaving"),
         task' = [task EXCEPT ![w] = t],
         row' \in [Jobs -> Statuses],
         \A j \in Jobs : row'[j] = "none" => row[j] = "none",
         UNCHANGED <<attempts, arriving, queue>>
  PROVE  RecordInv'
<1>1. DataOK'
  BY DEF RecordInv, DataOK
<1>2. task'[w] = t /\ \A v \in Workers \ {w} : task'[v] = task[v]
  BY DEF RecordInv, DataOK
<1>3. IdleHoldsNothing'
  BY <1>2, QueueAssumption DEF RecordInv, IdleHoldsNothing
<1>4. \A j \in Jobs : Queued(j)' <=> Queued(j)
  BY DEF Queued
<1>5. \A j \in Jobs, v \in Workers : Runs(v, j)' => Runs(v, j)
  BY <1>2, QueueAssumption DEF Runs, At
<1>6. \A j \in Jobs, v \in Workers : task'[v].job = j => task[v].job = j
  BY <1>2, QueueAssumption
<1>7. UnknownIsNowhere'
  BY <1>4, <1>6 DEF RecordInv, UnknownIsNowhere
<1>8. OneRecord'
  <2>1. \A h, i \in DOMAIN queue' : queue'[h] = queue'[i] => h = i
    BY DEF RecordInv, OneRecord
  <2>2. \A j \in Jobs : ~(j \in arriving' /\ Queued(j)')
    BY <1>4 DEF RecordInv, OneRecord
  <2>3. ASSUME NEW j \in Jobs, NEW v \in Workers, Runs(v, j)'
        PROVE  ~Queued(j)' /\ j \notin arriving' /\ \A u \in Workers : Runs(u, j)' => v = u
    BY <2>3, <1>4, <1>5 DEF RecordInv, OneRecord
  <2> QED
    BY <2>1, <2>2, <2>3 DEF OneRecord
<1>9. RecordsMayStart'
  <2>1. \A j \in Jobs : MayStart(j)' <=> MayStart(j)
    BY DEF MayStart, MayRetry
  <2>2. \A v \in Workers : At(v, "starting")' =>
          At(v, "starting") /\ task'[v] = task[v] /\ task[v].job \in Jobs
    BY <1>2 DEF RecordInv, DataOK, TaskData, IdleHoldsNothing, At
  <2> QED
    BY <2>1, <2>2, <1>4 DEF RecordInv, RecordsMayStart
<1> QED
  BY <1>1, <1>3, <1>7, <1>8, <1>9 DEF RecordInv, AttemptsBounded

\* A step of no worker that leaves the records alone.
LEMMA RecordsUntouched ==
  ASSUME RecordInv, UNCHANGED <<row, attempts, arriving, queue, task>>
  PROVE  RecordInv'
BY DEF RecordInv, DataOK, IdleHoldsNothing, UnknownIsNowhere, OneRecord, RecordsMayStart,
       AttemptsBounded, Queued, Runs, At, MayStart, MayRetry

\* Records are only forgotten, and no worker runs: the end of a process and a new one.
LEMMA RecordsForgotten ==
  ASSUME RecordInv,
         UNCHANGED <<row, attempts>>,
         arriving' \subseteq arriving,
         queue' = queue \/ queue' = <<>>,
         NEW t \in {Waiting, Stopped},
         task' = [w \in Workers |-> t]
  PROVE  RecordInv'
<1>1. \A w \in Workers : task'[w].job = NoJob /\ task'[w].stage \in {"waiting", "stopped"}
  BY DEF Waiting, Stopped, Task
<1>2. DataOK'
  <2>1. t \in TaskData
    BY DEF Waiting, Stopped, Task, TaskData, Stages
  <2>2. <<>> \in Seq(Jobs) /\ queue \in Seq(Jobs)
    BY DEF RecordInv, DataOK
  <2> QED
    BY <2>1, <2>2 DEF RecordInv, DataOK
<1>3. \A j \in Jobs : Queued(j)' => Queued(j)
  BY DEF Queued
<1>4. \A h, i \in DOMAIN queue' : queue'[h] = queue'[i] => h = i
  BY DEF RecordInv, OneRecord
<1>5. \A j \in Jobs : j # NoJob
  BY QueueAssumption
<1>6. OneRecord'
  BY <1>1, <1>3, <1>4, <1>5 DEF RecordInv, OneRecord, Runs
<1>7. IdleHoldsNothing' /\ UnknownIsNowhere' /\ RecordsMayStart' /\ AttemptsBounded'
  BY <1>1, <1>3, <1>5
     DEF RecordInv, IdleHoldsNothing, UnknownIsNowhere, RecordsMayStart, AttemptsBounded, At,
         MayStart, MayRetry
<1> QED
  BY <1>2, <1>6, <1>7 DEF RecordInv

-----------------------------------------------------------------------------
\* The steps that move or count a record

LEMMA CommitRowInv ==
  ASSUME RecordInv, NEW j \in Jobs, CommitRow(j)
  PROVE  RecordInv'
<1>1. /\ row[j] = "none"
      /\ row' = [row EXCEPT ![j] = "pending"]
      /\ arriving' = arriving \cup {j}
      /\ UNCHANGED <<attempts, queue, task>>
  BY DEF CommitRow, Write
<1>2. attempts[j] = 0 /\ ~Queued(j) /\ \A w \in Workers : task[w].job # j
  BY <1>1 DEF RecordInv, UnknownIsNowhere
<1>3. DataOK'
  BY <1>1 DEF RecordInv, DataOK, Statuses
<1>4. \A i \in Jobs : row'[i] = "none" => row[i] = "none" /\ i # j
  BY <1>1 DEF RecordInv, DataOK
<1>5. /\ \A i \in Jobs : Queued(i)' <=> Queued(i)
      /\ \A i \in Jobs : MayStart(i)' <=> MayStart(i)
      /\ \A i \in Jobs, w \in Workers : Runs(w, i)' <=> Runs(w, i)
      /\ \A w \in Workers : At(w, "starting")' <=> At(w, "starting")
  BY <1>1 DEF Queued, MayStart, MayRetry, Runs, At
<1>6. UnknownIsNowhere'
  BY <1>1, <1>4, <1>5 DEF RecordInv, UnknownIsNowhere
<1>7. OneRecord'
  BY <1>1, <1>2, <1>5 DEF RecordInv, OneRecord, Runs
<1>8. RecordsMayStart'
  <2>1. \A w \in Workers : At(w, "starting") => task[w].job \in Jobs
    BY DEF RecordInv, DataOK, TaskData, IdleHoldsNothing, At
  <2> QED
    BY <2>1, <1>1, <1>2, <1>5 DEF RecordInv, RecordsMayStart, MayStart
<1>9. IdleHoldsNothing' /\ AttemptsBounded'
  BY <1>1 DEF RecordInv, IdleHoldsNothing, AttemptsBounded
<1> QED
  BY <1>3, <1>6, <1>7, <1>8, <1>9 DEF RecordInv

\* What an appended record adds to the queue.
LEMMA Appended ==
  ASSUME queue \in Seq(Jobs), NEW j \in Jobs, queue' = Append(queue, j)
  PROVE  /\ queue' \in Seq(Jobs)
         /\ \A i \in Jobs : Queued(i)' <=> Queued(i) \/ i = j
         /\ ~Queued(j) /\ (\A h, i \in DOMAIN queue : queue[h] = queue[i] => h = i) =>
              \A h, i \in DOMAIN queue' : queue'[h] = queue'[i] => h = i
<1>1. queue' \in Seq(Jobs)
  OBVIOUS
<1>2. /\ DOMAIN queue = 1 .. Len(queue) /\ Len(queue) \in Nat
      /\ DOMAIN queue' = 1 .. Len(queue) + 1
      /\ queue'[Len(queue) + 1] = j
      /\ \A i \in 1 .. Len(queue) : queue'[i] = queue[i]
  OBVIOUS
<1>3. \A i \in 1 .. Len(queue) + 1 : i \in 1 .. Len(queue) \/ i = Len(queue) + 1
  BY <1>2
<1>4. ASSUME NEW i \in Jobs PROVE Queued(i)' <=> Queued(i) \/ i = j
  <2>1. Queued(i) => Queued(i)'
    BY <1>2 DEF Queued
  <2>2. Queued(j)'
    BY <1>2 DEF Queued
  <2>3. Queued(i)' => Queued(i) \/ i = j
    BY <1>2, <1>3 DEF Queued
  <2> QED
    BY <2>1, <2>2, <2>3
<1>5. ASSUME ~Queued(j), \A h, i \in DOMAIN queue : queue[h] = queue[i] => h = i,
             NEW h \in DOMAIN queue', NEW i \in DOMAIN queue', queue'[h] = queue'[i]
      PROVE  h = i
  BY <1>2, <1>3, <1>5 DEF Queued
<1> QED
  BY <1>1, <1>4, <1>5

LEMMA PutRecordInv ==
  ASSUME RecordInv, NEW j \in Jobs, PutRecord(j)
  PROVE  RecordInv'
<1>1. /\ j \in arriving
      /\ arriving' = arriving \ {j}
      /\ queue' = Append(queue, j)
      /\ UNCHANGED <<row, attempts, task>>
  BY DEF PutRecord, Put
<1>2. /\ queue' \in Seq(Jobs)
      /\ \A i \in Jobs : Queued(i)' <=> Queued(i) \/ i = j
      /\ \A h, i \in DOMAIN queue' : queue'[h] = queue'[i] => h = i
  BY <1>1, Appended DEF RecordInv, DataOK, OneRecord
<1>3. /\ \A i \in Jobs : MayStart(i)' <=> MayStart(i)
      /\ \A i \in Jobs, w \in Workers : Runs(w, i)' <=> Runs(w, i)
      /\ \A w \in Workers : At(w, "starting")' <=> At(w, "starting")
  BY <1>1 DEF MayStart, MayRetry, Runs, At
<1>4. DataOK'
  BY <1>1, <1>2 DEF RecordInv, DataOK
<1>5. UnknownIsNowhere'
  BY <1>1, <1>2 DEF RecordInv, UnknownIsNowhere
<1>6. OneRecord'
  BY <1>1, <1>2, <1>3 DEF RecordInv, OneRecord
<1>7. RecordsMayStart'
  <2>1. \A w \in Workers : At(w, "starting") => task[w].job \in Jobs
    BY DEF RecordInv, DataOK, TaskData, IdleHoldsNothing, At
  <2> QED
    BY <2>1, <1>1, <1>2, <1>3 DEF RecordInv, RecordsMayStart
<1>8. IdleHoldsNothing' /\ AttemptsBounded'
  BY <1>1 DEF RecordInv, IdleHoldsNothing, AttemptsBounded
<1> QED
  BY <1>4, <1>5, <1>6, <1>7, <1>8 DEF RecordInv

LEMMA TakeInv ==
  ASSUME RecordInv, NEW w \in Workers, Take(w)
  PROVE  RecordInv'
<1>0. queue # <<>> /\ Head(queue) \in Jobs
  BY DEF Take, RecordInv, DataOK
<1> PICK j \in Jobs : j = Head(queue)
  BY <1>0
<1>1. /\ task[w].stage = "waiting"
      /\ queue # <<>>
      /\ task' = [task EXCEPT ![w] = Task("starting", j)]
      /\ queue' = Tail(queue)
      /\ UNCHANGED <<row, attempts, arriving>>
  BY DEF Take, At
<1>2. /\ DOMAIN queue = 1 .. Len(queue) /\ Len(queue) \in Nat \ {0}
      /\ j = queue[1] /\ j \in Jobs
      /\ queue' \in Seq(Jobs)
      /\ DOMAIN queue' = 1 .. Len(queue) - 1
      /\ \A i \in 1 .. Len(queue) - 1 : queue'[i] = queue[i + 1]
  BY <1>1 DEF RecordInv, DataOK
<1>3. /\ \A i \in Jobs : Queued(i)' => Queued(i)
      /\ Queued(j) /\ ~Queued(j)'
      /\ \A h, i \in DOMAIN queue' : queue'[h] = queue'[i] => h = i
  <2>1. \A i \in 1 .. Len(queue) - 1 : i + 1 \in 1 .. Len(queue) /\ i + 1 # 1
    BY <1>2
  <2>2. \A i \in Jobs : Queued(i)' => Queued(i)
    BY <1>2, <2>1 DEF Queued
  <2>3. Queued(j)
    BY <1>2 DEF Queued
  <2>4. \A h, i \in DOMAIN queue : queue[h] = queue[i] => h = i
    BY DEF RecordInv, OneRecord
  <2>5. ASSUME NEW i \in DOMAIN queue' PROVE queue'[i] # j
    <3>1. queue'[i] = queue[i + 1] /\ i + 1 \in DOMAIN queue /\ i + 1 # 1 /\ 1 \in DOMAIN queue
      BY <1>2, <2>1
    <3> QED
      BY <3>1, <1>2, <2>4
  <2>6. ASSUME NEW h \in DOMAIN queue', NEW i \in DOMAIN queue', queue'[h] = queue'[i]
        PROVE  h = i
    <3>1. h + 1 = i + 1
      BY <1>2, <2>1, <2>4, <2>6
    <3> QED
      BY <1>2, <3>1
  <2> QED
    BY <2>2, <2>3, <2>5, <2>6 DEF Queued
<1>4. /\ task'[w] = Task("starting", j)
      /\ \A v \in Workers \ {w} : task'[v] = task[v]
      /\ task'[w].stage = "starting" /\ task'[w].job = j
  BY <1>1 DEF RecordInv, DataOK, Task
<1>5. DataOK'
  BY <1>1, <1>2 DEF RecordInv, DataOK, Task, TaskData, Stages
<1>6. IdleHoldsNothing'
  BY <1>2, <1>4, QueueAssumption DEF RecordInv, IdleHoldsNothing
<1>7. /\ j \notin arriving
      /\ \A v \in Workers : ~Runs(v, j)
      /\ row[j] # "none"
      /\ MayStart(j)
  BY <1>2, <1>3 DEF RecordInv, OneRecord, UnknownIsNowhere, RecordsMayStart
<1>8. UnknownIsNowhere'
  BY <1>1, <1>3, <1>4, <1>7 DEF RecordInv, UnknownIsNowhere
<1>9. \A i \in Jobs, v \in Workers : Runs(v, i)' => (v = w /\ i = j) \/ Runs(v, i)
  BY <1>4 DEF Runs, At
<1>10. OneRecord'
  <2>1. \A i \in Jobs : ~(i \in arriving' /\ Queued(i)')
    BY <1>1, <1>3 DEF RecordInv, OneRecord
  <2>2. ASSUME NEW i \in Jobs, NEW v \in Workers, Runs(v, i)'
        PROVE  ~Queued(i)' /\ i \notin arriving' /\ \A u \in Workers : Runs(u, i)' => v = u
    BY <2>2, <1>1, <1>3, <1>7, <1>9 DEF RecordInv, OneRecord
  <2> QED
    BY <1>3, <2>1, <2>2 DEF OneRecord
<1>11. RecordsMayStart'
  <2>1. \A i \in Jobs : MayStart(i)' <=> MayStart(i)
    BY <1>1 DEF MayStart, MayRetry
  <2>2. \A v \in Workers : At(v, "starting") => task[v].job \in Jobs
    BY DEF RecordInv, DataOK, TaskData, IdleHoldsNothing, At
  <2>3. \A i \in Jobs : i \in arriving' \/ Queued(i)' => MayStart(i)'
    BY <1>1, <1>3, <2>1 DEF RecordInv, RecordsMayStart
  <2>4. ASSUME NEW v \in Workers, At(v, "starting")'
        PROVE  MayStart(task[v].job)'
    <3>1. CASE v = w
      BY <3>1, <1>2, <1>4, <1>7, <2>1
    <3>2. CASE v # w
      BY <2>4, <3>2, <1>4, <2>1, <2>2 DEF RecordInv, RecordsMayStart, At
    <3> QED
      BY <3>1, <3>2
  <2> QED
    BY <2>3, <2>4 DEF RecordsMayStart
<1> QED
  BY <1>1, <1>5, <1>6, <1>8, <1>10, <1>11 DEF RecordInv, AttemptsBounded

\* The two outcomes of the first transaction: the attempt is counted, or lost.
LEMMA MarkInv ==
  ASSUME RecordInv, NEW w \in Workers, MarkRunning(w) \/ MarkRunningFails(w)
  PROVE  RecordInv'
<1> DEFINE j == task[w].job
<1>1. /\ task[w].stage = "starting"
      /\ row' = [row EXCEPT ![j] = "running"] \/ row' = row
      /\ attempts' = [attempts EXCEPT ![j] = @ + 1] \/ attempts' = attempts
      /\ UNCHANGED <<arriving, queue>>
  <2>1. CASE MarkRunning(w)
    BY <2>1 DEF MarkRunning, Write, At
  <2>2. CASE MarkRunningFails(w)
    <3>1. \/ attempts' = [attempts EXCEPT ![j] = attempts[j]]
          \/ attempts' = [attempts EXCEPT ![j] = attempts[j] + 1]
      BY <2>2 DEF MarkRunningFails
    <3>2. [attempts EXCEPT ![j] = attempts[j]] = attempts
      BY DEF RecordInv, DataOK
    <3> QED
      BY <2>2, <3>1, <3>2 DEF MarkRunningFails, WriteFails, Write, At
  <2> QED
    BY <2>1, <2>2
<1>2. j \in Jobs /\ Runs(w, j)
  BY <1>1 DEF RecordInv, DataOK, TaskData, IdleHoldsNothing, Runs, At
<1>3. /\ MayStart(j) /\ row[j] # "none"
      /\ ~Queued(j) /\ j \notin arriving
      /\ \A v \in Workers \ {w} : ~Runs(v, j)
  BY <1>1, <1>2 DEF RecordInv, RecordsMayStart, UnknownIsNowhere, OneRecord, At
<1>4. PICK t \in TaskData :
        /\ task' = [task EXCEPT ![w] = t]
        /\ \/ t.stage \in {"waiting", "stopped"} /\ t.job = NoJob
           \/ t.stage = "handling" /\ t.job = j
  <2>1. CASE MarkRunning(w)
    <3>1. [task[w] EXCEPT !.stage = "handling"] \in TaskData
      BY DEF RecordInv, DataOK, TaskData, Stages
    <3>2. task' = [task EXCEPT ![w] = [task[w] EXCEPT !.stage = "handling"]]
      BY <2>1 DEF MarkRunning, Go
    <3>3. /\ [task[w] EXCEPT !.stage = "handling"].stage = "handling"
          /\ [task[w] EXCEPT !.stage = "handling"].job = j
      BY DEF RecordInv, DataOK, TaskData
    <3> QED
      BY <3>1, <3>2, <3>3
  <2>2. CASE MarkRunningFails(w)
    <3>1. /\ Waiting \in TaskData /\ Waiting.stage = "waiting" /\ Waiting.job = NoJob
          /\ Stopped \in TaskData /\ Stopped.stage = "stopped" /\ Stopped.job = NoJob
      BY DEF Waiting, Stopped, Task, TaskData, Stages
    <3>2. task' = [task EXCEPT ![w] = Waiting] \/ task' = [task EXCEPT ![w] = Stopped]
      BY <2>2 DEF MarkRunningFails, Loop
    <3> QED
      BY <3>1, <3>2
  <2> QED
    BY <2>1, <2>2
<1>5. task'[w] = t /\ \A v \in Workers \ {w} : task'[v] = task[v]
  BY <1>4 DEF RecordInv, DataOK
<1>6. /\ \A i \in Jobs \ {j} : attempts'[i] = attempts[i]
      /\ attempts'[j] \in {attempts[j], attempts[j] + 1}
      /\ attempts' \in [Jobs -> Nat]
  BY <1>1, <1>2 DEF RecordInv, DataOK
<1>7. \A i \in Jobs : row'[i] = "none" => row[i] = "none" /\ i # j
  BY <1>1, <1>2, <1>3 DEF RecordInv, DataOK
<1>8. DataOK'
  BY <1>1, <1>4, <1>6 DEF RecordInv, DataOK, Statuses
<1>9. IdleHoldsNothing'
  BY <1>2, <1>4, <1>5, QueueAssumption DEF RecordInv, IdleHoldsNothing
<1>10. /\ \A i \in Jobs : Queued(i)' <=> Queued(i)
       /\ \A i \in Jobs, v \in Workers : Runs(v, i)' => Runs(v, i)
       /\ \A i \in Jobs, v \in Workers : task'[v].job = i => task[v].job = i
  BY <1>1, <1>4, <1>5, <1>2, QueueAssumption DEF Queued, Runs, At
<1>11. UnknownIsNowhere'
  BY <1>1, <1>6, <1>7, <1>10 DEF RecordInv, UnknownIsNowhere
<1>12. OneRecord'
  BY <1>1, <1>10 DEF RecordInv, OneRecord
<1>13. RecordsMayStart'
  <2>1. \A i \in Jobs \ {j} : MayStart(i)' <=> MayStart(i)
    BY <1>6 DEF MayStart, MayRetry
  <2>2. ASSUME NEW v \in Workers, At(v, "starting")'
        PROVE  v # w /\ At(v, "starting") /\ task'[v].job = task[v].job
                 /\ task[v].job \in Jobs \ {j}
    <3>1. v # w
      BY <2>2, <1>4, <1>5 DEF At
    <3>2. At(v, "starting") /\ task'[v].job = task[v].job
      BY <2>2, <3>1, <1>5 DEF At
    <3>3. task[v].job \in Jobs
      BY <3>2 DEF RecordInv, DataOK, TaskData, IdleHoldsNothing, At
    <3>4. task[v].job # j
      BY <3>1, <3>2, <1>3 DEF Runs, At
    <3> QED
      BY <3>1, <3>2, <3>3, <3>4
  <2> QED
    BY <1>1, <1>3, <1>10, <2>1, <2>2 DEF RecordInv, RecordsMayStart
<1>14. AttemptsBounded'
  <2>1. attempts'[j] <= MaxRetries \/ attempts'[j] <= 1
    BY <1>2, <1>3, <1>6, QueueAssumption
       DEF RecordInv, DataOK, AttemptsBounded, MayStart, MayRetry
  <2> QED
    BY <1>6, <2>1 DEF RecordInv, AttemptsBounded
<1> QED
  BY <1>8, <1>9, <1>11, <1>12, <1>13, <1>14 DEF RecordInv

\* The worker puts the record back while it is still in the except branch.
LEMMA RetryInv ==
  ASSUME RecordInv, NEW w \in Workers, Retry(w)
  PROVE  RecordInv'
<1> PICK j : j = task[w].job
  OBVIOUS
<1>1. /\ task[w].stage = "failing"
      /\ MayRetry(j)
      /\ row' = [row EXCEPT ![j] = "pending"]
      /\ queue' = Append(queue, j)
      /\ task' = [task EXCEPT ![w].stage = "leaving"]
      /\ UNCHANGED <<attempts, arriving>>
  BY DEF Retry, At, Write, Put, Go
<1>2. j \in Jobs /\ Runs(w, j)
  BY <1>1 DEF RecordInv, DataOK, TaskData, IdleHoldsNothing, Runs, At
<1>3. /\ ~Queued(j) /\ j \notin arriving
      /\ \A v \in Workers \ {w} : ~Runs(v, j)
  BY <1>2 DEF RecordInv, OneRecord
<1>4. /\ queue' \in Seq(Jobs)
      /\ \A i \in Jobs : Queued(i)' <=> Queued(i) \/ i = j
      /\ \A h, i \in DOMAIN queue' : queue'[h] = queue'[i] => h = i
  BY <1>1, <1>2, <1>3, Appended DEF RecordInv, DataOK, OneRecord
<1>5. /\ task'[w].stage = "leaving" /\ task'[w].job = j
      /\ \A v \in Workers \ {w} : task'[v] = task[v]
      /\ task' \in [Workers -> TaskData]
  <2>1. task[w] \in TaskData
    BY DEF RecordInv, DataOK
  <2>2. /\ [task[w] EXCEPT !.stage = "leaving"] \in TaskData
        /\ [task[w] EXCEPT !.stage = "leaving"].stage = "leaving"
        /\ [task[w] EXCEPT !.stage = "leaving"].job = j
    BY <2>1 DEF TaskData, Stages
  <2> QED
    BY <1>1, <2>2 DEF RecordInv, DataOK
<1>6. /\ \A i \in Jobs : row'[i] = "none" => row[i] = "none" /\ i # j
      /\ row' \in [Jobs -> Statuses]
  BY <1>1, <1>2 DEF RecordInv, DataOK, Statuses
<1>7. DataOK'
  BY <1>1, <1>4, <1>5, <1>6 DEF RecordInv, DataOK
<1>8. IdleHoldsNothing'
  BY <1>2, <1>5, QueueAssumption DEF RecordInv, IdleHoldsNothing
<1>9. /\ \A i \in Jobs, v \in Workers : Runs(v, i)' => Runs(v, i) /\ i # j
      /\ \A i \in Jobs, v \in Workers : task'[v].job = i => task[v].job = i
  BY <1>3, <1>5 DEF Runs, At
<1>10. UnknownIsNowhere'
  BY <1>1, <1>4, <1>6, <1>9 DEF RecordInv, UnknownIsNowhere
<1>11. OneRecord'
  <2>1. \A i \in Jobs : ~(i \in arriving' /\ Queued(i)')
    BY <1>1, <1>3, <1>4 DEF RecordInv, OneRecord
  <2>2. ASSUME NEW i \in Jobs, NEW v \in Workers, Runs(v, i)'
        PROVE  ~Queued(i)' /\ i \notin arriving' /\ \A u \in Workers : Runs(u, i)' => v = u
    BY <2>2, <1>1, <1>4, <1>9 DEF RecordInv, OneRecord
  <2> QED
    BY <1>4, <2>1, <2>2 DEF OneRecord
<1>12. RecordsMayStart'
  <2>1. \A i \in Jobs : MayStart(i)' <=> MayStart(i)
    BY <1>1 DEF MayStart, MayRetry
  <2>2. \A v \in Workers : At(v, "starting")' =>
          At(v, "starting") /\ task'[v] = task[v] /\ task[v].job \in Jobs
    BY <1>5 DEF RecordInv, DataOK, TaskData, IdleHoldsNothing, At
  <2>3. MayStart(j)
    BY <1>1 DEF MayStart
  <2> QED
    BY <1>1, <1>4, <2>1, <2>2, <2>3 DEF RecordInv, RecordsMayStart
<1> QED
  BY <1>1, <1>7, <1>8, <1>10, <1>11, <1>12 DEF RecordInv, AttemptsBounded

\* wait_for has timed out: the worker waits again or leaves its loop.
LEMMA TimeoutInv ==
  ASSUME RecordInv, NEW w \in Workers, GetTimesOut(w)
  PROVE  RecordInv'
<1>1. /\ task[w].stage = "waiting"
      /\ task' = [task EXCEPT ![w] = Waiting] \/ task' = [task EXCEPT ![w] = Stopped]
      /\ UNCHANGED <<row, attempts, arriving, queue>>
  BY DEF GetTimesOut, Loop, At
<1>2. task[w].job = NoJob
  BY <1>1 DEF RecordInv, IdleHoldsNothing
<1>3. /\ task' \in [Workers -> TaskData]
      /\ task'[w].job = NoJob /\ task'[w].stage \in {"waiting", "stopped"}
      /\ \A v \in Workers \ {w} : task'[v] = task[v]
  <2>1. /\ Waiting \in TaskData /\ Waiting.stage = "waiting" /\ Waiting.job = NoJob
        /\ Stopped \in TaskData /\ Stopped.stage = "stopped" /\ Stopped.job = NoJob
    BY DEF Waiting, Stopped, Task, TaskData, Stages
  <2> QED
    BY <1>1, <2>1 DEF RecordInv, DataOK
<1>4. /\ \A i \in Jobs : Queued(i)' <=> Queued(i)
      /\ \A i \in Jobs, v \in Workers : Runs(v, i)' <=> Runs(v, i)
      /\ \A i \in Jobs, v \in Workers : task'[v].job = i <=> task[v].job = i
      /\ \A i \in Jobs : MayStart(i)' <=> MayStart(i)
  BY <1>1, <1>2, <1>3, QueueAssumption DEF Queued, Runs, At, MayStart, MayRetry
<1>5. \A v \in Workers : At(v, "starting")' =>
        At(v, "starting") /\ task'[v] = task[v] /\ task[v].job \in Jobs
  BY <1>3 DEF RecordInv, DataOK, TaskData, IdleHoldsNothing, At
<1>6. DataOK' /\ IdleHoldsNothing' /\ UnknownIsNowhere' /\ AttemptsBounded'
  <2>1. DataOK' /\ AttemptsBounded'
    BY <1>1, <1>3 DEF RecordInv, DataOK, AttemptsBounded
  <2>2. IdleHoldsNothing'
    BY <1>3 DEF RecordInv, IdleHoldsNothing
  <2>3. UnknownIsNowhere'
    BY <1>1, <1>4 DEF RecordInv, UnknownIsNowhere
  <2> QED
    BY <2>1, <2>2, <2>3
<1>7. OneRecord' /\ RecordsMayStart'
  BY <1>1, <1>4, <1>5 DEF RecordInv, OneRecord, RecordsMayStart
<1> QED
  BY <1>6, <1>7 DEF RecordInv

-----------------------------------------------------------------------------
\* The steps of WorkerGoesOn

LEMMA GoesOnInv ==
  ASSUME RecordInv, NEW w \in Workers,
         \/ HandlerReturns(w) \/ HandlerRaises(w) \/ CompleteFails(w) \/ GiveUp(w)
  PROVE  RecordInv'
<1> DEFINE j == task[w].job
           Next(stage) == [task[w] EXCEPT !.stage = stage]
<1>1. PICK stage \in {"completing", "failing", "leaving"} :
        task' = [task EXCEPT ![w].stage = stage]
  BY DEF HandlerReturns, HandlerRaises, CompleteFails, GiveUp, Go
<1>2. task[w].stage \in {"handling", "completing", "failing"}
  BY DEF HandlerReturns, HandlerRaises, CompleteFails, GiveUp, At
<1>3. j \in Jobs /\ task[w] \in TaskData
  BY <1>2 DEF RecordInv, DataOK, TaskData, IdleHoldsNothing
<1>4. /\ Next(stage) \in TaskData
      /\ Next(stage).stage = stage /\ Next(stage).job = j
  BY <1>3 DEF TaskData, Stages
<1>5. task' = [task EXCEPT ![w] = Next(stage)]
  BY <1>1
<1>6. /\ \/ row' = row
         \/ row' = [row EXCEPT ![j] = "completed"]
         \/ row' = [row EXCEPT ![j] = "failed"]
      /\ UNCHANGED <<attempts, arriving, queue>>
  BY DEF HandlerReturns, HandlerRaises, CompleteFails, GiveUp, WriteFails, Write
<1>7. /\ row' \in [Jobs -> Statuses]
      /\ \A i \in Jobs : row'[i] = "none" => row[i] = "none"
  BY <1>3, <1>6 DEF RecordInv, DataOK, Statuses
<1>8. ~At(w, "leaving")
  BY <1>2 DEF At
<1> HIDE DEF Next
<1> QED
  BY <1>3, <1>4, <1>5, <1>6, <1>7, <1>8, WorkerGoesOn

LEMMA LetsGoInv ==
  ASSUME RecordInv, NEW w \in Workers, Complete(w) \/ RecordingFails(w) \/ CloseSession(w)
  PROVE  RecordInv'
<1> DEFINE j == task[w].job
<1>1. task' = [task EXCEPT ![w] = Waiting] \/ task' = [task EXCEPT ![w] = Stopped]
  BY DEF Complete, RecordingFails, CloseSession, Leave, Loop
<1>2. task[w].stage \in {"completing", "failing", "leaving"}
  BY DEF Complete, RecordingFails, CloseSession, At
<1>3. j \in Jobs
  BY <1>2 DEF RecordInv, DataOK, TaskData, IdleHoldsNothing
<1>4. /\ Waiting \in TaskData /\ Waiting.stage = "waiting" /\ Waiting.job = NoJob
      /\ Stopped \in TaskData /\ Stopped.stage = "stopped" /\ Stopped.job = NoJob
  BY DEF Waiting, Stopped, Task, TaskData, Stages
<1>5. /\ \/ row' = row
         \/ \E status \in {"completed", "pending", "failed"} :
              row' = [row EXCEPT ![j] = status]
      /\ UNCHANGED <<attempts, arriving, queue>>
  BY DEF Complete, RecordingFails, CloseSession, WriteFails, Write
<1>6. /\ row' \in [Jobs -> Statuses]
      /\ \A i \in Jobs : row'[i] = "none" => row[i] = "none"
  BY <1>3, <1>5 DEF RecordInv, DataOK, Statuses
<1> QED
  BY <1>1, <1>3, <1>4, <1>5, <1>6, WorkerGoesOn

LEMMA ProcessInv ==
  ASSUME RecordInv, ProcessStep
  PROVE  RecordInv'
<1>1. CASE BeginStop
  BY <1>1, RecordsUntouched DEF BeginStop
<1>2. CASE CancelWorkers \/ Crash
  BY <1>2, RecordsForgotten DEF CancelWorkers, Crash
<1>3. CASE Restart
  BY <1>3, RecordsForgotten DEF Restart
<1> QED
  BY <1>1, <1>2, <1>3 DEF ProcessStep

LEMMA RecordStep ==
  ASSUME RecordInv, [QueueNext]_queueVars
  PROVE  RecordInv'
<1>1. ASSUME NEW j \in Jobs, CommitRow(j) \/ PutRecord(j)
      PROVE  RecordInv'
  BY <1>1, CommitRowInv, PutRecordInv
<1>2. ASSUME NEW w \in Workers, WorkerStep(w) \/ HandlerReturns(w)
      PROVE  RecordInv'
  BY <1>2, TakeInv, TimeoutInv, MarkInv, RetryInv, GoesOnInv, LetsGoInv DEF WorkerStep
<1>3. CASE UNCHANGED queueVars
  BY <1>3, RecordsUntouched DEF queueVars, memory
<1> QED
  BY <1>1, <1>2, <1>3, ProcessInv DEF QueueNext

-----------------------------------------------------------------------------
(***************************************************************************)
(* What the row of a job says.  Beside RowTellsTheTruth a worker that has  *)
(* the handler behind it counts as evidence, and a job that was carried    *)
(* out without trouble has no record left that could start it again.       *)
(***************************************************************************)
TruthOf(j) ==
  /\ row[j] = "completed" => successes[j] >= 1
  /\ row[j] = "failed" => attempts[j] >= MaxRetries
  /\ \A w \in Workers : task[w].job = j /\ At(w, "completing") => successes[j] >= 1
  /\ j \notin troubled =>
       /\ successes[j] = 0 \/ (successes[j] = 1 /\ row[j] \in {"running", "completed"})
       /\ \A w \in Workers :
            task[w].job = j /\ task[w].stage \in {"handling", "completing"} => row[j] = "running"
       /\ successes[j] >= 1 => /\ j \notin arriving /\ ~Queued(j)
                               /\ \A w \in Workers : Runs(w, j) => At(w, "completing")

TruthInv ==
  /\ successes \in [Jobs -> Nat]
  /\ troubled \subseteq Jobs
  /\ \A j \in Jobs : TruthOf(j)

LEMMA TruthInit == QueueInit => TruthInv
<1> SUFFICES ASSUME QueueInit PROVE TruthInv
  OBVIOUS
<1>1. /\ \A j \in Jobs : row[j] = "none" /\ successes[j] = 0 /\ j # NoJob
      /\ \A w \in Workers : task[w].job = NoJob
      /\ successes \in [Jobs -> Nat] /\ troubled = {}
  BY QueueAssumption DEF QueueInit, FreshMemory, Waiting, Task
<1> QED
  BY <1>1 DEF TruthInv, TruthOf, Runs

\* A step that is about job j leaves the truth about the others alone.
LEMMA OthersKeepTruth ==
  ASSUME TruthInv, NEW j,
         \A i \in Jobs \ {j} :
           /\ row'[i] = row[i] /\ attempts'[i] = attempts[i] /\ successes'[i] = successes[i]
           /\ i \in troubled' <=> i \in troubled
           /\ i \in arriving' => i \in arriving
           /\ Queued(i)' => Queued(i)
           /\ \A w \in Workers : task'[w].job = i => task'[w] = task[w]
  PROVE  \A i \in Jobs \ {j} : TruthOf(i)'
<1> SUFFICES ASSUME NEW i \in Jobs \ {j} PROVE TruthOf(i)'
  OBVIOUS
<1>1. TruthOf(i)
  BY DEF TruthInv
<1>2. \A w \in Workers : Runs(w, i)' => Runs(w, i) /\ (At(w, "completing") => At(w, "completing")')
  BY DEF Runs, At
<1> QED
  BY <1>1, <1>2 DEF TruthOf, At

\* A step that leaves the row and the history of every job alone, and starts nothing.
LEMMA TruthUntouched ==
  ASSUME TruthInv,
         UNCHANGED <<row, attempts, successes, troubled>>,
         \A i \in Jobs :
           /\ i \in arriving' => i \in arriving
           /\ Queued(i)' => Queued(i)
           /\ \A w \in Workers : task'[w].job = i => task'[w] = task[w]
  PROVE  TruthInv'
<1>1. NoJob \notin Jobs
  BY QueueAssumption
<1>2. \A i \in Jobs \ {NoJob} : TruthOf(i)'
  BY OthersKeepTruth
<1> QED
  BY <1>1, <1>2 DEF TruthInv

\* The worker that may still write the row of a job is the only one.
LEMMA RunnerIsAlone ==
  ASSUME RecordInv, NEW w \in Workers,
         task[w].stage \in {"starting", "handling", "completing", "failing"}
  PROVE  /\ task[w].job \in Jobs /\ task[w] \in TaskData
         /\ Runs(w, task[w].job)
         /\ task[w].job \notin arriving /\ ~Queued(task[w].job)
         /\ \A v \in Workers \ {w} : task[v].job = task[w].job => At(v, "leaving")
<1>1. task[w].job \in Jobs /\ task[w] \in TaskData
  BY DEF RecordInv, DataOK, TaskData, IdleHoldsNothing
<1>2. Runs(w, task[w].job)
  BY DEF Runs, At
<1> QED
  BY <1>1, <1>2 DEF RecordInv, OneRecord, Runs

\* A step of that worker: what has to be shown is only about its job.
LEMMA RunnerTruth ==
  ASSUME RecordInv, TruthInv, NEW w \in Workers,
         task[w].stage \in {"starting", "handling", "completing", "failing"},
         NEW j \in Jobs, task[w].job = j,
         NEW t, task' = [task EXCEPT ![w] = t], t.job \in {j, NoJob},
         successes' \in [Jobs -> Nat],
         troubled' = troubled \/ troubled' = troubled \cup {j},
         \A i \in Jobs \ {j} : /\ row'[i] = row[i] /\ attempts'[i] = attempts[i]
                               /\ successes'[i] = successes[i] /\ (Queued(i)' => Queued(i)),
         arriving' = arriving,
         row'[j] = "completed" => successes'[j] >= 1,
         row'[j] = "failed" => attempts'[j] >= MaxRetries,
         t.stage = "completing" => successes'[j] >= 1,
         j \notin troubled' => successes'[j] = 0 \/ (successes'[j] = 1 /\ row'[j] \in {"running", "completed"}),
         j \notin troubled' /\ t.job = j /\ t.stage \in {"handling", "completing"} => row'[j] = "running",
         Queued(j)' => j \in troubled' \/ successes'[j] = 0,
         t.job = j => \/ j \in troubled' \/ successes'[j] = 0
                      \/ t.stage \in {"completing", "leaving"}
  PROVE  TruthInv'
<1>1. task'[w] = t /\ \A v \in Workers \ {w} : task'[v] = task[v]
  BY DEF RecordInv, DataOK
<1>2. /\ j \notin arriving
      /\ \A v \in Workers \ {w} : task[v].job = j => task[v].stage = "leaving"
  BY RunnerIsAlone DEF At
<1>3. NoJob \notin Jobs
  BY QueueAssumption
<1>4. \A i \in Jobs \ {j}, v \in Workers : task'[v].job = i => task'[v] = task[v]
  BY <1>1, <1>3
<1>5. troubled' \subseteq Jobs /\ \A i \in Jobs \ {j} : i \in troubled' <=> i \in troubled
  BY DEF TruthInv
<1>6. \A i \in Jobs \ {j} : TruthOf(i)'
  BY <1>4, <1>5, OthersKeepTruth
<1>7. TruthOf(j)'
  <2>1. \A v \in Workers : task'[v].job = j /\ task'[v].stage # "leaving" => v = w
    BY <1>1, <1>2
  <2>2. \A v \in Workers : Runs(v, j)' => v = w
    BY <2>1 DEF Runs, At
  <2> QED
    BY <1>1, <1>2, <2>1, <2>2 DEF TruthOf, At, Runs
<1> QED
  BY <1>5, <1>6, <1>7 DEF TruthInv

LEMMA MarkTruth ==
  ASSUME RecordInv, TruthInv, NEW w \in Workers, MarkRunning(w) \/ MarkRunningFails(w)
  PROVE  TruthInv'
<1>1. task[w].stage = "starting"
  BY DEF MarkRunning, MarkRunningFails, At
<1> PICK j \in Jobs : j = task[w].job
  BY <1>1, RunnerIsAlone
<1>2. task[w].job = j /\ task[w] \in TaskData /\ ~Queued(j) /\ Runs(w, j)
  <2>1. task[w] \in TaskData /\ ~Queued(task[w].job) /\ Runs(w, task[w].job)
    BY <1>1, RunnerIsAlone
  <2> QED
    BY <2>1 DEF Queued
<1>3. TruthOf(j) /\ successes[j] \in Nat /\ attempts[j] \in Nat
  BY <1>2 DEF TruthInv, RecordInv, DataOK
<1>4. j \notin troubled => successes[j] = 0
  BY <1>1, <1>2, <1>3 DEF TruthOf, At
<1>5. /\ UNCHANGED <<arriving, queue, successes>>
      /\ row' = row \/ row' = [row EXCEPT ![j] = "running"]
  BY DEF MarkRunning, MarkRunningFails, Write, WriteFails, history
<1>6. /\ \A i \in Jobs \ {j} : row'[i] = row[i] /\ successes'[i] = successes[i]
      /\ \A i \in Jobs : Queued(i)' <=> Queued(i)
      /\ row'[j] = row[j] \/ row'[j] = "running"
  BY <1>2, <1>5 DEF RecordInv, DataOK, Queued
<1>7. /\ \A i \in Jobs \ {j} : attempts'[i] = attempts[i]
      /\ attempts'[j] >= attempts[j]
  <2>1. attempts' = [attempts EXCEPT ![j] = @ + 1] \/ attempts' = [attempts EXCEPT ![j] = @]
    BY DEF MarkRunning, MarkRunningFails
  <2> QED
    BY <1>2, <1>3, <2>1 DEF RecordInv, DataOK
<1>8. attempts'[j] \in Nat
  BY <1>2 DEF MarkRunning, MarkRunningFails, RecordInv, DataOK
<1>9. row'[j] = "failed" => attempts'[j] >= MaxRetries
  BY <1>3, <1>6, <1>7, <1>8, QueueAssumption DEF TruthOf
<1>10. CASE MarkRunning(w)
  <2> DEFINE t == [task[w] EXCEPT !.stage = "handling"]
  <2>1. /\ task' = [task EXCEPT ![w] = t]
        /\ t.job = j /\ t.stage = "handling"
        /\ row'[j] = "running" /\ troubled' = troubled
    BY <1>2, <1>10 DEF MarkRunning, Go, Write, history, RecordInv, DataOK, TaskData
  <2> HIDE DEF t
  <2> QED
    <3>1. successes' \in [Jobs -> Nat] /\ row'[j] # "completed"
      BY <1>5, <2>1 DEF TruthInv
    <3>2. j \notin troubled' => successes'[j] = 0
      BY <1>4, <1>5, <2>1
    <3> QED
      BY <1>1, <1>2, <1>5, <1>6, <1>7, <1>9, <2>1, <3>1, <3>2, RunnerTruth, ZenonT(40)
<1>11. CASE MarkRunningFails(w)
  <2>1. PICK t \in {Waiting, Stopped} : task' = [task EXCEPT ![w] = t]
    BY <1>11 DEF MarkRunningFails, Loop
  <2>2. t.job = NoJob /\ t.stage \in {"waiting", "stopped"}
    BY DEF Waiting, Stopped, Task
  <2>3. troubled' = troubled \cup {j}
    BY <1>11 DEF MarkRunningFails, WriteFails
  <2> QED
    BY <1>1, <1>2, <1>3, <1>5, <1>6, <1>7, <1>9, <2>1, <2>2, <2>3, RunnerTruth, ZenonT(40)
       DEF TruthInv, TruthOf
<1> QED
  BY <1>10, <1>11

LEMMA HandlerTruth ==
  ASSUME RecordInv, TruthInv, NEW w \in Workers, HandlerReturns(w) \/ HandlerRaises(w)
  PROVE  TruthInv'
<1> DEFINE Next(stage) == [task[w] EXCEPT !.stage = stage]
<1>1. task[w].stage = "handling"
  BY DEF HandlerReturns, HandlerRaises, At
<1> PICK j \in Jobs : j = task[w].job
  BY <1>1, RunnerIsAlone
<1>2. task[w].job = j /\ task[w] \in TaskData /\ ~Queued(j) /\ Runs(w, j)
  <2>1. task[w] \in TaskData /\ ~Queued(task[w].job) /\ Runs(w, task[w].job)
    BY <1>1, RunnerIsAlone
  <2> QED
    BY <2>1 DEF Queued
<1>3. TruthOf(j) /\ successes[j] \in Nat /\ successes \in [Jobs -> Nat]
  BY <1>2 DEF TruthInv
<1>4. j \notin troubled => successes[j] = 0 /\ row[j] = "running"
  BY <1>1, <1>2, <1>3 DEF TruthOf, At
<1>5. UNCHANGED <<row, attempts, arriving, queue, troubled>>
  BY DEF HandlerReturns, HandlerRaises, history
<1>6. \A i \in Jobs : Queued(i)' <=> Queued(i)
  BY <1>5 DEF Queued
<1>7. PICK stage \in {"completing", "failing"} :
        /\ task' = [task EXCEPT ![w] = Next(stage)]
        /\ stage = "completing" => successes' = [successes EXCEPT ![j] = @ + 1]
        /\ stage = "failing" => successes' = successes
  BY DEF HandlerReturns, HandlerRaises, Go, history
<1>8. Next(stage).job = j /\ Next(stage).stage = stage
  BY <1>2 DEF TaskData
<1>9. /\ successes' \in [Jobs -> Nat]
      /\ \A i \in Jobs \ {j} : successes'[i] = successes[i]
      /\ stage = "completing" => successes'[j] = successes[j] + 1
      /\ stage = "failing" => successes'[j] = successes[j]
  BY <1>2, <1>3, <1>7
<1>10. row[j] = "completed" => successes[j] >= 1
  BY <1>3 DEF TruthOf
<1>11. row[j] = "failed" => attempts[j] >= MaxRetries
  BY <1>3 DEF TruthOf
<1> HIDE DEF Next
<1>12. CASE stage = "completing"
  <2>1. successes'[j] >= 1 /\ (j \notin troubled' => successes'[j] = 1 /\ row'[j] = "running")
    BY <1>3, <1>4, <1>5, <1>9, <1>12
  <2> QED
    BY <1>1, <1>2, <1>5, <1>6, <1>7, <1>8, <1>9, <1>11, <1>12, <2>1, RunnerTruth
<1>13. CASE stage = "failing"
  <2>1. j \notin troubled' => successes'[j] = 0
    BY <1>4, <1>5, <1>9, <1>13
  <2> QED
    BY <1>1, <1>2, <1>5, <1>6, <1>7, <1>8, <1>9, <1>10, <1>11, <1>13, <2>1, RunnerTruth
<1> QED
  BY <1>7, <1>12, <1>13

LEMMA CompleteTruth ==
  ASSUME RecordInv, TruthInv, NEW w \in Workers, Complete(w) \/ CompleteFails(w)
  PROVE  TruthInv'
<1>1. task[w].stage = "completing"
  BY DEF Complete, CompleteFails, At
<1> PICK j \in Jobs : j = task[w].job
  BY <1>1, RunnerIsAlone
<1>2. task[w].job = j /\ task[w] \in TaskData /\ ~Queued(j) /\ Runs(w, j)
  <2>1. task[w] \in TaskData /\ ~Queued(task[w].job) /\ Runs(w, task[w].job)
    BY <1>1, RunnerIsAlone
  <2> QED
    BY <2>1 DEF Queued
<1>3. TruthOf(j) /\ successes[j] \in Nat /\ successes[j] >= 1
  BY <1>1, <1>2 DEF TruthInv, TruthOf, At
<1>4. /\ UNCHANGED <<attempts, arriving, queue, successes>>
      /\ row' = row \/ row' = [row EXCEPT ![j] = "completed"]
  BY DEF Complete, CompleteFails, Write, WriteFails, history
<1>5. /\ \A i \in Jobs \ {j} : row'[i] = row[i]
      /\ \A i \in Jobs : Queued(i)' <=> Queued(i)
      /\ row'[j] = row[j] \/ row'[j] = "completed"
  BY <1>2, <1>4 DEF RecordInv, DataOK, Queued
<1>6. CASE Complete(w)
  <2>1. PICK t \in {Waiting, Stopped} : task' = [task EXCEPT ![w] = t]
    BY <1>6 DEF Complete, Leave, Loop
  <2>2. t.job = NoJob /\ t.stage \in {"waiting", "stopped"}
    BY DEF Waiting, Stopped, Task
  <2>3. troubled' = troubled /\ row'[j] = "completed"
    BY <1>2, <1>6 DEF Complete, Write, history, RecordInv, DataOK
  <2>4. NoJob # j
    BY <1>2, QueueAssumption
  <2> QED
    BY <1>1, <1>2, <1>3, <1>4, <1>5, <2>1, <2>2, <2>3, <2>4, RunnerTruth DEF TruthInv, TruthOf
<1>7. CASE CompleteFails(w)
  <2> DEFINE t == [task[w] EXCEPT !.stage = "failing"]
  <2>1. /\ task' = [task EXCEPT ![w] = t]
        /\ t.job = j /\ t.stage = "failing"
        /\ troubled' = troubled \cup {j}
    BY <1>2, <1>7 DEF CompleteFails, Go, WriteFails, TaskData
  <2> HIDE DEF t
  <2>2. /\ successes' \in [Jobs -> Nat] /\ arriving' = arriving
        /\ \A i \in Jobs \ {j} : /\ row'[i] = row[i] /\ attempts'[i] = attempts[i]
                                 /\ successes'[i] = successes[i]
                                 /\ (Queued(i)' => Queued(i))
    BY <1>4, <1>5 DEF TruthInv
  <2>3. /\ row'[j] = "completed" => successes'[j] >= 1
        /\ row'[j] = "failed" => attempts'[j] >= MaxRetries
    BY <1>3, <1>4, <1>5 DEF TruthOf
  <2>4. j \in troubled' /\ t.job \in {j, NoJob} /\ t.stage # "completing"
    BY <2>1
  <2>5. task[w].stage \in {"starting", "handling", "completing", "failing"}
    BY <1>1
  <2> QED
    BY <1>2, <2>1, <2>2, <2>3, <2>4, <2>5, RunnerTruth
<1> QED
  BY <1>6, <1>7

LEMMA FailingTruth ==
  ASSUME RecordInv, TruthInv, NEW w \in Workers, Retry(w) \/ GiveUp(w) \/ RecordingFails(w)
  PROVE  TruthInv'
<1>1. task[w].stage = "failing"
  BY DEF Retry, GiveUp, RecordingFails, At
<1> PICK j \in Jobs : j = task[w].job
  BY <1>1, RunnerIsAlone
<1>2. task[w].job = j /\ task[w] \in TaskData /\ ~Queued(j) /\ Runs(w, j)
  <2>1. task[w] \in TaskData /\ ~Queued(task[w].job) /\ Runs(w, task[w].job)
    BY <1>1, RunnerIsAlone
  <2> QED
    BY <2>1 DEF Queued
<1>3. TruthOf(j) /\ successes[j] \in Nat /\ attempts[j] \in Nat
  BY <1>2 DEF TruthInv, RecordInv, DataOK
<1>4. j \notin troubled => successes[j] = 0
  BY <1>1, <1>2, <1>3 DEF TruthOf, At
<1>5. UNCHANGED <<attempts, arriving, successes>>
  BY DEF Retry, GiveUp, RecordingFails, history
<1>6. \A i \in Jobs \ {j} : Queued(i)' => Queued(i)
  <2>1. queue \in Seq(Jobs)
    BY DEF RecordInv, DataOK
  <2>2. queue' = queue \/ queue' = Append(queue, j)
    BY DEF Retry, GiveUp, RecordingFails, Put
  <2>3. CASE queue' = queue
    BY <2>3 DEF Queued
  <2>4. CASE queue' = Append(queue, j)
    BY <1>2, <2>1, <2>4, Appended
  <2> QED
    BY <2>2, <2>3, <2>4
<1>7. \/ row' = row
      \/ row' = [row EXCEPT ![j] = "pending"]
      \/ row' = [row EXCEPT ![j] = "failed"] /\ ~MayRetry(j)
  BY DEF Retry, GiveUp, RecordingFails, Write, WriteFails
<1>8. /\ \A i \in Jobs \ {j} : row'[i] = row[i]
      /\ row'[j] = "completed" => row[j] = "completed"
      /\ row'[j] = "failed" => row[j] = "failed" \/ ~MayRetry(j)
  BY <1>2, <1>7 DEF RecordInv, DataOK
<1>9. row'[j] = "failed" => attempts[j] >= MaxRetries
  BY <1>3, <1>8, QueueAssumption DEF TruthOf, MayRetry
<1>10. row'[j] = "completed" => successes[j] >= 1
  BY <1>3, <1>8 DEF TruthOf
<1>11. successes \in [Jobs -> Nat]
  BY DEF TruthInv
<1>12. CASE Retry(w) \/ GiveUp(w)
  <2> DEFINE t == [task[w] EXCEPT !.stage = "leaving"]
  <2>1. /\ task' = [task EXCEPT ![w] = t]
        /\ t.job = j /\ t.stage = "leaving"
        /\ troubled' = troubled
    BY <1>2, <1>12 DEF Retry, GiveUp, Go, history, TaskData
  <2> HIDE DEF t
  <2>2. j \notin troubled' => successes'[j] = 0
    BY <1>4, <1>5, <2>1
  <2> QED
    BY <1>1, <1>2, <1>5, <1>6, <1>8, <1>9, <1>10, <1>11, <2>1, <2>2, RunnerTruth
<1>13. CASE RecordingFails(w)
  <2>1. PICK t \in {Waiting, Stopped} : task' = [task EXCEPT ![w] = t]
    BY <1>13 DEF RecordingFails, Loop
  <2>2. t.job = NoJob /\ t.stage \in {"waiting", "stopped"}
    BY DEF Waiting, Stopped, Task
  <2>3. troubled' = troubled \cup {j}
    BY <1>13 DEF RecordingFails, WriteFails
  <2> QED
    BY <1>1, <1>2, <1>3, <1>5, <1>6, <1>8, <1>9, <1>10, <1>11, <2>1, <2>2, <2>3, RunnerTruth
<1> QED
  BY <1>12, <1>13

\* The steps that carry out nothing: records are put, taken or lost.
LEMMA CarriesOutNothing ==
  ASSUME RecordInv, TruthInv,
         \/ \E j \in Jobs : CommitRow(j) \/ PutRecord(j)
         \/ \E w \in Workers : Take(w) \/ GetTimesOut(w) \/ CloseSession(w)
         \/ ProcessStep
  PROVE  TruthInv'
<1>0. /\ NoJob \notin Jobs
      /\ Waiting.job = NoJob /\ Stopped.job = NoJob
      /\ Waiting.stage = "waiting" /\ Stopped.stage = "stopped"
      /\ task \in [Workers -> TaskData] /\ queue \in Seq(Jobs)
  BY QueueAssumption DEF Waiting, Stopped, Task, RecordInv, DataOK
<1>1. ASSUME NEW j \in Jobs, CommitRow(j) PROVE TruthInv'
  <2>1. /\ row[j] = "none" /\ row' = [row EXCEPT ![j] = "pending"]
        /\ arriving' = arriving \cup {j}
        /\ UNCHANGED <<attempts, queue, task, successes, troubled>>
    BY <1>1 DEF CommitRow, Write, history
  <2>2. ~Queued(j) /\ \A w \in Workers : task[w].job # j
    BY <2>1 DEF RecordInv, UnknownIsNowhere
  <2>3. \A i \in Jobs \ {j} : row'[i] = row[i]
    BY <2>1 DEF RecordInv, DataOK
  <2>4. \A i \in Jobs : Queued(i)' <=> Queued(i)
    BY <2>1 DEF Queued
  <2>5. \A i \in Jobs \ {j} : TruthOf(i)'
    BY <2>1, <2>3, <2>4, OthersKeepTruth
  <2>6. row'[j] = "pending" /\ TruthOf(j) /\ successes[j] \in Nat
    BY <2>1 DEF RecordInv, DataOK, TruthInv
  <2>7. TruthOf(j)'
    BY <2>1, <2>2, <2>4, <2>6 DEF TruthOf, Runs
  <2> QED
    BY <2>1, <2>5, <2>7 DEF TruthInv
<1>2. ASSUME NEW j \in Jobs, PutRecord(j) PROVE TruthInv'
  <2>1. /\ j \in arriving /\ arriving' = arriving \ {j} /\ queue' = Append(queue, j)
        /\ UNCHANGED <<row, attempts, task, successes, troubled>>
    BY <1>2 DEF PutRecord, Put, history
  <2>2. \A i \in Jobs : Queued(i)' <=> Queued(i) \/ i = j
    BY <1>0, <2>1, Appended
  <2>3. \A i \in Jobs \ {j} : TruthOf(i)'
    BY <2>1, <2>2, OthersKeepTruth
  <2>4. TruthOf(j) /\ successes[j] \in Nat
    BY DEF TruthInv
  <2>5. TruthOf(j)'
    BY <2>1, <2>4 DEF TruthOf, At
  <2> QED
    BY <2>1, <2>3, <2>5 DEF TruthInv
<1>3. ASSUME NEW w \in Workers, Take(w) PROVE TruthInv'
  <2>1. /\ queue # <<>> /\ queue' = Tail(queue)
        /\ task' = [task EXCEPT ![w] = Task("starting", Head(queue))]
        /\ UNCHANGED <<row, attempts, arriving, successes, troubled>>
    BY <1>3 DEF Take, history
  <2>2. PICK j \in Jobs : j = Head(queue)
    BY <1>0, <2>1
  <2>3. Queued(j) /\ \A i \in Jobs : Queued(i)' => Queued(i)
    <3>1. /\ DOMAIN queue = 1 .. Len(queue) /\ Len(queue) \in Nat \ {0} /\ j = queue[1]
          /\ DOMAIN queue' = 1 .. Len(queue) - 1
          /\ \A i \in 1 .. Len(queue) - 1 : queue'[i] = queue[i + 1]
      BY <1>0, <2>1, <2>2
    <3>2. \A i \in 1 .. Len(queue) - 1 : i + 1 \in 1 .. Len(queue)
      BY <3>1
    <3> QED
      BY <3>1, <3>2 DEF Queued
  <2>4. /\ task'[w].stage = "starting" /\ task'[w].job = j
        /\ \A v \in Workers \ {w} : task'[v] = task[v]
    BY <1>0, <2>1, <2>2 DEF Task
  <2>5. \A i \in Jobs \ {j} : TruthOf(i)'
    BY <2>1, <2>3, <2>4, OthersKeepTruth
  <2>6. TruthOf(j) /\ successes[j] \in Nat
    BY DEF TruthInv
  <2>7. j \notin troubled => successes[j] = 0
    BY <2>3, <2>6 DEF TruthOf
  <2>8. TruthOf(j)'
    BY <2>1, <2>4, <2>6, <2>7 DEF TruthOf, At
  <2> QED
    BY <2>1, <2>5, <2>8 DEF TruthInv
<1>4. ASSUME NEW w \in Workers, GetTimesOut(w) \/ CloseSession(w) PROVE TruthInv'
  <2>1. /\ task' = [task EXCEPT ![w] = Waiting] \/ task' = [task EXCEPT ![w] = Stopped]
        /\ UNCHANGED <<row, attempts, arriving, queue, successes, troubled>>
    BY <1>4 DEF GetTimesOut, CloseSession, Leave, Loop, history
  <2>2. /\ \A i \in Jobs : Queued(i)' <=> Queued(i)
        /\ \A i \in Jobs, v \in Workers : task'[v].job = i => task'[v] = task[v]
    BY <1>0, <2>1 DEF Queued
  <2> QED
    BY <2>1, <2>2, TruthUntouched
<1>5. CASE ProcessStep
  <2>1. /\ UNCHANGED <<row, attempts, successes, troubled>>
        /\ arriving' = arriving \/ arriving' = {}
        /\ queue' = queue \/ queue' = <<>>
        /\ \/ task' = task
           \/ task' = [w \in Workers |-> Waiting]
           \/ task' = [w \in Workers |-> Stopped]
    BY <1>5 DEF ProcessStep, BeginStop, CancelWorkers, Crash, Restart, history
  <2>2. /\ \A i \in Jobs : Queued(i)' => Queued(i)
        /\ \A i \in Jobs, w \in Workers : task'[w].job = i => task'[w] = task[w]
    BY <1>0, <2>1 DEF Queued
  <2> QED
    BY <2>1, <2>2, TruthUntouched
<1> QED
  BY <1>1, <1>2, <1>3, <1>4, <1>5

LEMMA TruthStep ==
  ASSUME RecordInv, TruthInv, [QueueNext]_queueVars
  PROVE  TruthInv'
<1>1. ASSUME NEW w \in Workers, WorkerStep(w) \/ HandlerReturns(w)
      PROVE  TruthInv'
  BY <1>1, CarriesOutNothing, MarkTruth, HandlerTruth, CompleteTruth, FailingTruth DEF WorkerStep
<1>2. CASE UNCHANGED queueVars
  <2>1. UNCHANGED <<row, attempts, successes, troubled, arriving, queue, task>>
    BY <1>2 DEF queueVars, memory, history
  <2>2. \A i \in Jobs : Queued(i)' <=> Queued(i)
    BY <2>1 DEF Queued
  <2> QED
    BY <2>1, <2>2, TruthUntouched
<1> QED
  BY <1>1, <1>2, CarriesOutNothing DEF QueueNext

-----------------------------------------------------------------------------
(***************************************************************************)
(* The counters.  They move with the queue and the busy workers in the     *)
(* same step, except where an error skips them; and after stop() nobody    *)
(* moves at all, so what they say then is of no consequence.               *)
(***************************************************************************)
CounterInv ==
  /\ gauge \in [pending : Nat, running : Nat]
  /\ phase \in {"up", "draining", "down"}
  /\ phase = "down" => \A w \in Workers : task[w].stage = "stopped"
  /\ CountersMatch

LEMMA BusyIsFinite == IsFiniteSet(Busy) /\ Cardinality(Busy) \in Nat
<1>1. Busy \subseteq Workers
  BY DEF Busy
<1>2. IsFiniteSet(Busy)
  BY <1>1, QueueAssumption, FS_Subset
<1> QED
  BY <1>2, FS_CardinalityType

\* One worker takes up a job, keeps one or lets go of one.
LEMMA BusyMoves ==
  ASSUME DataOK, NEW w \in Workers, NEW t, task' = [task EXCEPT ![w] = t]
  PROVE  /\ (t.job = NoJob <=> task[w].job = NoJob) => Busy' = Busy
         /\ t.job # NoJob /\ task[w].job = NoJob =>
              Cardinality(Busy') = Cardinality(Busy) + 1
         /\ t.job = NoJob /\ task[w].job # NoJob =>
              Cardinality(Busy') = Cardinality(Busy) - 1
<1>1. task'[w] = t /\ \A v \in Workers \ {w} : task'[v] = task[v]
  BY DEF DataOK
<1>2. ASSUME t.job = NoJob <=> task[w].job = NoJob PROVE Busy' = Busy
  BY <1>1, <1>2 DEF Busy
<1>3. ASSUME t.job # NoJob, task[w].job = NoJob
      PROVE  Cardinality(Busy') = Cardinality(Busy) + 1
  <2>1. Busy' = Busy \cup {w} /\ w \notin Busy
    BY <1>1, <1>3 DEF Busy
  <2> QED
    BY <2>1, BusyIsFinite, FS_AddElement
<1>4. ASSUME t.job = NoJob, task[w].job # NoJob
      PROVE  Cardinality(Busy') = Cardinality(Busy) - 1
  <2>1. Busy' = Busy \ {w} /\ w \in Busy
    BY <1>1, <1>4 DEF Busy
  <2> QED
    BY <2>1, BusyIsFinite, FS_RemoveElement
<1> QED
  BY <1>2, <1>3, <1>4

LEMMA WorkerCounts ==
  ASSUME RecordInv, CounterInv, NEW w \in Workers, NEW t, NEW p \in Int, NEW r \in Int,
         task[w].stage # "stopped",
         task' = [task EXCEPT ![w] = t],
         phase' = phase,
         troubled \subseteq troubled',
         queue' \in Seq(Jobs),
         gauge' = [pending |-> p, running |-> r],
         p - Len(queue') = gauge.pending - Len(queue),
         \/ (t.job = NoJob <=> task[w].job = NoJob) /\ r = gauge.running
         \/ t.job # NoJob /\ task[w].job = NoJob /\ r = gauge.running + 1
         \/ t.job = NoJob /\ task[w].job # NoJob /\ r = gauge.running - 1
         \/ t.job = NoJob /\ task[w].job # NoJob /\ r = gauge.running /\ troubled' # {}
  PROVE  CounterInv'
<1>1. DataOK /\ phase # "down"
  BY DEF RecordInv, CounterInv
<1>2. /\ gauge.pending \in Nat /\ gauge.running \in Nat
      /\ gauge.pending = Len(queue)
      /\ gauge.running >= Cardinality(Busy)
      /\ troubled = {} => gauge.running = Cardinality(Busy)
  BY <1>1 DEF CounterInv, CountersMatch
<1>3. Len(queue) \in Nat /\ Len(queue') \in Nat
  BY <1>1 DEF DataOK
<1>4. p = Len(queue')
  BY <1>2, <1>3
<1>5. Cardinality(Busy) \in Nat /\ Cardinality(Busy') \in Nat
  <2>1. (IsFiniteSet(Busy) /\ Cardinality(Busy) \in Nat)'
    BY BusyIsFinite, PTL
  <2> QED
    BY <2>1, BusyIsFinite
<1>6. /\ r >= Cardinality(Busy')
      /\ troubled' = {} => r = Cardinality(Busy')
  <2>1. troubled' = {} => troubled = {}
    OBVIOUS
  <2> QED
    <3>1. CASE (t.job = NoJob <=> task[w].job = NoJob) /\ r = gauge.running
      BY <1>1, <1>2, <2>1, <3>1, BusyMoves
    <3>2. CASE t.job # NoJob /\ task[w].job = NoJob /\ r = gauge.running + 1
      <4>1. Cardinality(Busy') = Cardinality(Busy) + 1
        BY <1>1, <3>2, BusyMoves
      <4> QED
        BY <1>2, <1>5, <2>1, <3>2, <4>1
    <3>3. CASE t.job = NoJob /\ task[w].job # NoJob
      <4>1. Cardinality(Busy') = Cardinality(Busy) - 1
        BY <1>1, <3>3, BusyMoves
      <4> QED
        BY <1>2, <1>5, <2>1, <3>3, <4>1
    <3> QED
      BY <3>1, <3>2, <3>3
<1>7. gauge'.pending = p /\ gauge'.running = r
  OBVIOUS
<1> QED
  BY <1>1, <1>3, <1>4, <1>5, <1>6, <1>7 DEF CounterInv, CountersMatch

LEMMA CountersInit == QueueInit => CounterInv
<1> SUFFICES ASSUME QueueInit PROVE CounterInv
  OBVIOUS
<1>1. /\ gauge = [pending |-> 0, running |-> 0] /\ queue = <<>> /\ phase = "up"
      /\ \A w \in Workers : task[w].job = NoJob
  BY DEF QueueInit, FreshMemory, Waiting, Task
<1>2. Busy = {}
  BY <1>1 DEF Busy
<1>3. Cardinality(Busy) = 0
  BY <1>2, FS_EmptySet
<1>4. Len(queue) = 0
  BY <1>1
<1> QED
  BY <1>1, <1>3, <1>4 DEF CounterInv, CountersMatch

LEMMA WorkerCountersStep ==
  ASSUME RecordInv, CounterInv, NEW w \in Workers, WorkerStep(w) \/ HandlerReturns(w)
  PROVE  CounterInv'
<1>1. /\ task[w] \in TaskData /\ queue \in Seq(Jobs) /\ DataOK
      /\ task[w].stage \notin {"waiting", "stopped"} => task[w].job \in Jobs \ {NoJob}
      /\ task[w].stage \in {"waiting", "stopped"} => task[w].job = NoJob
      /\ NoJob \notin Jobs
  BY QueueAssumption DEF RecordInv, DataOK, TaskData, IdleHoldsNothing
<1>2. /\ gauge.pending \in Int /\ gauge.running \in Int
      /\ gauge = [pending |-> gauge.pending, running |-> gauge.running]
  BY DEF CounterInv
<1>3. /\ Waiting.job = NoJob /\ Stopped.job = NoJob
      /\ \A stage \in Stages : [task[w] EXCEPT !.stage = stage].job = task[w].job
  BY <1>1 DEF Waiting, Stopped, Task, TaskData
<1>4. CASE Take(w)
  <2>1. /\ task[w].stage = "waiting" /\ queue # <<>>
        /\ task' = [task EXCEPT ![w] = Task("starting", Head(queue))]
        /\ queue' = Tail(queue) /\ phase' = phase /\ troubled' = troubled
        /\ gauge' = [pending |-> gauge.pending - 1, running |-> gauge.running + 1]
    BY <1>4 DEF Take, At, history
  <2>2. /\ Head(queue) \in Jobs /\ queue' \in Seq(Jobs)
        /\ Len(queue') = Len(queue) - 1 /\ Len(queue) \in Nat
    BY <1>1, <2>1
  <2>3. Task("starting", Head(queue)).job # NoJob
    BY <1>1, <2>2 DEF Task
  <2>4. gauge.pending - 1 \in Int /\ gauge.running + 1 \in Int
    BY <1>2
  <2>5. gauge.pending - 1 - Len(queue') = gauge.pending - Len(queue)
    BY <1>2, <2>2
  <2> QED
    BY <1>1, <2>1, <2>2, <2>3, <2>4, <2>5, WorkerCounts
\* The worker keeps its job, or goes on without one.
<1>5. ASSUME NEW t, (t.job = NoJob <=> task[w].job = NoJob),
             task[w].stage # "stopped", task' = [task EXCEPT ![w] = t],
             UNCHANGED <<queue, phase, gauge>>, troubled \subseteq troubled'
      PROVE  CounterInv'
  BY <1>1, <1>2, <1>5, WorkerCounts
<1>6. CASE GetTimesOut(w)
  <2>1. /\ \/ task' = [task EXCEPT ![w] = Waiting]
           \/ task' = [task EXCEPT ![w] = Stopped]
        /\ task[w].stage = "waiting"
        /\ UNCHANGED <<queue, phase, gauge, troubled>>
    BY <1>6 DEF GetTimesOut, Loop, At, history
  <2> QED
    BY <1>1, <1>3, <1>5, <2>1
<1>7. CASE MarkRunning(w) \/ HandlerReturns(w) \/ HandlerRaises(w) \/ CompleteFails(w) \/ GiveUp(w)
  <2>1. PICK stage \in Stages : task' = [task EXCEPT ![w] = [task[w] EXCEPT !.stage = stage]]
    <3>1. {"handling", "completing", "failing", "leaving"} \subseteq Stages
      BY DEF Stages
    <3> QED
      BY <1>7, <3>1 DEF MarkRunning, HandlerReturns, HandlerRaises, CompleteFails, GiveUp, Go
  <2>2. task[w].stage # "stopped"
    BY <1>7 DEF MarkRunning, HandlerReturns, HandlerRaises, CompleteFails, GiveUp, At
  <2>3. UNCHANGED <<queue, phase, gauge>> /\ troubled \subseteq troubled'
    BY <1>7 DEF MarkRunning, HandlerReturns, HandlerRaises, CompleteFails, GiveUp, WriteFails,
                history
  <2> DEFINE t == [task[w] EXCEPT !.stage = stage]
  <2>4. t.job = task[w].job
    BY <1>3
  <2> HIDE DEF t
  <2>5. task' = [task EXCEPT ![w] = t]
    BY <2>1 DEF t
  <2> QED
    BY <1>5, <2>2, <2>3, <2>4, <2>5
<1>8. CASE Retry(w)
  <2> DEFINE t == [task[w] EXCEPT !.stage = "leaving"]
  <2>1. /\ task[w].stage = "failing"
        /\ task' = [task EXCEPT ![w] = t]
        /\ queue' = Append(queue, task[w].job) /\ phase' = phase /\ troubled' = troubled
        /\ gauge' = [pending |-> gauge.pending + 1, running |-> gauge.running]
    BY <1>2, <1>8 DEF Retry, At, Go, Put, history
  <2>2. t.job = task[w].job
    BY <1>1 DEF TaskData
  <2>3. queue' \in Seq(Jobs) /\ Len(queue') = Len(queue) + 1 /\ Len(queue) \in Nat
    BY <1>1, <2>1
  <2>4. PICK p \in Int : p = gauge.pending + 1
    BY <1>2
  <2>5. p - Len(queue') = gauge.pending - Len(queue)
    BY <1>2, <2>3, <2>4
  <2>6. /\ task[w].stage # "stopped" /\ troubled \subseteq troubled'
        /\ t.job = NoJob <=> task[w].job = NoJob
    BY <2>1, <2>2
  <2>7. gauge' = [pending |-> p, running |-> gauge.running]
    BY <2>1, <2>4
  <2> HIDE DEF t
  <2> QED
    BY <1>2, <2>1, <2>3, <2>5, <2>6, <2>7, WorkerCounts
<1>9. CASE Complete(w) \/ CloseSession(w)
  <2>1. /\ task[w].stage \in {"completing", "leaving"}
        /\ UNCHANGED <<queue, phase, troubled>>
        /\ gauge' = [pending |-> gauge.pending, running |-> gauge.running - 1]
    BY <1>2, <1>9 DEF Complete, CloseSession, At, Leave, history
  <2>2. PICK t \in {Waiting, Stopped} : task' = [task EXCEPT ![w] = t]
    BY <1>9 DEF Complete, CloseSession, Leave, Loop
  <2>3. t.job = NoJob /\ task[w].job # NoJob /\ gauge.running - 1 \in Int
    BY <1>1, <1>2, <1>3, <2>1
  <2> QED
    BY <1>1, <1>2, <2>1, <2>2, <2>3, WorkerCounts
<1>10. CASE MarkRunningFails(w) \/ RecordingFails(w)
  <2>1. /\ task[w].stage \in {"starting", "failing"}
        /\ UNCHANGED <<queue, phase, gauge>>
        /\ troubled' = troubled \cup {task[w].job}
    BY <1>10 DEF MarkRunningFails, RecordingFails, At, WriteFails
  <2>2. PICK t \in {Waiting, Stopped} : task' = [task EXCEPT ![w] = t]
    BY <1>10 DEF MarkRunningFails, RecordingFails, Loop
  <2>3. t.job = NoJob /\ task[w].job # NoJob /\ troubled' # {} /\ troubled \subseteq troubled'
    BY <1>1, <1>3, <2>1
  <2>4. gauge' = [pending |-> gauge.pending, running |-> gauge.running]
    BY <1>2, <2>1
  <2>5. queue' \in Seq(Jobs) /\ gauge.pending - Len(queue') = gauge.pending - Len(queue)
    BY <1>1, <2>1
  <2>6. task[w].stage # "stopped" /\ phase' = phase
    BY <2>1
  <2> QED
    BY <1>2, <2>2, <2>3, <2>4, <2>5, <2>6, WorkerCounts
<1> QED
  BY <1>4, <1>6, <1>7, <1>8, <1>9, <1>10 DEF WorkerStep

LEMMA CountersStep ==
  ASSUME RecordInv, CounterInv, [QueueNext]_queueVars
  PROVE  CounterInv'
<1>1. ASSUME NEW j \in Jobs, CommitRow(j) \/ PutRecord(j) PROVE CounterInv'
  <2>1. task' = task /\ phase' = phase /\ troubled' = troubled
    BY <1>1 DEF CommitRow, PutRecord, history
  <2>2. Busy' = Busy
    BY <2>1 DEF Busy
  <2>3. CASE CommitRow(j)
    BY <2>1, <2>2, <2>3 DEF CommitRow, CounterInv, CountersMatch
  <2>4. CASE PutRecord(j)
    <3>1. queue' = Append(queue, j) /\ gauge' = [gauge EXCEPT !.pending = @ + 1]
      BY <2>4 DEF PutRecord, Put
    <3>2. Len(queue') = Len(queue) + 1
      BY <3>1 DEF RecordInv, DataOK
    <3>3. /\ gauge' \in [pending : Nat, running : Nat]
          /\ gauge'.pending = gauge.pending + 1 /\ gauge'.running = gauge.running
      BY <3>1 DEF CounterInv
    <3> QED
      BY <2>1, <2>2, <3>2, <3>3 DEF CounterInv, CountersMatch
  <2> QED
    BY <1>1, <2>3, <2>4
<1>2. ASSUME NEW w \in Workers, WorkerStep(w) \/ HandlerReturns(w) PROVE CounterInv'
  BY <1>2, WorkerCountersStep
<1>3. CASE BeginStop \/ UNCHANGED queueVars
  <2>1. /\ UNCHANGED <<queue, task, gauge, troubled>>
        /\ phase' = phase \/ (phase' = "draining" /\ phase = "up")
    BY <1>3 DEF BeginStop, queueVars, memory, history
  <2>2. Busy' = Busy
    BY <2>1 DEF Busy
  <2> QED
    BY <2>1, <2>2 DEF CounterInv, CountersMatch
<1>4. CASE CancelWorkers \/ Crash
  <2>1. /\ phase' = "down"
        /\ task' = [w \in Workers |-> Stopped]
        /\ gauge' = gauge \/ gauge' = [pending |-> 0, running |-> 0]
    BY <1>4 DEF CancelWorkers, Crash
  <2> QED
    BY <2>1 DEF CounterInv, CountersMatch, Stopped, Task
<1>5. CASE Restart
  <2>1. /\ phase' = "up" /\ queue' = <<>>
        /\ task' = [w \in Workers |-> Waiting]
        /\ gauge' = [pending |-> 0, running |-> 0]
    BY <1>5 DEF Restart
  <2>2. Busy' = {}
    BY <2>1 DEF Busy, Waiting, Task
  <2>3. Cardinality(Busy') = 0
    BY <2>2, FS_EmptySet
  <2>4. Len(queue') = 0
    BY <2>1
  <2> QED
    BY <2>1, <2>3, <2>4 DEF CounterInv, CountersMatch
<1> QED
  BY <1>1, <1>2, <1>3, <1>4, <1>5 DEF QueueNext, ProcessStep

-----------------------------------------------------------------------------
\* The theorems of the queue
(***************************************************************************)
(* A job has one record: no two workers ever run it at the same time, and  *)
(* a retry is never in the queue beside the attempt it repeats             *)
(* (core/jobs/local_queue.py, enqueue and the except branch).              *)
(***************************************************************************)
THEOREM JobHasOneRecord == QueueSpec => []OneRecord
<1>1. RecordInv => OneRecord
  BY DEF RecordInv
<1> QED
  BY <1>1, RecordInit, RecordStep, PTL DEF QueueSpec

\* max_retries bounds the attempts whatever fails in between (_execute_job).
THEOREM AttemptsAreBounded == QueueSpec => []AttemptsBounded
<1>1. RecordInv => AttemptsBounded
  BY DEF RecordInv
<1> QED
  BY <1>1, RecordInit, RecordStep, PTL DEF QueueSpec

(***************************************************************************)
(* The rows, the counters and the work agree on every job, through any     *)
(* faults and restarts: a completed job was carried out, a failed one used *)
(* up its attempts, no job is carried out twice unless one of its          *)
(* transactions failed, and the counters count (core/jobs/local_queue.py). *)
(***************************************************************************)
THEOREM JobRecordsAlwaysAgree == QueueSpec => []JobRecordsAgree
<1>1. TruthInv => RowTellsTheTruth
  BY DEF TruthInv, TruthOf, RowTellsTheTruth
<1>2. CounterInv => CountersMatch
  BY DEF CounterInv
<1> QED
  BY <1>1, <1>2, RecordInit, RecordStep, TruthInit, TruthStep, CountersInit, CountersStep, PTL
     DEF QueueSpec, JobRecordsAgree

\* The queue is well typed: no counter is ever negative.
THEOREM QueueTypeCorrect == QueueSpec => []QueueTypeOK
<1>1. RecordInv /\ TruthInv /\ CounterInv => QueueTypeOK
  BY DEF RecordInv, DataOK, TaskData, TruthInv, CounterInv, QueueTypeOK
<1> QED
  BY <1>1, RecordInit, RecordStep, TruthInit, TruthStep, CountersInit, CountersStep, PTL
     DEF QueueSpec

-----------------------------------------------------------------------------
\* Exports

LEMMA ExportStepIsQueueStep ==
  ASSUME [ExportNext]_exportVars
  PROVE  [QueueNext]_queueVars
<1>1. CASE \E w \in Workers : WriteExport(w)
  BY <1>1 DEF WriteExport, QueueNext
<1>2. CASE UNCHANGED exportVars
  BY <1>2 DEF exportVars
<1>3. ASSUME NEW j \in Jobs, (\E t \in Tenants : CreateExport(j, t)) \/ PutRecord(j)
      PROVE  QueueNext
  BY <1>3 DEF CreateExport, QueueNext
<1>4. ASSUME NEW w \in Workers, WorkerStep(w) PROVE QueueNext
  BY <1>4 DEF QueueNext
<1>5. CASE ProcessStep
  BY <1>5 DEF QueueNext
<1> QED
  BY <1>1, <1>2, <1>3, <1>4, <1>5 DEF ExportNext

(***************************************************************************)
(* The queue of the exports is the job queue: every step of an export is a *)
(* step of its job, or none (jobs/export_jobs.py over local_queue.py).     *)
(***************************************************************************)
THEOREM ExportsAreJobs == ExportSpec => QueueSpec
<1>1. ExportInit => QueueInit
  BY DEF ExportInit
<1> QED
  BY <1>1, ExportStepIsQueueStep, PTL DEF ExportSpec, QueueSpec

\* The handler has written the file before its job can be completed, and nobody else has.
FileWritten ==
  /\ \A w \in Workers : At(w, "completing") => task[w].job \in sidecars
  /\ \A j \in Jobs : row[j] = "completed" => j \in sidecars
  /\ \A j \in Jobs : j \in sidecars => successes[j] >= 1
  /\ successes \in [Jobs -> Nat]

LEMMA FileInit == ExportInit => FileWritten
BY DEF ExportInit, QueueInit, FreshMemory, FileWritten, At, Waiting, Task

LEMMA FileStep ==
  ASSUME RecordInv, FileWritten, [ExportNext]_exportVars
  PROVE  FileWritten'
<1>1. ASSUME NEW w \in Workers, WriteExport(w) PROVE FileWritten'
  <2>1. /\ task' = [task EXCEPT ![w].stage = "completing"]
        /\ row' = row
        /\ sidecars' = sidecars \cup {task[w].job}
        /\ successes' = [successes EXCEPT ![task[w].job] = @ + 1]
    BY <1>1 DEF WriteExport, HandlerReturns, Go
  <2>2. /\ task'[w].job = task[w].job
        /\ \A v \in Workers \ {w} : task'[v] = task[v]
    BY <2>1 DEF RecordInv, DataOK, TaskData
  <2>3. successes' = [j \in Jobs |-> IF j = task[w].job THEN successes[j] + 1 ELSE successes[j]]
    BY <2>1 DEF FileWritten
  <2>4. \A j \in Jobs : successes[j] \in Nat /\ (j \in sidecars => successes[j] >= 1)
    BY DEF FileWritten
  <2>5. successes' \in [Jobs -> Nat]
    BY <2>3, <2>4
  <2>6. \A j \in Jobs : j \in sidecars' => successes'[j] >= 1
    BY <2>1, <2>3, <2>4
  <2> QED
    BY <2>1, <2>2, <2>5, <2>6 DEF FileWritten, At
<1>2. ASSUME sidecars' = sidecars, successes' = successes,
             \A v \in Workers : At(v, "completing")' => task'[v] = task[v],
             \A j \in Jobs : row'[j] = "completed" =>
               row[j] = "completed" \/ \E w \in Workers : At(w, "completing") /\ task[w].job = j
      PROVE  FileWritten'
  BY <1>2 DEF FileWritten, At
<1>3. ASSUME sidecars' = sidecars, NEW j \in Jobs, CommitRow(j) \/ PutRecord(j)
      PROVE  FileWritten'
  <2>1. /\ task' = task /\ successes' = successes
        /\ \A i \in Jobs : row'[i] = "completed" => row[i] = "completed"
    BY <1>3 DEF CommitRow, PutRecord, history, Write, RecordInv, DataOK
  <2> QED
    BY <1>2, <1>3, <2>1
<1>4. ASSUME sidecars' = sidecars, NEW w \in Workers, WorkerStep(w)
      PROVE  FileWritten'
  <2> DEFINE t == task'[w]
  <2>1. \A v \in Workers \ {w} : task'[v] = task[v]
    BY <1>4 DEF WorkerStep, Take, GetTimesOut, MarkRunning, MarkRunningFails, HandlerRaises,
                Complete, CompleteFails, Retry, GiveUp, RecordingFails, CloseSession, Leave,
                Loop, Go, RecordInv, DataOK
  <2>2. t.stage # "completing"
    <3>1. \/ \E u \in {Waiting, Stopped, Task("starting", Head(queue))} : t = u
          \/ \E stage \in {"handling", "failing", "leaving"} : t = [task[w] EXCEPT !.stage = stage]
      BY <1>4 DEF WorkerStep, Take, GetTimesOut, MarkRunning, MarkRunningFails, HandlerRaises,
                  Complete, CompleteFails, Retry, GiveUp, RecordingFails, CloseSession, Leave,
                  Loop, Go, RecordInv, DataOK
    <3>2. task[w] \in TaskData
      BY DEF RecordInv, DataOK
    <3> QED
      BY <3>1, <3>2 DEF Waiting, Stopped, Task, TaskData
  <2>3. \A j \in Jobs : row'[j] = "completed" =>
          row[j] = "completed" \/ (At(w, "completing") /\ task[w].job = j)
    BY <1>4 DEF WorkerStep, Take, GetTimesOut, MarkRunning, MarkRunningFails, HandlerRaises,
                Complete, CompleteFails, Retry, GiveUp, RecordingFails, CloseSession, WriteFails,
                Write, RecordInv, DataOK
  <2>4. successes' = successes
    BY <1>4 DEF WorkerStep, Take, GetTimesOut, MarkRunning, MarkRunningFails, HandlerRaises,
                Complete, CompleteFails, Retry, GiveUp, RecordingFails, CloseSession, history
  <2> QED
    BY <1>2, <1>4, <2>1, <2>2, <2>3, <2>4 DEF At
<1>5. ASSUME sidecars' = sidecars, ProcessStep
      PROVE  FileWritten'
  <2>1. row' = row /\ successes' = successes
    BY <1>5 DEF ProcessStep, BeginStop, CancelWorkers, Crash, Restart, history
  <2>2. \/ task' = task
        \/ \A w \in Workers : task'[w] \in {Waiting, Stopped}
    BY <1>5 DEF ProcessStep, BeginStop, CancelWorkers, Crash, Restart
  <2> QED
    BY <1>2, <1>5, <2>1, <2>2 DEF At, Waiting, Stopped, Task
<1>6. CASE UNCHANGED exportVars
  BY <1>6 DEF exportVars, queueVars, memory, history, FileWritten, At
<1> QED
  BY <1>1, <1>3, <1>4, <1>5, <1>6 DEF ExportNext, CreateExport

\* The types of what the exports add to the queue.
PayloadTypeOK == tenant \in [Jobs -> Tenants \cup {NoTenant}] /\ sidecars \subseteq Jobs

\* Only jobs have sidecars, and the queue of the exports is well typed.
THEOREM ExportTypeCorrect == ExportSpec => []ExportTypeOK
<1>1. ExportInit => QueueInit /\ PayloadTypeOK
  BY DEF ExportInit, PayloadTypeOK
<1>2. RecordInv /\ PayloadTypeOK /\ [ExportNext]_exportVars => PayloadTypeOK'
  <2> SUFFICES ASSUME RecordInv, PayloadTypeOK, [ExportNext]_exportVars
               PROVE  PayloadTypeOK'
    OBVIOUS
  <2>1. ASSUME NEW w \in Workers, WriteExport(w) PROVE PayloadTypeOK'
    <3>1. task[w].job \in Jobs
      BY <2>1, RunnerIsAlone DEF WriteExport, HandlerReturns, At
    <3> QED
      BY <2>1, <3>1 DEF WriteExport, PayloadTypeOK
  <2>2. ASSUME NEW j \in Jobs, NEW t \in Tenants, CreateExport(j, t) PROVE PayloadTypeOK'
    BY <2>2 DEF CreateExport, PayloadTypeOK
  <2>3. ASSUME UNCHANGED <<tenant, sidecars>> PROVE PayloadTypeOK'
    BY <2>3 DEF PayloadTypeOK
  <2> QED
    BY <2>1, <2>2, <2>3 DEF ExportNext, exportVars
<1>3. ExportTypeOK <=> QueueTypeOK /\ PayloadTypeOK
  BY DEF ExportTypeOK, PayloadTypeOK
<1>4. ExportSpec => QueueSpec
  BY ExportsAreJobs
<1>5. QueueSpec => []QueueTypeOK
  BY QueueTypeCorrect
<1> QED
  BY <1>1, <1>2, <1>3, <1>4, <1>5, RecordInit, RecordStep, ExportStepIsQueueStep, PTL
     DEF ExportSpec

(***************************************************************************)
(* The only export of a tenant to have been carried out is what a download *)
(* of it sends, after any failures and beside any other tenants' exports   *)
(* (exports.py, download_export and _find_job_metadata).                   *)
(***************************************************************************)
THEOREM LoneExportIsAlwaysDelivered == ExportSpec => []LoneExportIsDelivered
<1>1. ASSUME FileWritten, PayloadTypeOK PROVE LoneExportIsDelivered
  <2> SUFFICES ASSUME NEW j \in Jobs, row[j] = "completed",
                      \A k \in Jobs \ {j} : tenant[k] = tenant[j] => successes[k] = 0
               PROVE  Found(j) = {j}
    BY DEF LoneExportIsDelivered, Served
  <2>1. j \in Found(j)
    BY <1>1 DEF FileWritten, Found
  <2>2. ASSUME NEW k \in Found(j) PROVE k = j
    <3>1. k \in Jobs /\ tenant[k] = tenant[j] /\ successes[k] >= 1
      BY <1>1, <2>2 DEF Found, FileWritten, PayloadTypeOK
    <3> QED
      BY <3>1
  <2> QED
    BY <2>1, <2>2
<1>2. ExportInit => QueueInit
  BY DEF ExportInit
<1>3. ExportTypeOK => PayloadTypeOK
  BY DEF ExportTypeOK, PayloadTypeOK
<1> QED
  BY <1>1, <1>2, <1>3, ExportTypeCorrect, FileInit, FileStep, RecordInit, RecordStep,
     ExportStepIsQueueStep, PTL DEF ExportSpec
=============================================================================
