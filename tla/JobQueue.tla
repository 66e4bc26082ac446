------------------------------ MODULE JobQueue ------------------------------
(***************************************************************************)
(* The background job queue of core/jobs/local_queue.py.  A job is a row   *)
(* of sys_jobs and a record in the memory of the process that took it in;  *)
(* worker tasks of that process take records from an asyncio queue, run    *)
(* the handler and write the row.  A step is the code between two awaits   *)
(* on the database, the handler or the queue.                              *)
(*                                                                         *)
(* The process may be killed, and a transaction on sys_jobs may fail, if   *)
(* Faults says so; a commit that reports an error may have taken effect.   *)
(***************************************************************************)
EXTENDS Integers, Sequences, FiniteSets

CONSTANTS
  Jobs,
  NoJob,        \* what an idle worker holds
  Workers,
  MaxRetries,   \* max_retries, the same for all jobs
  Faults        \* the faults that may occur: "crash", "database", "shutdown"

ASSUME QueueAssumption ==
  /\ NoJob \notin Jobs
  /\ IsFiniteSet(Workers)
  /\ MaxRetries \in Nat
  /\ Faults \subseteq {"crash", "database", "shutdown"}

VARIABLES
  row,         \* row[j]: status of the row of sys_jobs, "none" before it exists
  attempts,    \* attempts[j]: the column
  arriving,    \* jobs whose enqueue has committed the row but not yet put the record
  queue,       \* the records in asyncio.Queue
  task,        \* task[w]: where worker w is, and its job
  phase,       \* self.running and how far stop() has come
  gauge,       \* stats: the pending and running counters
  successes,   \* successes[j]: how often the handler has returned (history)
  troubled     \* the jobs one of whose transactions has failed (history)

memory == <<arriving, queue, task, phase, gauge>>
history == <<successes, troubled>>
queueVars == <<row, attempts, memory, history>>

Statuses == {"none", "pending", "running", "completed", "failed"}
Stages == {"waiting", "starting", "handling", "completing", "failing", "leaving", "stopped"}
Task(stage, j) == [stage |-> stage, job |-> j]
Waiting == Task("waiting", NoJob)
Stopped == Task("stopped", NoJob)

QueueTypeOK ==
  /\ row \in [Jobs -> Statuses]
  /\ attempts \in [Jobs -> Nat]
  /\ arriving \subseteq Jobs
  /\ queue \in Seq(Jobs)
  /\ task \in [Workers -> [stage : Stages, job : Jobs \cup {NoJob}]]
  /\ phase \in {"up", "draining", "down"}
  /\ gauge \in [pending : Nat, running : Nat]
  /\ successes \in [Jobs -> Nat]
  /\ troubled \subseteq Jobs

\* A process that has just called start().
FreshMemory ==
  /\ arriving = {}
  /\ queue = <<>>
  /\ task = [w \in Workers |-> Waiting]
  /\ phase = "up"
  /\ gauge = [pending |-> 0, running |-> 0]

QueueInit ==
  /\ FreshMemory
  /\ row = [j \in Jobs |-> "none"]
  /\ attempts = [j \in Jobs |-> 0]
  /\ successes = [j \in Jobs |-> 0]
  /\ troubled = {}

-----------------------------------------------------------------------------
\* Helpers

At(w, stage) == task[w].stage = stage
Go(w, stage) == task' = [task EXCEPT ![w].stage = stage]

\* The loop condition of _worker, once it is done with a job or has waited in vain.
Loop(w) == task' = [task EXCEPT ![w] = IF phase = "up" THEN Waiting ELSE Stopped]

\* A mutant of Put: the counter is left alone.
PutUncounted(j) == queue' = Append(queue, j) /\ UNCHANGED gauge

\* self.queue.put does not suspend: the queue is unbounded.
Put(j) ==
  /\ queue' = Append(queue, j)
  /\ gauge' = [gauge EXCEPT !.pending = @ + 1]

Write(j, status) == row' = [row EXCEPT ![j] = status]

\* A failed transaction: its write is lost, or only its acknowledgement is.
WriteFails(j, status) ==
  /\ "database" \in Faults
  /\ Write(j, status) \/ UNCHANGED row
  /\ troubled' = troubled \cup {j}

\* A mutant of MayRetry: the first attempt does not count as one.
MayRetryOnceMore(j) == attempts[j] <= MaxRetries

\* current_attempts < max_retries
MayRetry(j) == attempts[j] < MaxRetries

-----------------------------------------------------------------------------
\* enqueue: the row is committed, then the record is put.

CommitRow(j) ==
  /\ phase # "down"
  /\ row[j] = "none"
  /\ Write(j, "pending")
  /\ arriving' = arriving \cup {j}
  /\ UNCHANGED <<attempts, queue, task, phase, gauge, history>>

PutRecord(j) ==
  /\ j \in arriving
  /\ arriving' = arriving \ {j}
  /\ Put(j)
  /\ UNCHANGED <<row, attempts, task, phase, history>>

-----------------------------------------------------------------------------
\* _worker

\* queue.get returns a record; _execute_job runs up to its first transaction.
Take(w) ==
  /\ At(w, "waiting")
  /\ queue # <<>>
  /\ task' = [task EXCEPT ![w] = Task("starting", Head(queue))]
  /\ queue' = Tail(queue)
  /\ gauge' = [pending |-> gauge.pending - 1, running |-> gauge.running + 1]
  /\ UNCHANGED <<row, attempts, arriving, phase, history>>

\* wait_for gives up after a second.
GetTimesOut(w) ==
  /\ At(w, "waiting")
  /\ queue = <<>>
  /\ Loop(w)
  /\ UNCHANGED <<row, attempts, arriving, queue, phase, gauge, history>>

MarkRunning(w) ==
  /\ At(w, "starting")
  /\ LET j == task[w].job IN
       /\ Write(j, "running")
       /\ attempts' = [attempts EXCEPT ![j] = @ + 1]
  /\ Go(w, "handling")
  /\ UNCHANGED <<arriving, queue, phase, gauge, history>>

\* The error leaves _execute_job, which has no handler for it yet; _worker logs it.
MarkRunningFails(w) ==
  /\ At(w, "starting")
  /\ LET j == task[w].job IN
       /\ WriteFails(j, "running")
       /\ attempts' = [attempts EXCEPT ![j] = IF row' = row THEN @ ELSE @ + 1]
  /\ Loop(w)
  /\ UNCHANGED <<arriving, queue, phase, gauge, successes>>

HandlerReturns(w) ==
  /\ At(w, "handling")
  /\ successes' = [successes EXCEPT ![task[w].job] = @ + 1]
  /\ Go(w, "completing")
  /\ UNCHANGED <<row, attempts, arriving, queue, phase, gauge, troubled>>

\* A mutant of HandlerRaises: the record is put back before the failure is recorded.
EagerRequeue(w) ==
  /\ At(w, "handling")
  /\ Put(task[w].job)
  /\ Go(w, "failing")
  /\ UNCHANGED <<row, attempts, arriving, phase, history>>

HandlerRaises(w) ==
  /\ At(w, "handling")
  /\ Go(w, "failing")
  /\ UNCHANGED <<row, attempts, arriving, queue, phase, gauge, history>>

\* A mutant of Leave: the counter is left alone.
LeaveUncounted(w) == Loop(w) /\ UNCHANGED gauge

\* running is decremented and the worker returns to its loop.
Leave(w) ==
  /\ gauge' = [gauge EXCEPT !.running = @ - 1]
  /\ Loop(w)

\* A mutant of Complete: the code runs on into the failure branch.
FallThrough(w) ==
  /\ At(w, "completing")
  /\ Write(task[w].job, "completed")
  /\ Go(w, "failing")
  /\ UNCHANGED <<attempts, arriving, queue, phase, gauge, history>>

Complete(w) ==
  /\ At(w, "completing")
  /\ Write(task[w].job, "completed")
  /\ Leave(w)
  /\ UNCHANGED <<attempts, arriving, queue, phase, history>>

\* The write is inside the try of the handler: its error is treated as the handler's.
CompleteFails(w) ==
  /\ At(w, "completing")
  /\ WriteFails(task[w].job, "completed")
  /\ Go(w, "failing")
  /\ UNCHANGED <<attempts, arriving, queue, phase, gauge, successes>>

\* A mutant of Retry: the row is pending again, the record is not in the queue.
RowOnlyRetry(w) ==
  /\ At(w, "failing")
  /\ MayRetry(task[w].job)
  /\ Write(task[w].job, "pending")
  /\ Go(w, "leaving")
  /\ UNCHANGED <<attempts, arriving, queue, phase, gauge, history>>

\* The except branch: another attempt, put in the queue by the worker itself, ...
Retry(w) ==
  /\ At(w, "failing")
  /\ MayRetry(task[w].job)
  /\ Write(task[w].job, "pending")
  /\ Put(task[w].job)
  /\ Go(w, "leaving")
  /\ UNCHANGED <<attempts, arriving, phase, history>>

\* ... or none.
GiveUp(w) ==
  /\ At(w, "failing")
  /\ ~MayRetry(task[w].job)
  /\ Write(task[w].job, "failed")
  /\ Go(w, "leaving")
  /\ UNCHANGED <<attempts, arriving, queue, phase, gauge, history>>

\* The session of the except branch is closed, and the counters follow.
CloseSession(w) ==
  /\ At(w, "leaving")
  /\ Leave(w)
  /\ UNCHANGED <<row, attempts, arriving, queue, phase, history>>

\* An error in the except branch skips the record, the counters and task_done.
RecordingFails(w) ==
  /\ At(w, "failing")
  /\ WriteFails(task[w].job, IF MayRetry(task[w].job) THEN "pending" ELSE "failed")
  /\ Loop(w)
  /\ UNCHANGED <<attempts, arriving, queue, phase, gauge, successes>>

-----------------------------------------------------------------------------
\* stop, the end of the process and its restart

BeginStop ==
  /\ "shutdown" \in Faults
  /\ phase = "up"
  /\ phase' = "draining"
  /\ UNCHANGED <<row, attempts, arriving, queue, task, gauge, history>>

\* queue.join() has returned or timed out: the workers are cancelled where they are.
CancelWorkers ==
  /\ phase = "draining"
  /\ phase' = "down"
  /\ task' = [w \in Workers |-> Stopped]
  /\ UNCHANGED <<row, attempts, arriving, queue, gauge, history>>

\* The process is killed between any two steps.
Crash ==
  /\ "crash" \in Faults
  /\ phase # "down"
  /\ phase' = "down"
  /\ arriving' = {}
  /\ queue' = <<>>
  /\ task' = [w \in Workers |-> Stopped]
  /\ gauge' = [pending |-> 0, running |-> 0]
  /\ UNCHANGED <<row, attempts, history>>

\* The lifespan of the next process builds an empty queue; nothing reads sys_jobs back.
Restart ==
  /\ phase = "down"
  /\ arriving' = {}
  /\ queue' = <<>>
  /\ task' = [w \in Workers |-> Waiting]
  /\ phase' = "up"
  /\ gauge' = [pending |-> 0, running |-> 0]
  /\ UNCHANGED <<row, attempts, history>>

-----------------------------------------------------------------------------
\* Every step of a worker but the successful end of its handler.
WorkerStep(w) ==
  \/ Take(w) \/ GetTimesOut(w)
  \/ MarkRunning(w) \/ MarkRunningFails(w) \/ HandlerRaises(w)
  \/ Complete(w) \/ CompleteFails(w)
  \/ Retry(w) \/ GiveUp(w) \/ RecordingFails(w) \/ CloseSession(w)

ProcessStep == BeginStop \/ CancelWorkers \/ Crash \/ Restart

QueueNext ==
  \/ \E j \in Jobs : CommitRow(j) \/ PutRecord(j)
  \/ \E w \in Workers : WorkerStep(w) \/ HandlerReturns(w)
  \/ ProcessStep

QueueSpec == QueueInit /\ [][QueueNext]_queueVars

(***************************************************************************)
(* The event loop runs every task that is ready, the database answers, and *)
(* a handler ends: the assumption of the queue, which sets no timeout.     *)
(* Nothing obliges anybody to enqueue or to stop.                          *)
(***************************************************************************)
HandlerEnds(w) == HandlerReturns(w) \/ HandlerRaises(w)

QueueFairness ==
  /\ \A j \in Jobs : WF_queueVars(PutRecord(j))
  /\ \A w \in Workers :
       /\ WF_queueVars(Take(w))
       /\ WF_queueVars(MarkRunning(w))
       /\ WF_queueVars(HandlerEnds(w))
       /\ WF_queueVars(Complete(w))
       /\ WF_queueVars(Retry(w) \/ GiveUp(w))
       /\ WF_queueVars(CloseSession(w))

-----------------------------------------------------------------------------
\* Properties

Queued(j) == \E i \in DOMAIN queue : queue[i] = j

\* Worker w may still write the row of job j.
Runs(w, j) == task[w].job = j /\ ~At(w, "leaving")

Busy == {w \in Workers : task[w].job # NoJob}

(***************************************************************************)
(* A job has at most one record: it is arriving, in the queue once, or run *)
(* by one worker.  A retry puts the record back while its worker is still  *)
(* in the except branch and another one may take it.                       *)
(***************************************************************************)
OneRecord ==
  /\ \A h, i \in DOMAIN queue : queue[h] = queue[i] => h = i
  /\ \A j \in Jobs : ~(j \in arriving /\ Queued(j))
  /\ \A j \in Jobs, v \in Workers :
       Runs(v, j) =>
         /\ ~Queued(j)
         /\ j \notin arriving
         /\ \A w \in Workers : Runs(w, j) => v = w

\* No job is started more often than max_retries, and at least one attempt is
\* made, whatever fails in between and however the workers interleave.
AttemptsBounded == \A j \in Jobs : attempts[j] <= MaxRetries \/ attempts[j] <= 1

(***************************************************************************)
(* What a row says of its job: a completed one was carried out, a failed   *)
(* one used up its attempts; and unless one of its transactions failed,    *)
(* work that was carried out is not repeated or recorded as failed.        *)
(***************************************************************************)
RowTellsTheTruth ==
  \A j \in Jobs :
    /\ row[j] = "completed" => successes[j] >= 1
    /\ row[j] = "failed" => attempts[j] >= MaxRetries
    /\ j \notin troubled =>
         successes[j] = 0 \/ (successes[j] = 1 /\ row[j] \in {"running", "completed"})

(***************************************************************************)
(* The pending counter is the length of the queue.  The running counter    *)
(* counts the busy workers, and lost errors only ever make it too large.   *)
(***************************************************************************)
CountersMatch ==
  phase # "down" =>
    /\ gauge.pending = Len(queue)
    /\ gauge.running >= Cardinality(Busy)
    /\ troubled = {} => gauge.running = Cardinality(Busy)

(***************************************************************************)
(* The database, the in-memory counters and the work that was done agree   *)
(* on every job, through faults, retries and restarts.                     *)
(***************************************************************************)
JobRecordsAgree == RowTellsTheTruth /\ CountersMatch

\* The process still has the record of job j.
Held(j) == j \in arriving \/ Queued(j) \/ \E w \in Workers : Runs(w, j)

(***************************************************************************)
(* A job the process holds is completed or given up, unless one of its     *)
(* transactions fails or the process ends first.  No record is dropped on  *)
(* any other path, whatever becomes of the other jobs.                     *)
(***************************************************************************)
EveryJobSettles ==
  \A j \in Jobs :
    row[j] \in {"pending", "running"} /\ Held(j) /\ phase = "up" ~>
      row[j] \in {"completed", "failed"} \/ j \in troubled \/ phase # "up"
=============================================================================
