----------------------------- MODULE Executions -----------------------------
(***************************************************************************)
(* The gate before a governed action: a dry run, a recorded request bound  *)
(* to it, and the completion of the one action that is realized.  All its  *)
(* state is in the memory of the process.  Each of the three reads the     *)
(* approval through the durable store (an audited read) and decides on     *)
(* what it read, after the await.                                          *)
(***************************************************************************)
EXTENDS Approvals

CONSTANTS
  Executions,  \* the calls that may be made: kind, executor, approval, action, key
  Governed     \* the actions with a realized completion

ExecutionType ==
  [kind : {"dry_run", "record", "complete"}, executor : Actors, on : Approvals,
   action : Actions, key : Keys]

ASSUME ExecutionsAssumption ==
  /\ Executions \subseteq ExecutionType
  /\ Governed \subseteq {x \in Actions : ClassOf[x] = "read"}
  /\ None \notin ExecutionType

VARIABLES
  asking,     \* the call whose read of the approval a session is doing
  dryRuns,    \* passed dry runs that have not expired
  recorded,   \* the execution request each key stands for
  completed   \* governed actions that were completed

gateVars == <<dryRuns, recorded, completed>>
vars == <<request, decisions, decideKeys, openKeys, audit, session, asking,
          dryRuns, recorded, completed>>

ExecutionsInit ==
  /\ ApprovalsInit
  /\ asking = [s \in Sessions |-> None]
  /\ dryRuns = {}
  /\ recorded = [k \in Keys |-> None]
  /\ completed = {}

\* A mutant of DryRunOf: the whole call is stored.
WholeCall(x) == x

DryRunOf(x) == [on |-> x.on, action |-> x.action, executor |-> x.executor]

\* A matching dry run, and for a completion a matching recorded request.  Two
\* dry runs of one binding are not told apart.
Bound(x) ==
  /\ x.kind \in {"record", "complete"} => DryRunOf(x) \in dryRuns
  /\ x.kind = "complete" => x.action \in Governed /\ recorded[x.key] = DryRunOf(x)

ReadFor(x) ==
  [op |-> "read", actor |-> x.executor, on |-> x.on, action |-> x.action,
   source |-> "valid", key |-> x.key, verdict |-> "approve"]

\* A call that is not bound is blocked whatever the approval says (its read,
\* when it makes one, is a read of Calls).
Ask(s, x) ==
  /\ asking[s] = None
  /\ Bound(x)
  /\ Begin(s, ReadFor(x))
  /\ asking' = [asking EXCEPT ![s] = x]
  /\ UNCHANGED gateVars

\* A mutant of Executable: the state of the approval is not looked at.
ExecutableEarly(s) ==
  /\ session[s].pc = "answered"
  /\ session[s].row.action = asking[s].action
  /\ asking[s].executor \notin {session[s].row.maker} \cup Voters(session[s].seen)

\* _check_approval_preconditions, on the row and the decisions read.
Executable(s) ==
  LET x == asking[s]  row == session[s].row IN
  /\ session[s].pc = "answered"
  /\ row.state = "approved_execution_blocked"
  /\ row.action = x.action
  /\ ClassOf[x.action] # "read" => row.source = "valid"
  /\ x.executor # row.maker
  /\ x.executor \notin Voters(session[s].seen)

Answered(s) ==
  /\ asking' = [asking EXCEPT ![s] = None]
  /\ End(s)
  /\ UNCHANGED <<request, decisions, decideKeys, openKeys, audit>>

DryRun(s) ==
  /\ asking[s] # None /\ asking[s].kind = "dry_run"
  /\ Executable(s)
  /\ dryRuns' = dryRuns \cup {DryRunOf(asking[s])}
  /\ Answered(s)
  /\ UNCHANGED <<recorded, completed>>

\* The key is looked up after the read: one that stands for something else
\* is a conflict, one that stands for the same request a replay.
Record(s) ==
  /\ asking[s] # None /\ asking[s].kind = "record"
  /\ Executable(s)
  /\ recorded[asking[s].key] = None
  /\ recorded' = [recorded EXCEPT ![asking[s].key] = DryRunOf(asking[s])]
  /\ Answered(s)
  /\ UNCHANGED <<dryRuns, completed>>

\* The source that is read answers, or is unavailable and the call failed.
Complete(s) ==
  /\ asking[s] # None /\ asking[s].kind = "complete"
  /\ Executable(s)
  /\ recorded[asking[s].key] \in {None, DryRunOf(asking[s])}
  /\ \/ completed' = completed \cup {DryRunOf(asking[s])}
     \/ UNCHANGED completed
  /\ Answered(s)
  /\ UNCHANGED <<dryRuns, recorded>>

\* The approval could not be read, or a precondition fails.
Blocked(s) ==
  /\ asking[s] # None
  /\ session[s].pc \in {"idle", "answered"}
  /\ Answered(s)
  /\ UNCHANGED gateVars

Expire == \E d \in dryRuns :
  /\ dryRuns' = dryRuns \ {d}
  /\ UNCHANGED <<approvalVars, asking, recorded, completed>>

Restart ==
  /\ session' = [s \in Sessions |-> Idle]
  /\ asking' = [s \in Sessions |-> None]
  /\ dryRuns' = {}
  /\ recorded' = [k \in Keys |-> None]
  /\ UNCHANGED <<request, decisions, decideKeys, openKeys, audit, completed>>

StoreStep(s) ==
  /\ \/ Step(s)
     \/ Leave(s)
     \/ asking[s] = None /\ \E call \in Calls : Begin(s, call)
  /\ UNCHANGED <<asking, dryRuns, recorded, completed>>

ExecutionsNext ==
  \/ \E s \in Sessions : \/ StoreStep(s)
                         \/ DryRun(s) \/ Record(s) \/ Complete(s) \/ Blocked(s)
                         \/ \E x \in Executions : Ask(s, x)
  \/ Expire
  \/ Restart

ExecutionsSpec == ExecutionsInit /\ [][ExecutionsNext]_vars

-----------------------------------------------------------------------------
(* Properties.                                                             *)

Bindings == [on : Approvals, action : Actions, executor : Actors]

ExecutionsTypeOK ==
  /\ ApprovalsTypeOK
  /\ asking \in [Sessions -> Executions \cup {None}]
  /\ dryRuns \subseteq Bindings
  /\ recorded \in [Keys -> Bindings \cup {None}]
  /\ completed \subseteq Bindings

(***************************************************************************)
(* An action that was completed is one its approval stands for, then and   *)
(* ever after, and its executor is neither the maker nor a checker of it:  *)
(* no vote that was under way while it was executed is added to the row.   *)
(***************************************************************************)
CompletedIsAuthorised ==
  \A c \in completed :
    /\ request[c.on].state = "approved_execution_blocked"
    /\ request[c.on].action = c.action
    /\ c.executor \notin {request[c.on].maker} \cup Voters(decisions[c.on])
=============================================================================
