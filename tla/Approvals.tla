----------------------------- MODULE Approvals -----------------------------
(***************************************************************************)
(* The durable store of platform approvals.  A maker opens a request, two  *)
(* other operators (one for an action that only reads) approve it, or one  *)
(* rejects it.  A call is one transaction at READ COMMITTED, and what it   *)
(* writes rests on what its earlier statements read.                       *)
(*                                                                         *)
(* Every audit event of an approval takes the next number, and the pair    *)
(* (approval, number) is unique.  A call that has inserted its first event *)
(* therefore keeps every other writer of that approval out until it ends:  *)
(* whoever computed the same number waits for it, and fails when it        *)
(* commits.  So the writes of a call, up to its commit, are one step here. *)
(***************************************************************************)
EXTENDS Naturals, Sequences, FiniteSets

CONSTANTS
  Approvals,   \* identifiers of approval requests
  Actors,      \* the platform operators
  Actions,     \* what can be asked for: an action and its target
  ClassOf,     \* the class of each action
  Keys,        \* digests of idempotency keys
  Calls,       \* the calls that may be made
  Sessions,    \* database sessions
  MaxEvents,   \* no call is made once an approval has this many audit events
  None

Verdicts == {"approve", "reject"}

CallType ==
  [op : {"create", "decide", "read"}, actor : Actors, on : Approvals \cup {None},
   action : Actions, source : {"valid", "source_unknown"}, key : Keys, verdict : Verdicts]

ASSUME ApprovalsAssumption ==
  /\ IsFiniteSet(Actors) /\ None \notin Actors
  /\ ClassOf \in [Actions -> {"read", "write", "write_request"}]
  /\ Calls \subseteq CallType
  /\ \A c \in Calls : c.op # "create" => c.on \in Approvals
  /\ None \notin Approvals

QuorumOf(action) == IF ClassOf[action] = "read" THEN 1 ELSE 2

Terminal == {"rejected", "approved_execution_blocked"}

RequestType ==
  [state : {"unopened", "pending_review"} \cup Terminal, maker : Actors \cup {None},
   action : Actions \cup {None}, source : {"valid", "source_unknown"}, version : Nat]

VotesType == [approve : SUBSET Actors, reject : SUBSET Actors]

Unopened ==
  [state |-> "unopened", maker |-> None, action |-> None, source |-> "valid", version |-> 0]

VARIABLES
  request,     \* the row of each approval
  decisions,   \* who approved it and who rejected it
  decideKeys,  \* the keys of its decisions
  openKeys,    \* the approval each create key stands for
  audit,       \* its last event number, and how often each event was logged
  session

approvalVars == <<request, decisions, decideKeys, openKeys, audit, session>>

Events == {"opened", "reopened", "read", "denied", "recorded", "rejected",
           "rejected_again", "quorum_met"}

NoEvents == [last |-> 0, of |-> [e \in Events |-> 0]]

Logged(log, events) ==
  [last |-> log.last + Cardinality(events),
   of |-> [e \in Events |-> log.of[e] + IF e \in events THEN 1 ELSE 0]]

NoVotes == [approve |-> {}, reject |-> {}]
\* A checker decides once: the pair (approval, checker) is unique.
Voters(votes) == votes.approve \cup votes.reject

Idle == [pc |-> "idle", call |-> None, on |-> None, row |-> Unopened,
         seen |-> NoVotes, number |-> 0]

ApprovalsInit ==
  /\ request = [a \in Approvals |-> Unopened]
  /\ decisions = [a \in Approvals |-> NoVotes]
  /\ decideKeys = [a \in Approvals |-> {}]
  /\ openKeys = [k \in Keys |-> None]
  /\ audit = [a \in Approvals |-> NoEvents]
  /\ session = [s \in Sessions |-> Idle]

SessionType ==
  [pc : {"idle", "open", "decisions", "number", "write", "answered"},
   call : CallType \cup {None}, on : Approvals \cup {None}, row : RequestType,
   seen : VotesType, number : Nat]

ApprovalsTypeOK ==
  /\ request \in [Approvals -> RequestType]
  /\ decisions \in [Approvals -> VotesType]
  /\ decideKeys \in [Approvals -> SUBSET Keys]
  /\ openKeys \in [Keys -> Approvals \cup {None}]
  /\ audit \in [Approvals -> [last : Nat, of : [Events -> Nat]]]
  /\ session \in [Sessions -> SessionType]

-----------------------------------------------------------------------------
(* What a call does, by the row and the decisions it read.                 *)

AtRejected(call, seen) ==
  IF call.actor \in seen[call.verdict] THEN "rejected_again" ELSE "denied"

AtApproved(call, seen) ==
  IF call.verdict = "approve" /\ call.actor \notin seen.reject THEN "silent" ELSE "denied"

AtPending(call, row, seen) ==
  CASE call.actor \in Voters(seen) ->
         IF call.actor \in seen[call.verdict] THEN "silent" ELSE "denied"
    [] call.actor \notin Voters(seen) /\ call.verdict = "reject" -> "rejected"
    [] call.actor \notin Voters(seen) /\ call.verdict = "approve" ->
         IF row.source # "valid" THEN "denied"
         ELSE IF Cardinality(seen.approve) + 1 >= QuorumOf(row.action) THEN "quorum_met"
         ELSE "recorded"

Outcome(call, row, seen) ==
  IF call.op = "create" THEN "reopened"
  ELSE IF call.op = "read" THEN "read"
  ELSE IF call.actor = row.maker THEN "denied"
  ELSE IF row.state = "rejected" THEN AtRejected(call, seen)
  ELSE IF row.state = "approved_execution_blocked" THEN AtApproved(call, seen)
  ELSE AtPending(call, row, seen)

OutcomeOf(s) == Outcome(session[s].call, session[s].row, session[s].seen)

Votes == {"rejected", "quorum_met", "recorded"}
Transitions == {"rejected", "quorum_met"}

EventsOf(outcome) ==
  IF outcome \in Transitions THEN {"recorded", outcome} ELSE {outcome}

\* A mutant of RowUnchanged: the version is not compared.
RowPresent(s) == request[session[s].on].version > 0

\* _optimistic_update: the row is still the one this call read.
RowUnchanged(s) == request[session[s].on].version = session[s].row.version

\* A mutant of CanWrite: nothing stops a second decision of one operator.
CanWriteTwice(s) ==
  /\ session[s].number = audit[session[s].on].last + 1
  /\ OutcomeOf(s) \in Transitions => RowUnchanged(s)

\* The number is still free, the operator and the key have not decided yet.
CanWrite(s) ==
  LET on == session[s].on  call == session[s].call IN
  /\ session[s].number = audit[on].last + 1
  /\ OutcomeOf(s) \in Votes => /\ call.actor \notin Voters(decisions[on])
                               /\ call.key \notin decideKeys[on]
  /\ OutcomeOf(s) \in Transitions => RowUnchanged(s)

-----------------------------------------------------------------------------
Goto(s, pc) == session' = [session EXCEPT ![s].pc = pc]
End(s) == session' = [session EXCEPT ![s] = Idle]

(* The fingerprint of a create is its action, target and maker. *)
SameCreate(call, a) == request[a].maker = call.actor /\ request[a].action = call.action

\* A call on an approval reads its row first (_fetch_request); on a missing
\* one it ends there.  A create reads its key: a known key replays the
\* approval it opened, or is refused and ends there.
Target(call) == IF call.op = "create" THEN openKeys[call.key] ELSE call.on

Begin(s, call) ==
  /\ session[s].pc = "idle"
  /\ \A a \in Approvals : audit[a].last < MaxEvents
  /\ LET a == Target(call) IN
       \/ /\ a = None
          /\ session' = [session EXCEPT ![s] = [Idle EXCEPT !.pc = "open", !.call = call]]
       \/ /\ a # None
          /\ request[a].state # "unopened"
          /\ call.op = "create" => SameCreate(call, a)
          /\ session' = [session EXCEPT ![s] =
               [Idle EXCEPT !.pc = "decisions", !.call = call, !.on = a, !.row = request[a]]]
  /\ UNCHANGED <<request, decisions, decideKeys, openKeys, audit>>

\* The unique indexes on the key and on the active requests of one maker for
\* one action: a request that was approved stays active.
CanOpen(call) ==
  /\ openKeys[call.key] = None
  /\ ~\E a \in Approvals : /\ request[a].state \in {"pending_review", "approved_execution_blocked"}
                           /\ SameCreate(call, a)

Open(s) ==
  /\ session[s].pc = "open"
  /\ LET call == session[s].call IN
       IF CanOpen(call)
       THEN \E a \in Approvals :
              /\ request[a] = Unopened
              /\ request' = [request EXCEPT ![a] =
                   [state |-> "pending_review", maker |-> call.actor, action |-> call.action,
                    source |-> call.source, version |-> 1]]
              /\ openKeys' = [openKeys EXCEPT ![call.key] = a]
              /\ audit' = [audit EXCEPT ![a] = Logged(@, {"opened"})]
       ELSE UNCHANGED <<request, openKeys, audit>>
  /\ End(s)
  /\ UNCHANGED <<decisions, decideKeys>>

\* _fetch_decisions, and what follows from it; a vote repeated writes nothing.
FetchDecisions(s) ==
  /\ session[s].pc = "decisions"
  /\ LET seen == decisions[session[s].on] IN
       IF Outcome(session[s].call, session[s].row, seen) = "silent" THEN End(s)
       ELSE session' = [session EXCEPT ![s].pc = "number", ![s].seen = seen]
  /\ UNCHANGED <<request, decisions, decideKeys, openKeys, audit>>

\* _next_sequence_no
Number(s) ==
  /\ session[s].pc = "number"
  /\ session' = [session EXCEPT ![s].pc = "write", ![s].number = audit[session[s].on].last + 1]
  /\ UNCHANGED <<request, decisions, decideKeys, openKeys, audit>>

\* The rows of the outcome, all of them or none.
Vote(on, outcome, call) ==
  /\ decideKeys' = [decideKeys EXCEPT ![on] = @ \cup {call.key}]
  /\ \/ /\ outcome = "rejected"
        /\ decisions' = [decisions EXCEPT ![on].reject = @ \cup {call.actor}]
        /\ request' = [request EXCEPT ![on].state = "rejected", ![on].version = @ + 1]
     \/ /\ outcome = "quorum_met"
        /\ decisions' = [decisions EXCEPT ![on].approve = @ \cup {call.actor}]
        /\ request' = [request EXCEPT ![on].state = "approved_execution_blocked",
                                      ![on].version = @ + 1]
     \/ /\ outcome = "recorded"
        /\ decisions' = [decisions EXCEPT ![on].approve = @ \cup {call.actor}]
        /\ UNCHANGED request

Write(s) ==
  /\ session[s].pc = "write"
  /\ CanWrite(s)
  /\ LET on == session[s].on  outcome == OutcomeOf(s) IN
       /\ audit' = [audit EXCEPT ![on] = Logged(@, EventsOf(outcome))]
       /\ IF outcome \in Votes THEN Vote(on, outcome, session[s].call)
          ELSE UNCHANGED <<request, decisions, decideKeys>>
       /\ IF outcome = "read" THEN Goto(s, "answered") ELSE End(s)
  /\ UNCHANGED openKeys

\* A number, a voter or a key already taken, or a row another decision has
\* moved: everything is rolled back.
Refused(s) ==
  /\ session[s].pc = "write"
  /\ ~CanWrite(s)
  /\ End(s)
  /\ UNCHANGED <<request, decisions, decideKeys, openKeys, audit>>

\* The connection or the process is lost, or the answer of a read is returned.
Leave(s) ==
  /\ session[s].pc # "idle"
  /\ End(s)
  /\ UNCHANGED <<request, decisions, decideKeys, openKeys, audit>>

Step(s) ==
  Open(s) \/ FetchDecisions(s) \/ Number(s) \/ Write(s) \/ Refused(s)

ApprovalsNext ==
  \E s \in Sessions : Step(s) \/ Leave(s) \/ \E call \in Calls : Begin(s, call)

ApprovalsSpec == ApprovalsInit /\ [][ApprovalsNext]_approvalVars
-----------------------------------------------------------------------------
(* Properties.                                                             *)

(***************************************************************************)
(* However the calls interleave, an approved request has the approvals of  *)
(* its quorum, none of them the maker's, and nobody rejected it; a         *)
(* rejected one was rejected by exactly one operator.                      *)
(***************************************************************************)
ApprovedByQuorum ==
  \A a \in Approvals :
    /\ request[a].maker \notin Voters(decisions[a])
    /\ request[a].state = "approved_execution_blocked" =>
         /\ Cardinality(decisions[a].approve) >= QuorumOf(request[a].action)
         /\ decisions[a].reject = {}
    /\ request[a].state = "rejected" => \E c \in Actors : decisions[a].reject = {c}

(***************************************************************************)
(* The first verdict is final: of decisions that race, one moves the row,  *)
(* and no later one moves it again or puts back what it read.              *)
(***************************************************************************)
VerdictIsFinal ==
  [][\A a \in Approvals : request[a].state \in Terminal => request'[a] = request[a]]_approvalVars

(***************************************************************************)
(* The audit trail tells the decisions and the verdict: each decision is   *)
(* recorded once, and a verdict exactly when the row has it.               *)
(***************************************************************************)
AuditTellsTheState ==
  \A a \in Approvals :
    /\ audit[a].of["recorded"] = Cardinality(Voters(decisions[a]))
    /\ audit[a].of["rejected"] = IF request[a].state = "rejected" THEN 1 ELSE 0
    /\ audit[a].of["quorum_met"] =
         IF request[a].state = "approved_execution_blocked" THEN 1 ELSE 0

(***************************************************************************)
(* submit_decision: "the durable approval stays pending_review until the   *)
(* quorum of distinct checkers is met".  An approve below the quorum does  *)
(* not compare the version, so two that read no decision are both kept     *)
(* and neither counts the other.                                           *)
(***************************************************************************)
PendingIsBelowQuorum ==
  \A a \in Approvals :
    request[a].state = "pending_review" =>
      Cardinality(decisions[a].approve) < QuorumOf(request[a].action)
=============================================================================
