-------------------------- MODULE ApprovalsProofs --------------------------
(***************************************************************************)
(* For any number of approvals, operators and sessions: the verdict of an  *)
(* approval is earned and final, and what was executed is what was         *)
(* approved.  The invariant relates what a call has read to the rows as    *)
(* they are now: the version tells whether the row is still the one read.  *)
(***************************************************************************)
EXTENDS Executions, FiniteSetTheorems, TLAPS

Versioned(row) ==
  /\ row.state = "unopened" => row = Unopened
  /\ row.state = "pending_review" => row.version = 1
  /\ row.state \in Terminal => row.version = 2

Approved(row) == row.state = "approved_execution_blocked"

RowOK(a) ==
  /\ Versioned(request[a])
  /\ request[a].maker \notin Voters(decisions[a])
  /\ request[a].state \in {"unopened", "pending_review"} => decisions[a].reject = {}
  /\ request[a].state = "unopened" => decisions[a].approve = {}
  /\ Approved(request[a]) => /\ Cardinality(decisions[a].approve) >= QuorumOf(request[a].action)
                             /\ decisions[a].reject = {}
  /\ request[a].state = "rejected" => \E c \in Actors : decisions[a].reject = {c}

\* What was read is at most as new as the row, and is the row when the
\* versions are the same.
RowFits(x) ==
  /\ x.on \in Approvals
  /\ x.row.state # "unopened"
  /\ Versioned(x.row)
  /\ x.row.maker = request[x.on].maker /\ x.row.action = request[x.on].action
  /\ x.row.version <= request[x.on].version
  /\ x.row.version = request[x.on].version => x.row = request[x.on]

\* Decisions are only added, and none once one checker was enough.
VotesFit(x) ==
  /\ x.seen.approve \subseteq decisions[x.on].approve
  /\ x.seen.reject \subseteq decisions[x.on].reject
  /\ Approved(x.row) /\ ClassOf[x.row.action] = "read" => x.seen = decisions[x.on]

Fits(x) ==
  /\ x.pc # "idle" => x.call \in CallType
  /\ x.pc \in {"decisions", "number", "write", "answered"} => RowFits(x)
  /\ x.pc \in {"number", "write", "answered"} => VotesFit(x)

StoreInv ==
  /\ ApprovalsTypeOK
  /\ \A a \in Approvals : RowOK(a)
  /\ \A s \in Sessions : Fits(session[s])

rowVars == <<request, decisions, decideKeys, openKeys, audit>>

-----------------------------------------------------------------------------
\* What the outcome of a vote says about the call and what it read.
LEMMA OutcomeOfVote ==
  ASSUME NEW call \in CallType, NEW row \in RequestType, NEW seen \in VotesType,
         row.state # "unopened", Outcome(call, row, seen) \in Votes
  PROVE  /\ row.state = "pending_review"
         /\ call.actor # row.maker
         /\ Outcome(call, row, seen) = "rejected" => call.verdict = "reject"
         /\ Outcome(call, row, seen) # "rejected" => call.verdict = "approve"
         /\ Outcome(call, row, seen) = "quorum_met" <=>
              /\ call.verdict = "approve"
              /\ Cardinality(seen.approve) + 1 >= QuorumOf(row.action)
<1> DEFINE o == Outcome(call, row, seen)
           enough == Cardinality(seen.approve) + 1 >= QuorumOf(row.action)
<1>1. call.verdict \in {"approve", "reject"}
  BY DEF CallType, Verdicts
<1>2. row.state \in {"pending_review", "rejected", "approved_execution_blocked"}
  BY DEF RequestType, Terminal
<1>3. AtRejected(call, seen) \notin Votes /\ AtApproved(call, seen) \notin Votes
  BY DEF AtRejected, AtApproved, Votes
<1>4. /\ row.state = "pending_review" /\ call.actor # row.maker
      /\ o = AtPending(call, row, seen)
  BY <1>2, <1>3 DEF Outcome, Votes
<1> HIDE DEF o, enough
<1>5. CASE call.actor \in Voters(seen)
  <2>1. AtPending(call, row, seen) \in {"silent", "denied"}
    BY <1>5 DEF AtPending
  <2>2. QED
    BY <2>1, <1>4 DEF Votes, o
<1>6. CASE call.actor \notin Voters(seen) /\ call.verdict = "reject"
  <2>1. o = "rejected"
    BY <1>4, <1>6 DEF AtPending
  <2>2. QED
    BY <2>1, <1>4, <1>6 DEF o
<1>7. CASE call.actor \notin Voters(seen) /\ call.verdict = "approve"
  <2>1. o = IF row.source # "valid" THEN "denied" ELSE IF enough THEN "quorum_met" ELSE "recorded"
    BY <1>4, <1>7 DEF AtPending, enough
  <2>2. o # "denied"
    BY DEF o, Votes
  <2>3. /\ o # "rejected"
        /\ o = "quorum_met" <=> enough
    BY <2>1, <2>2
  <2>4. QED
    BY <2>3, <1>4, <1>7 DEF o, enough
<1>8. QED
  BY <1>1, <1>5, <1>6, <1>7

\* Numbering and counting the events of a step stays in Nat.
LEMMA LoggedType ==
  ASSUME NEW log \in [last : Nat, of : [Events -> Nat]], NEW events, IsFiniteSet(events)
  PROVE  Logged(log, events) \in [last : Nat, of : [Events -> Nat]]
<1>1. Cardinality(events) \in Nat
  BY FS_CardinalityType
<1>2. QED
  BY <1>1 DEF Logged

LEMMA VotesAreFinite ==
  ASSUME NEW votes \in VotesType
  PROVE  IsFiniteSet(votes.approve) /\ Cardinality(votes.approve) \in Nat
BY ApprovalsAssumption, FS_Subset, FS_CardinalityType DEF VotesType, ApprovalsAssumption

LEMMA QuorumIsOneOrTwo ==
  ASSUME NEW x PROVE QuorumOf(x) \in {1, 2} /\ (ClassOf[x] = "read" => QuorumOf(x) = 1)
BY DEF QuorumOf

\* What a session has read stays fit while the rows stay.
LEMMA RowsStay ==
  ASSUME StoreInv, ApprovalsTypeOK', NEW s \in Sessions, NEW x, Fits(x),
         session' = [session EXCEPT ![s] = x], UNCHANGED <<request, decisions>>
  PROVE  StoreInv'
<1>1. ASSUME NEW a \in Approvals PROVE RowOK(a)'
  BY DEF StoreInv, RowOK, Versioned, Approved
<1>2. ASSUME NEW u \in Sessions PROVE Fits(session[u])'
  <2>1. session'[u] = IF u = s THEN x ELSE session[u]
    BY DEF StoreInv, ApprovalsTypeOK
  <2>2. Fits(session'[u])
    BY <2>1 DEF StoreInv
  <2>3. QED
    BY <2>2 DEF Fits, RowFits, VotesFit, Versioned, Approved
<1>3. QED
  BY <1>1, <1>2 DEF StoreInv

\* A step that only moves one session keeps the invariant, when the new
\* session fits.
LEMMA SessionMoves ==
  ASSUME StoreInv, NEW s \in Sessions, NEW x \in SessionType, Fits(x),
         session' = [session EXCEPT ![s] = x], UNCHANGED rowVars
  PROVE  StoreInv'
<1>1. ApprovalsTypeOK'
  BY DEF StoreInv, ApprovalsTypeOK, rowVars
<1>2. QED
  BY <1>1, RowsStay DEF rowVars

LEMMA IdleFits == Idle \in SessionType /\ Fits(Idle)
BY DEF Idle, SessionType, Fits, Unopened, NoVotes, RequestType, VotesType

\* Every way a session ends without writing.
LEMMA EndKeeps ==
  ASSUME StoreInv, NEW s \in Sessions, End(s), UNCHANGED rowVars
  PROVE  StoreInv'
BY IdleFits, SessionMoves DEF End

LEMMA BeginKeeps ==
  ASSUME StoreInv, NEW s \in Sessions, NEW call \in CallType,
         call.op # "create" => call.on \in Approvals, Begin(s, call)
  PROVE  StoreInv'
<1>1. Target(call) \in Approvals \cup {None}
  BY DEF Target, StoreInv, ApprovalsTypeOK, CallType
<1>2. CASE session' = [session EXCEPT ![s] = [Idle EXCEPT !.pc = "open", !.call = call]]
  <2> DEFINE x == [Idle EXCEPT !.pc = "open", !.call = call]
  <2>1. x \in SessionType /\ Fits(x)
    BY IdleFits DEF Idle, SessionType, Fits
  <2>2. QED
    BY <1>2, <2>1, SessionMoves DEF Begin, rowVars
<1>3. CASE /\ Target(call) # None
           /\ request[Target(call)].state # "unopened"
           /\ session' = [session EXCEPT ![s] =
                [Idle EXCEPT !.pc = "decisions", !.call = call, !.on = Target(call),
                             !.row = request[Target(call)]]]
  <2> DEFINE a == Target(call)
             x == [Idle EXCEPT !.pc = "decisions", !.call = call, !.on = a, !.row = request[a]]
  <2>1. a \in Approvals /\ request[a] \in RequestType /\ RowOK(a)
    BY <1>1, <1>3 DEF StoreInv, ApprovalsTypeOK
  <2>2. x \in SessionType
    BY <2>1, IdleFits DEF Idle, SessionType
  <2>3. Fits(x)
    BY <2>1, <1>3 DEF Idle, Fits, RowFits, RowOK, RequestType
  <2>4. QED
    BY <1>3, <2>2, <2>3, SessionMoves DEF Begin, rowVars
<1>4. QED
  BY <1>2, <1>3 DEF Begin

LEMMA FetchKeeps ==
  ASSUME StoreInv, NEW s \in Sessions, FetchDecisions(s)
  PROVE  StoreInv'
<1> DEFINE x == [session[s] EXCEPT !.pc = "number", !.seen = decisions[session[s].on]]
<1>1. CASE End(s)
  BY <1>1, EndKeeps DEF FetchDecisions, rowVars
<1>2. CASE session' = [session EXCEPT ![s].pc = "number", ![s].seen = decisions[session[s].on]]
  <2>1. session[s] \in SessionType /\ session[s].pc = "decisions" /\ Fits(session[s])
    BY DEF FetchDecisions, StoreInv, ApprovalsTypeOK
  <2>2. RowFits(session[s]) /\ session[s].call \in CallType
    BY <2>1 DEF Fits
  <2>3. decisions[session[s].on] \in VotesType
    BY <2>2 DEF RowFits, StoreInv, ApprovalsTypeOK
  <2>4. x \in SessionType
    BY <2>1, <2>3 DEF SessionType
  <2>5. RowFits(x)
    BY <2>1, <2>2 DEF RowFits, SessionType
  <2>6. VotesFit(x)
    BY <2>1, <2>3 DEF VotesFit, SessionType, VotesType
  <2>7. Fits(x)
    BY <2>1, <2>2, <2>5, <2>6 DEF Fits, SessionType
  <2>8. session' = [session EXCEPT ![s] = x]
    BY <1>2, <2>1 DEF StoreInv, ApprovalsTypeOK, SessionType
  <2>9. QED
    BY <2>4, <2>7, <2>8, SessionMoves DEF FetchDecisions, rowVars
<1>3. QED
  BY <1>1, <1>2 DEF FetchDecisions

LEMMA NumberKeeps ==
  ASSUME StoreInv, NEW s \in Sessions, Number(s)
  PROVE  StoreInv'
<1> DEFINE n == audit[session[s].on].last + 1
           x == [session[s] EXCEPT !.pc = "write", !.number = n]
<1>1. session[s] \in SessionType /\ session[s].pc = "number" /\ Fits(session[s])
  BY DEF Number, StoreInv, ApprovalsTypeOK
<1>2. RowFits(session[s]) /\ VotesFit(session[s]) /\ session[s].call \in CallType
  BY <1>1 DEF Fits
<1>3. n \in Nat
  BY <1>2 DEF RowFits, StoreInv, ApprovalsTypeOK
<1>4. x \in SessionType
  BY <1>1, <1>3 DEF SessionType
<1>5. RowFits(x) /\ VotesFit(x)
  BY <1>1, <1>2 DEF RowFits, VotesFit, SessionType
<1>6. Fits(x)
  BY <1>1, <1>2, <1>5 DEF Fits, SessionType
<1>7. session' = [session EXCEPT ![s] = x]
  BY <1>1 DEF Number, StoreInv, ApprovalsTypeOK, SessionType
<1>8. QED
  BY <1>4, <1>6, <1>7, SessionMoves DEF Number, rowVars

-----------------------------------------------------------------------------
\* A row that is opened was read by nobody.
LEMMA OpenKeeps ==
  ASSUME StoreInv, NEW s \in Sessions, Open(s)
  PROVE  StoreInv'
<1>1. /\ session[s] \in SessionType /\ session[s].call \in CallType
      /\ session' = [session EXCEPT ![s] = Idle]
  BY DEF Open, End, StoreInv, ApprovalsTypeOK, Fits
<1>2. CASE UNCHANGED <<request, openKeys, audit>>
  BY <1>2, EndKeeps DEF Open, rowVars
<1>3. ASSUME NEW a \in Approvals, request[a] = Unopened,
             request' = [request EXCEPT ![a] =
                [state |-> "pending_review", maker |-> session[s].call.actor,
                 action |-> session[s].call.action, source |-> session[s].call.source,
                 version |-> 1]],
             openKeys' = [openKeys EXCEPT ![session[s].call.key] = a],
             audit' = [audit EXCEPT ![a] = Logged(@, {"opened"})]
      PROVE  StoreInv'
  <2> DEFINE row == [state |-> "pending_review", maker |-> session[s].call.actor,
                     action |-> session[s].call.action, source |-> session[s].call.source,
                     version |-> 1]
  <2>1. row \in RequestType /\ row.maker \in Actors
    BY <1>1 DEF CallType, RequestType
  <2>2. audit' \in [Approvals -> [last : Nat, of : [Events -> Nat]]]
    BY <1>3, LoggedType, FS_Singleton DEF StoreInv, ApprovalsTypeOK
  <2>3. ApprovalsTypeOK'
    BY <1>1, <1>3, <2>1, <2>2, IdleFits DEF Open, StoreInv, ApprovalsTypeOK, CallType
  <2>4. ASSUME NEW b \in Approvals PROVE RowOK(b)'
    <3>1. CASE b = a
      <4>0. decisions[b].approve = {} /\ decisions[b].reject = {}
        BY <1>3, <3>1 DEF StoreInv, RowOK, Unopened
      <4>1. request'[b] = row /\ decisions'[b] = decisions[b] /\ Voters(decisions[b]) = {}
        BY <1>3, <3>1, <4>0 DEF Open, StoreInv, ApprovalsTypeOK, Voters
      <4>2. QED
        BY <4>1, <1>3, <3>1 DEF StoreInv, RowOK, Versioned, Approved, Terminal, Unopened
    <3>2. CASE b # a
      BY <1>3, <3>2 DEF Open, StoreInv, ApprovalsTypeOK, RowOK
    <3>3. QED
      BY <3>1, <3>2
  <2>5. ASSUME NEW u \in Sessions PROVE Fits(session[u])'
    <3>1. CASE u = s
      BY <1>1, <3>1, IdleFits DEF StoreInv, ApprovalsTypeOK, Fits, Idle
    <3>2. CASE u # s
      <4>1. session'[u] = session[u] /\ Fits(session[u]) /\ session[u] \in SessionType
        BY <1>1, <3>2 DEF StoreInv, ApprovalsTypeOK
      <4>2. RowFits(session[u]) => session[u].on # a
        BY <1>3, <4>1 DEF RowFits, Versioned, Unopened, SessionType, RequestType, Terminal
      <4>3. RowFits(session[u]) => /\ request'[session[u].on] = request[session[u].on]
                                   /\ decisions' = decisions
        BY <4>2, <1>3 DEF Open, RowFits, StoreInv, ApprovalsTypeOK
      <4>4. QED
        BY <4>1, <4>3 DEF Fits, RowFits, VotesFit
    <3>3. QED
      BY <3>1, <3>2
  <2>6. QED
    BY <2>3, <2>4, <2>5 DEF StoreInv
<1>4. QED
  BY <1>2, <1>3 DEF Open

\* What holds of a session about to write: the row of its approval is at
\* least as new as the one it read.
LEMMA AtWrite ==
  ASSUME StoreInv, NEW s \in Sessions, session[s].pc = "write"
  PROVE  /\ session[s] \in SessionType
         /\ session[s].call \in CallType
         /\ session[s].on \in Approvals
         /\ session[s].row \in RequestType
         /\ session[s].seen \in VotesType
         /\ RowFits(session[s]) /\ VotesFit(session[s])
         /\ request[session[s].on] \in RequestType
         /\ request[session[s].on].state # "unopened"
         /\ RowOK(session[s].on)
<1>1. /\ session[s] \in SessionType /\ session[s].call \in CallType
      /\ RowFits(session[s]) /\ VotesFit(session[s])
  BY DEF StoreInv, ApprovalsTypeOK, Fits
<1>2. session[s].row \in RequestType /\ session[s].seen \in VotesType
  BY <1>1 DEF SessionType
<1>3. /\ session[s].on \in Approvals /\ RowOK(session[s].on)
      /\ request[session[s].on] \in RequestType
  BY <1>1 DEF RowFits, StoreInv, ApprovalsTypeOK
<1>4. session[s].row.version # 0
  BY <1>1, <1>2 DEF RowFits, Versioned, RequestType
<1>5. request[session[s].on].version # 0
  BY <1>1, <1>2, <1>3, <1>4 DEF RowFits, RequestType
<1>6. request[session[s].on].state # "unopened"
  BY <1>3, <1>5 DEF RowOK, Versioned, Unopened
<1>7. QED
  BY <1>1, <1>2, <1>3, <1>6

\* A vote is the operator's first, never the maker's, and moves the row only
\* from pending; where one approval is enough, it comes before the verdict.
LEMMA VoteIsOpen ==
  ASSUME StoreInv, NEW s \in Sessions, Write(s), OutcomeOf(s) \in Votes
  PROVE  LET x == session[s]  on == session[s].on IN
         /\ x.call.actor \in Actors
         /\ x.call.actor \notin Voters(decisions[on])
         /\ x.call.actor # request[on].maker
         /\ OutcomeOf(s) \in Transitions =>
              /\ request[on] = x.row /\ request[on].state = "pending_review"
              /\ request[on].version = 1 /\ decisions[on].reject = {}
         /\ OutcomeOf(s) = "quorum_met" =>
              Cardinality(x.seen.approve) + 1 >= QuorumOf(request[on].action)
         /\ ~(Approved(request[on]) /\ ClassOf[request[on].action] = "read")
<1> DEFINE x == session[s]
           on == session[s].on
           o == OutcomeOf(s)
<1>1. /\ x.call \in CallType /\ on \in Approvals /\ x.row \in RequestType
      /\ x.seen \in VotesType /\ RowFits(x) /\ RowOK(on) /\ request[on] \in RequestType
  BY AtWrite DEF Write
<1>2. x.row.state # "unopened"
  BY <1>1 DEF RowFits
<1>3. /\ x.row.state = "pending_review" /\ x.call.actor # x.row.maker
      /\ o # "rejected" => x.call.verdict = "approve"
      /\ o = "quorum_met" <=> /\ x.call.verdict = "approve"
                              /\ Cardinality(x.seen.approve) + 1 >= QuorumOf(x.row.action)
  BY <1>1, <1>2, OutcomeOfVote DEF OutcomeOf
<1>4. /\ x.row.version = 1 /\ x.row.maker = request[on].maker
      /\ x.row.action = request[on].action
  BY <1>1, <1>3 DEF RowFits, Versioned
<1>5. x.call.actor \in Actors /\ x.call.actor \notin Voters(decisions[on])
  BY <1>1 DEF CallType, Write, CanWrite
<1>6. ASSUME o \in Transitions
      PROVE  /\ request[on] = x.row /\ request[on].state = "pending_review"
             /\ request[on].version = 1 /\ decisions[on].reject = {}
  <2>1. request[on].version = x.row.version
    BY <1>6 DEF Write, CanWrite, RowUnchanged
  <2>2. request[on] = x.row
    BY <2>1, <1>1 DEF RowFits
  <2>3. QED
    BY <2>2, <1>1, <1>3, <1>4 DEF RowOK
<1>7. ASSUME Approved(request[on]), ClassOf[request[on].action] = "read"
      PROVE  FALSE
  <2>1. o \notin Transitions
    BY <1>6, <1>7 DEF Approved
  <2>2. o # "rejected" /\ o # "quorum_met"
    BY <2>1 DEF Transitions
  <2>3. QuorumOf(x.row.action) = 1
    BY <1>4, <1>7, QuorumIsOneOrTwo
  <2>4. Cardinality(x.seen.approve) \in Nat
    BY <1>1, VotesAreFinite, SMTT(30)
  <2>5. QED
    BY <1>3, <2>2, <2>3, <2>4
<1>8. QED
  BY <1>3, <1>4, <1>5, <1>6, <1>7

\* What a vote does to the rows, one disjunct of Vote at a time.
LEMMA VoteRows ==
  ASSUME StoreInv, NEW s \in Sessions, Write(s), OutcomeOf(s) \in Votes
  PROVE  LET on == session[s].on  actor == session[s].call.actor  o == OutcomeOf(s)
         IN /\ request' \in [Approvals -> RequestType]
            /\ decisions' \in [Approvals -> VotesType]
            /\ \A b \in Approvals : b # on => /\ request'[b] = request[b]
                                             /\ decisions'[b] = decisions[b]
            /\ request'[on].maker = request[on].maker
            /\ request'[on].action = request[on].action
            /\ \/ /\ o = "rejected"
                  /\ request'[on].state = "rejected" /\ request'[on].version = 2
                  /\ decisions'[on].reject = {actor}
                  /\ decisions'[on].approve = decisions[on].approve
               \/ /\ o = "quorum_met"
                  /\ request'[on].state = "approved_execution_blocked"
                  /\ request'[on].version = 2
                  /\ decisions'[on].reject = {}
                  /\ decisions'[on].approve = decisions[on].approve \cup {actor}
               \/ /\ o = "recorded"
                  /\ request' = request
                  /\ decisions'[on].reject = decisions[on].reject
                  /\ decisions'[on].approve = decisions[on].approve \cup {actor}
<1> DEFINE on == session[s].on
           actor == session[s].call.actor
           o == OutcomeOf(s)
<1>1. /\ on \in Approvals /\ actor \in Actors
      /\ request \in [Approvals -> RequestType] /\ decisions \in [Approvals -> VotesType]
      /\ o \in Transitions => request[on].version = 1 /\ decisions[on].reject = {}
  BY AtWrite, VoteIsOpen DEF Write, StoreInv, ApprovalsTypeOK
<1>2. Vote(on, o, session[s].call)
  BY DEF Write
<1>3. CASE /\ o = "rejected"
           /\ decisions' = [decisions EXCEPT ![on].reject = @ \cup {actor}]
           /\ request' = [request EXCEPT ![on].state = "rejected", ![on].version = @ + 1]
  <2>1. request[on].version = 1 /\ decisions[on].reject = {}
    BY <1>1, <1>3 DEF Transitions
  <2>2. request' \in [Approvals -> RequestType] /\ decisions' \in [Approvals -> VotesType]
    BY <1>1, <1>3, <2>1, SMTT(30) DEF RequestType, VotesType, Terminal
  <2>3. QED
    BY <1>1, <1>3, <2>1, <2>2, SMTT(30) DEF RequestType, VotesType
<1>4. CASE /\ o = "quorum_met"
           /\ decisions' = [decisions EXCEPT ![on].approve = @ \cup {actor}]
           /\ request' = [request EXCEPT ![on].state = "approved_execution_blocked",
                                         ![on].version = @ + 1]
  <2>1. request[on].version = 1 /\ decisions[on].reject = {}
    BY <1>1, <1>4 DEF Transitions
  <2>2. request' \in [Approvals -> RequestType] /\ decisions' \in [Approvals -> VotesType]
    BY <1>1, <1>4, <2>1 DEF RequestType, VotesType, Terminal
  <2>3. QED
    BY <1>1, <1>4, <2>1, <2>2 DEF RequestType, VotesType
<1>5. CASE /\ o = "recorded"
           /\ decisions' = [decisions EXCEPT ![on].approve = @ \cup {actor}]
           /\ UNCHANGED request
  <2>1. decisions' \in [Approvals -> VotesType]
    BY <1>1, <1>5 DEF VotesType
  <2>2. QED
    BY <1>1, <1>5, <2>1 DEF VotesType
<1>6. QED
  BY <1>2, <1>3, <1>4, <1>5 DEF Vote

\* A vote leaves the rows right.
LEMMA VoteKeepsRows ==
  ASSUME StoreInv, NEW s \in Sessions, Write(s), OutcomeOf(s) \in Votes,
         NEW on \in Approvals, on = session[s].on
  PROVE  \A a \in Approvals : RowOK(a)'
<1> DEFINE actor == session[s].call.actor
           o == OutcomeOf(s)
<1>1. ASSUME NEW a \in Approvals, a # on PROVE RowOK(a)'
  BY <1>1, VoteRows DEF StoreInv, RowOK
<1>2. /\ RowOK(on) /\ on \in Approvals /\ request[on].state # "unopened"
      /\ decisions[on] \in VotesType /\ session[s].seen \in VotesType
      /\ session[s].seen.approve \subseteq decisions[on].approve
      /\ decisions'[on] \in VotesType
  BY AtWrite, VoteRows DEF Write, VotesFit, StoreInv, ApprovalsTypeOK
<1>3. /\ actor \in Actors /\ actor # request[on].maker /\ actor \notin decisions[on].approve
      /\ o \in Transitions => decisions[on].reject = {} /\ request[on].state = "pending_review"
      /\ o = "quorum_met" =>
           Cardinality(session[s].seen.approve) + 1 >= QuorumOf(request[on].action)
  BY VoteIsOpen DEF Voters
<1>4. /\ Cardinality(session[s].seen.approve) <= Cardinality(decisions[on].approve)
      /\ Cardinality(session[s].seen.approve) \in Nat
      /\ Cardinality(decisions[on].approve) \in Nat
      /\ Cardinality(decisions[on].approve \cup {actor}) = Cardinality(decisions[on].approve) + 1
  <2>1. IsFiniteSet(decisions[on].approve) /\ Cardinality(decisions[on].approve) \in Nat
    BY <1>2, VotesAreFinite
  <2>2. /\ Cardinality(session[s].seen.approve) \in Nat
        /\ Cardinality(session[s].seen.approve) <= Cardinality(decisions[on].approve)
    BY <1>2, <2>1, VotesAreFinite, FS_Subset
  <2>3. Cardinality(decisions[on].approve \cup {actor}) = Cardinality(decisions[on].approve) + 1
    BY <1>3, <2>1, FS_AddElement
  <2>4. QED
    BY <2>1, <2>2, <2>3
<1>5. request'[on].maker \notin Voters(decisions'[on])
  BY <1>2, <1>3, VoteRows DEF RowOK, Voters
<1>6. QuorumOf(request[on].action) \in {1, 2} /\ request'[on].action = request[on].action
  BY QuorumIsOneOrTwo, VoteRows
<1>7. CASE o = "rejected"
  <2>1. /\ request'[on].state = "rejected" /\ request'[on].version = 2
        /\ decisions'[on].reject = {actor}
    BY <1>7, VoteRows
  <2>2. RowOK(on)'
    BY <1>3, <1>5, <2>1 DEF RowOK, Versioned, Approved, Terminal
  <2>3. QED
    BY <1>1, <2>2
<1>8. CASE o = "quorum_met"
  <2>1. /\ request'[on].state = "approved_execution_blocked" /\ request'[on].version = 2
        /\ decisions'[on].reject = {}
        /\ decisions'[on].approve = decisions[on].approve \cup {actor}
    BY <1>8, VoteRows
  <2>2. Cardinality(decisions'[on].approve) >= QuorumOf(request'[on].action)
    BY <1>3, <1>4, <1>6, <1>8, <2>1
  <2>3. RowOK(on)'
    BY <1>5, <2>1, <2>2 DEF RowOK, Versioned, Approved, Terminal
  <2>4. QED
    BY <1>1, <2>3
<1>9. CASE o = "recorded"
  <2>1. /\ request' = request /\ decisions'[on].reject = decisions[on].reject
        /\ decisions'[on].approve = decisions[on].approve \cup {actor}
    BY <1>9, VoteRows
  <2>2. Approved(request[on]) =>
          Cardinality(decisions'[on].approve) >= QuorumOf(request[on].action)
    BY <1>2, <1>4, <1>6, <2>1 DEF RowOK
  <2>3. RowOK(on)'
    BY <1>2, <1>5, <2>1, <2>2 DEF RowOK, Versioned, Approved
  <2>4. QED
    BY <1>1, <2>3
<1>10. QED
  BY <1>7, <1>8, <1>9 DEF Votes

\* ... and what the other sessions have read.
LEMMA VoteKeepsReads ==
  ASSUME StoreInv, NEW s \in Sessions, Write(s), OutcomeOf(s) \in Votes,
         NEW u \in Sessions, u # s
  PROVE  Fits(session[u])'
<1> DEFINE x == session[u]
           on == session[s].on
<1>1. /\ session' = [session EXCEPT ![s] = Idle] /\ session'[u] = x
      /\ Fits(x) /\ x \in SessionType /\ on \in Approvals
  BY AtWrite DEF Write, End, Votes, StoreInv, ApprovalsTypeOK
<1>2. ASSUME RowFits(x), x.on = on PROVE RowFits(x)'
  <2>1. CASE OutcomeOf(s) = "recorded"
    BY <1>1, <1>2, <2>1, VoteRows DEF RowFits
  <2>2. CASE OutcomeOf(s) \in Transitions
    <3>1. /\ request[on].version = 1
          /\ request'[on].version = 2
          /\ request'[on].maker = request[on].maker
          /\ request'[on].action = request[on].action
      BY <2>2, VoteRows, VoteIsOpen DEF Transitions
    <3>2. x.row \in RequestType
      BY <1>1 DEF SessionType
    <3>3. QED
      BY <1>1, <1>2, <3>1, <3>2 DEF RowFits, RequestType
  <2>3. QED
    BY <2>1, <2>2 DEF Votes, Transitions
<1>3. ASSUME RowFits(x), VotesFit(x), x.on = on PROVE VotesFit(x)'
  <2>1. /\ decisions[on].approve \subseteq decisions'[on].approve
        /\ decisions[on].reject \subseteq decisions'[on].reject
    BY VoteRows, VoteIsOpen DEF Votes, Transitions
  <2>2. ~(Approved(x.row) /\ ClassOf[x.row.action] = "read")
    <3>1. SUFFICES ASSUME Approved(x.row), ClassOf[x.row.action] = "read" PROVE FALSE
      OBVIOUS
    <3>2. x.row.version = 2 /\ x.row.action = request[on].action
      BY <3>1, <1>3 DEF RowFits, Versioned, Approved, Terminal
    <3>3. /\ request[on] \in RequestType /\ Versioned(request[on])
          /\ request[on].state # "unopened"
      BY AtWrite DEF Write, RowOK
    <3>4. request[on].version \in {1, 2}
      BY <3>3 DEF Versioned, RequestType, Terminal
    <3>5. request[on] = x.row
      BY <1>3, <3>2, <3>4 DEF RowFits
    <3>6. QED
      BY <3>1, <3>5, VoteIsOpen
  <2>3. QED
    BY <1>1, <1>3, <2>1, <2>2 DEF VotesFit
<1>4. ASSUME RowFits(x), x.on # on
      PROVE  request'[x.on] = request[x.on] /\ decisions'[x.on] = decisions[x.on]
  BY <1>4, VoteRows DEF RowFits
<1>5. RowFits(x) => RowFits(x)'
  BY <1>2, <1>4, <1>1 DEF RowFits
<1>6. RowFits(x) /\ VotesFit(x) => VotesFit(x)'
  BY <1>3, <1>4, <1>1 DEF VotesFit
<1>7. QED
  BY <1>1, <1>5, <1>6 DEF Fits

LEMMA WriteKeeps ==
  ASSUME StoreInv, NEW s \in Sessions, Write(s)
  PROVE  StoreInv'
<1> DEFINE x == session[s]
           on == session[s].on
           o == OutcomeOf(s)
<1>1. /\ x \in SessionType /\ x.call \in CallType /\ on \in Approvals
      /\ RowFits(x) /\ VotesFit(x)
  BY AtWrite DEF Write
<1>2. audit' \in [Approvals -> [last : Nat, of : [Events -> Nat]]]
  <2>1. IsFiniteSet(EventsOf(o))
    <3>1. IsFiniteSet({"recorded"}) /\ IsFiniteSet({"recorded"} \cup {o}) /\ IsFiniteSet({o})
      BY FS_Singleton, FS_AddElement
    <3>2. {"recorded"} \cup {o} = {"recorded", o}
      OBVIOUS
    <3>3. QED
      BY <3>1, <3>2 DEF EventsOf
  <2>2. audit' = [audit EXCEPT ![on] = Logged(@, EventsOf(o))]
    BY DEF Write
  <2>3. audit \in [Approvals -> [last : Nat, of : [Events -> Nat]]]
    BY DEF StoreInv, ApprovalsTypeOK
  <2>4. Logged(audit[on], EventsOf(o)) \in [last : Nat, of : [Events -> Nat]]
    BY <1>1, <2>1, <2>3, LoggedType
  <2>5. QED
    BY <2>2, <2>3, <2>4
<1>3. openKeys' = openKeys
  BY DEF Write
<1>4. CASE o \in Votes
  <2>1. session' = [session EXCEPT ![s] = Idle]
    BY <1>4 DEF Write, End, Votes
  <2>2. decideKeys' \in [Approvals -> SUBSET Keys]
    BY <1>1, <1>4 DEF Write, Vote, CallType, StoreInv, ApprovalsTypeOK
  <2>3. session' \in [Sessions -> SessionType]
    BY <2>1, IdleFits DEF StoreInv, ApprovalsTypeOK
  <2>4. ApprovalsTypeOK'
    BY <1>2, <1>3, <1>4, <2>2, <2>3, VoteRows DEF StoreInv, ApprovalsTypeOK
  <2>5. Fits(session[s])'
    BY <2>1, IdleFits DEF StoreInv, ApprovalsTypeOK, Fits, Idle
  <2>6. ASSUME NEW u \in Sessions PROVE Fits(session[u])'
    BY <1>4, <2>5, VoteKeepsReads
  <2>7. \A a \in Approvals : RowOK(a)'
    BY <1>1, <1>4, VoteKeepsRows
  <2>8. QED
    BY <2>4, <2>6, <2>7 DEF StoreInv
<1>5. CASE o \notin Votes
  <2>1. UNCHANGED <<request, decisions, decideKeys>>
    BY <1>5 DEF Write
  <2>2. CASE session' = [session EXCEPT ![s] = Idle]
    <3>1. ApprovalsTypeOK'
      BY <1>2, <1>3, <2>1, <2>2, IdleFits DEF StoreInv, ApprovalsTypeOK
    <3>2. QED
      BY <2>1, <2>2, <3>1, IdleFits, RowsStay
  <2>3. CASE session' = [session EXCEPT ![s].pc = "answered"]
    <3> DEFINE y == [x EXCEPT !.pc = "answered"]
    <3>1. y \in SessionType /\ session' = [session EXCEPT ![s] = y]
      BY <1>1, <2>3 DEF SessionType, StoreInv, ApprovalsTypeOK
    <3>2. ApprovalsTypeOK'
      BY <1>2, <1>3, <2>1, <3>1 DEF StoreInv, ApprovalsTypeOK
    <3>3. Fits(y)
      BY <1>1 DEF Fits, RowFits, VotesFit, SessionType
    <3>4. QED
      BY <2>1, <3>1, <3>2, <3>3, RowsStay
  <2>4. QED
    BY <2>2, <2>3 DEF Write, End, Goto
<1>6. QED
  BY <1>4, <1>5

LEMMA StepKeeps ==
  ASSUME StoreInv, NEW s \in Sessions, Step(s) \/ Leave(s)
  PROVE  StoreInv'
<1>1. CASE Refused(s) \/ Leave(s)
  BY <1>1, EndKeeps DEF Refused, Leave, rowVars
<1>2. QED
  BY <1>1, OpenKeeps, FetchKeeps, NumberKeeps, WriteKeeps DEF Step

\* Rows that have a verdict, and votes where one approval was enough.
LEMMA VerdictStays ==
  ASSUME StoreInv, NEW s \in Sessions, Step(s), NEW a \in Approvals
  PROVE  /\ request[a].state \in Terminal => request'[a] = request[a]
         /\ Approved(request[a]) /\ ClassOf[request[a].action] = "read" =>
              decisions'[a] = decisions[a]
<1>1. CASE Open(s)
  BY <1>1 DEF Open, Unopened, Terminal, StoreInv, ApprovalsTypeOK
<1>2. CASE Write(s)
  <2>1. CASE OutcomeOf(s) \in Votes
    <3>1. a # session[s].on => request'[a] = request[a] /\ decisions'[a] = decisions[a]
      BY <1>2, <2>1, VoteRows
    <3>2. OutcomeOf(s) \in Transitions => request[session[s].on].state = "pending_review"
      BY <1>2, <2>1, VoteIsOpen
    <3>3. OutcomeOf(s) \notin Transitions => request' = request
      BY <1>2, <2>1, VoteRows DEF Transitions
    <3>4. ~(/\ Approved(request[session[s].on])
            /\ ClassOf[request[session[s].on].action] = "read")
      BY <1>2, <2>1, VoteIsOpen
    <3>5. QED
      BY <3>1, <3>2, <3>3, <3>4 DEF Terminal
  <2>2. CASE OutcomeOf(s) \notin Votes
    BY <1>2, <2>2 DEF Write
  <2>3. QED
    BY <2>1, <2>2
<1>3. CASE UNCHANGED <<request, decisions>>
  BY <1>3
<1>4. QED
  BY <1>1, <1>2, <1>3 DEF Step, FetchDecisions, Number, Refused

-----------------------------------------------------------------------------
(* The gate.                                                               *)

\* What was executed rests on a row no decision can move any more: it has
\* its verdict, and one approval was enough for it.
Authorised(c) ==
  /\ Approved(request[c.on]) /\ ClassOf[request[c.on].action] = "read"
  /\ request[c.on].action = c.action
  /\ c.executor \notin {request[c.on].maker} \cup Voters(decisions[c.on])

\* A session that reads for a call of the gate reads the approval it names.
Asks(s) ==
  asking[s] # None =>
    /\ asking[s].kind = "complete" => asking[s].action \in Governed
    /\ session[s].pc # "idle" => session[s].on = asking[s].on

GateInv ==
  /\ ExecutionsTypeOK
  /\ \A s \in Sessions : Asks(s)
  /\ \A c \in completed : Authorised(c)

IInv == StoreInv /\ GateInv

LEMMA InitIsRight == ExecutionsInit => IInv
<1> SUFFICES ASSUME ExecutionsInit PROVE IInv
  OBVIOUS
<1>1. Unopened \in RequestType /\ NoVotes \in VotesType
  BY DEF Unopened, NoVotes, RequestType, VotesType
<1>2. NoEvents \in [last : Nat, of : [Events -> Nat]]
  BY DEF NoEvents
<1>3. ApprovalsTypeOK
  BY <1>1, <1>2, IdleFits DEF ExecutionsInit, ApprovalsInit, ApprovalsTypeOK
<1>4. ASSUME NEW a \in Approvals PROVE RowOK(a)
  <2>1. /\ request[a] = Unopened
        /\ decisions[a].approve = {} /\ decisions[a].reject = {}
    BY DEF ExecutionsInit, ApprovalsInit, NoVotes
  <2>2. QED
    BY <2>1 DEF RowOK, Versioned, Approved, Voters, Unopened, Terminal
<1>5. \A s \in Sessions : Fits(session[s])
  BY IdleFits DEF ExecutionsInit, ApprovalsInit
<1>6. GateInv
  BY <1>3 DEF GateInv, ExecutionsTypeOK, ExecutionsInit, Asks
<1>7. QED
  BY <1>3, <1>4, <1>5, <1>6 DEF IInv, StoreInv

\* A session stays on its approval until it is idle again.
LEMMA StaysOn ==
  ASSUME StoreInv, NEW s \in Sessions, Step(s) \/ Leave(s), NEW u \in Sessions,
         session'[u].pc # "idle"
  PROVE  session[u].pc # "idle" /\ session'[u].on = session[u].on
<1>1. session \in [Sessions -> SessionType]
  BY DEF StoreInv, ApprovalsTypeOK
<1>2. CASE End(s)
  BY <1>1, <1>2 DEF End, Idle
<1>3. CASE FetchDecisions(s) /\ ~End(s)
  BY <1>1, <1>3 DEF FetchDecisions, SessionType
<1>4. CASE Number(s)
  BY <1>1, <1>4 DEF Number, SessionType
<1>5. CASE Write(s) /\ ~End(s)
  BY <1>1, <1>5 DEF Write, Goto, SessionType
<1>6. QED
  BY <1>2, <1>3, <1>4, <1>5 DEF Step, Leave, Open, Refused

\* What was executed stays authorised while the rows and votes it rests on do.
LEMMA StaysAuthorised ==
  ASSUME StoreInv, NEW c \in Bindings, Authorised(c),
         \A a \in Approvals :
           /\ request[a].state \in Terminal => request'[a] = request[a]
           /\ Approved(request[a]) /\ ClassOf[request[a].action] = "read" =>
                decisions'[a] = decisions[a]
  PROVE  Authorised(c)'
<1>1. c.on \in Approvals
  BY DEF Bindings
<1>2. request'[c.on] = request[c.on] /\ decisions'[c.on] = decisions[c.on]
  BY <1>1 DEF Authorised, Approved, Terminal
<1>3. QED
  BY <1>2 DEF Authorised, Approved

LEMMA StoreStepIsRight ==
  ASSUME IInv, NEW s \in Sessions, StoreStep(s)
  PROVE  IInv'
<1>1. StoreInv /\ GateInv
  BY DEF IInv
<1>2. UNCHANGED <<asking, dryRuns, recorded, completed>>
  BY DEF StoreStep
<1>3. CASE Step(s) \/ Leave(s)
  <2>1. StoreInv'
    BY <1>1, <1>3, StepKeeps
  <2>2. \A c \in completed : Authorised(c)'
    <3>1. \A a \in Approvals :
            /\ request[a].state \in Terminal => request'[a] = request[a]
            /\ Approved(request[a]) /\ ClassOf[request[a].action] = "read" =>
                 decisions'[a] = decisions[a]
      BY <1>1, <1>3, VerdictStays DEF Leave
    <3>2. QED
      BY <1>1, <3>1, StaysAuthorised DEF GateInv, ExecutionsTypeOK
  <2>3. \A u \in Sessions : Asks(u)'
    BY <1>1, <1>2, <1>3, StaysOn DEF GateInv, Asks
  <2>4. QED
    BY <1>1, <1>2, <2>1, <2>2, <2>3 DEF IInv, StoreInv, GateInv, ExecutionsTypeOK
<1>4. ASSUME asking[s] = None, NEW call \in Calls, Begin(s, call) PROVE IInv'
  <2>1. StoreInv'
    BY <1>1, <1>4, BeginKeeps, ApprovalsAssumption DEF ApprovalsAssumption
  <2>2. UNCHANGED <<request, decisions>>
    BY <1>4 DEF Begin
  <2>3. \A c \in completed : Authorised(c)'
    BY <1>1, <2>2 DEF GateInv, Authorised, Approved
  <2>4. \A u \in Sessions : Asks(u)'
    <3>1. \A u \in Sessions : u # s => session'[u] = session[u]
      BY <1>1, <1>4 DEF Begin, StoreInv, ApprovalsTypeOK
    <3>2. QED
      BY <1>1, <1>2, <1>4, <3>1 DEF GateInv, Asks
  <2>5. QED
    BY <1>1, <1>2, <2>1, <2>3, <2>4 DEF IInv, StoreInv, GateInv, ExecutionsTypeOK
<1>5. QED
  BY <1>3, <1>4 DEF StoreStep

LEMMA AskIsRight ==
  ASSUME IInv, NEW s \in Sessions, NEW x \in Executions, Ask(s, x)
  PROVE  IInv'
<1> DEFINE call == ReadFor(x)
<1>1. /\ x \in ExecutionType /\ call \in CallType /\ call.op = "read"
      /\ call.on = x.on /\ x.on \in Approvals /\ x.on # None
  BY ApprovalsAssumption, ExecutionsAssumption
  DEF ApprovalsAssumption, ExecutionsAssumption, ExecutionType, ReadFor, CallType, Verdicts
<1>2. StoreInv'
  BY <1>1, BeginKeeps DEF IInv, Ask
<1>3. /\ session' = [session EXCEPT ![s] =
           [Idle EXCEPT !.pc = "decisions", !.call = call, !.on = x.on, !.row = request[x.on]]]
      /\ asking' = [asking EXCEPT ![s] = x]
      /\ UNCHANGED <<request, decisions, dryRuns, recorded, completed>>
  BY <1>1 DEF Ask, Begin, Target, gateVars
<1>4. x.kind = "complete" => x.action \in Governed
  BY DEF Ask, Bound
<1>5. \A u \in Sessions : Asks(u)'
  BY <1>3, <1>4 DEF IInv, StoreInv, ApprovalsTypeOK, GateInv, ExecutionsTypeOK, Asks, Idle
<1>6. \A c \in completed : Authorised(c)'
  BY <1>3 DEF IInv, GateInv, Authorised, Approved
<1>7. asking' \in [Sessions -> Executions \cup {None}]
  BY <1>3 DEF IInv, GateInv, ExecutionsTypeOK
<1>8. QED
  BY <1>2, <1>3, <1>5, <1>6, <1>7 DEF IInv, StoreInv, GateInv, ExecutionsTypeOK

\* An answer ends the session; what it adds to the gate's state is typed and
\* authorised.
LEMMA AnswerIsRight ==
  ASSUME IInv, NEW s \in Sessions, Answered(s),
         dryRuns' \subseteq Bindings, recorded' \in [Keys -> Bindings \cup {None}],
         completed' \subseteq Bindings,
         \A c \in completed' : c \in completed \/ Authorised(c)
  PROVE  IInv'
<1>1. StoreInv'
  BY EndKeeps DEF IInv, Answered, rowVars
<1>2. asking' = [asking EXCEPT ![s] = None] /\ session' = [session EXCEPT ![s] = Idle]
  BY DEF Answered, End
<1>3. \A c \in completed' : Authorised(c)'
  BY DEF IInv, GateInv, Answered, Authorised, Approved
<1>4. \A u \in Sessions : Asks(u)'
  BY <1>2 DEF IInv, StoreInv, ApprovalsTypeOK, GateInv, ExecutionsTypeOK, Asks, Idle
<1>5. QED
  BY <1>1, <1>2, <1>3, <1>4 DEF IInv, StoreInv, GateInv, ExecutionsTypeOK

\* The call that a session answers names a binding, and one that passed the
\* check of a completion is authorised now: the row it read is the row.
LEMMA ExecutableNow ==
  ASSUME IInv, NEW s \in Sessions, asking[s] # None, Executable(s)
  PROVE  /\ DryRunOf(asking[s]) \in Bindings /\ asking[s].key \in Keys
         /\ asking[s].kind = "complete" => Authorised(DryRunOf(asking[s]))
<1> DEFINE x == asking[s]
           on == session[s].on
<1>1. x \in ExecutionType
  BY ExecutionsAssumption DEF ExecutionsAssumption, IInv, GateInv, ExecutionsTypeOK
<1>2. DryRunOf(x) \in Bindings /\ x.key \in Keys
  BY <1>1 DEF ExecutionType, DryRunOf, Bindings
<1>3. ASSUME x.kind = "complete" PROVE Authorised(DryRunOf(x))
  <2>1. /\ session[s].pc = "answered" /\ Approved(session[s].row)
        /\ session[s].row.action = x.action
        /\ x.executor \notin {session[s].row.maker} \cup Voters(session[s].seen)
    BY DEF Executable, Approved
  <2>2. on = x.on /\ ClassOf[x.action] = "read"
    BY <1>3, <2>1, ExecutionsAssumption DEF ExecutionsAssumption, IInv, GateInv, Asks
  <2>3. RowFits(session[s]) /\ VotesFit(session[s])
    BY <2>1 DEF IInv, StoreInv, Fits
  <2>4. /\ session[s].row.version = 2 /\ on \in Approvals
        /\ RowOK(on) /\ request[on] \in RequestType
    BY <2>1, <2>3 DEF RowFits, Versioned, Approved, Terminal, IInv, StoreInv, ApprovalsTypeOK
  <2>5. request[on].version <= 2
    BY <2>4 DEF RowOK, Versioned, RequestType, Terminal, Unopened
  <2>6. request[on] = session[s].row
    BY <2>3, <2>4, <2>5 DEF RowFits, RequestType
  <2>7. session[s].seen = decisions[on]
    BY <2>1, <2>2, <2>3 DEF VotesFit
  <2>8. QED
    BY <2>1, <2>2, <2>6, <2>7 DEF Authorised, DryRunOf
<1>4. QED
  BY <1>2, <1>3

LEMMA GateIsRight ==
  ASSUME IInv, NEW s \in Sessions, DryRun(s) \/ Record(s) \/ Complete(s) \/ Blocked(s)
  PROVE  IInv'
<1>1. /\ dryRuns \subseteq Bindings /\ recorded \in [Keys -> Bindings \cup {None}]
      /\ completed \subseteq Bindings
  BY DEF IInv, GateInv, ExecutionsTypeOK
<1>2. CASE DryRun(s)
  BY <1>1, <1>2, ExecutableNow, AnswerIsRight DEF DryRun
<1>3. CASE Record(s)
  BY <1>1, <1>3, ExecutableNow, AnswerIsRight DEF Record
<1>4. CASE Complete(s)
  <2>1. DryRunOf(asking[s]) \in Bindings /\ Authorised(DryRunOf(asking[s]))
    BY <1>4, ExecutableNow DEF Complete
  <2>2. completed' \subseteq completed \cup {DryRunOf(asking[s])}
    BY <1>4 DEF Complete
  <2>3. QED
    BY <1>1, <1>4, <2>1, <2>2, AnswerIsRight DEF Complete
<1>5. CASE Blocked(s)
  BY <1>1, <1>5, AnswerIsRight DEF Blocked, gateVars
<1>6. QED
  BY <1>2, <1>3, <1>4, <1>5

LEMMA RestartIsRight ==
  ASSUME IInv, Restart
  PROVE  IInv'
<1>1. session' = [s \in Sessions |-> Idle] /\ UNCHANGED rowVars
  BY DEF Restart, rowVars
<1>2. ApprovalsTypeOK'
  BY <1>1, IdleFits DEF IInv, StoreInv, ApprovalsTypeOK, rowVars
<1>3. ASSUME NEW a \in Approvals PROVE RowOK(a)'
  BY <1>1 DEF IInv, StoreInv, RowOK, rowVars, Versioned, Approved
<1>4. ASSUME NEW s \in Sessions PROVE Fits(session[s])'
  BY <1>1 DEF Fits, Idle
<1>5. GateInv'
  BY <1>2 DEF IInv, GateInv, ExecutionsTypeOK, Restart, Asks, Authorised, Approved
<1>6. QED
  BY <1>2, <1>3, <1>4, <1>5 DEF IInv, StoreInv

LEMMA QuietIsRight ==
  ASSUME IInv, Expire \/ UNCHANGED vars
  PROVE  IInv'
<1>1. UNCHANGED approvalVars /\ UNCHANGED <<asking, recorded, completed>>
      /\ dryRuns' \subseteq dryRuns
  BY DEF Expire, vars, approvalVars
<1>2. UNCHANGED <<request, decisions, decideKeys, openKeys, audit, session>>
  BY <1>1 DEF approvalVars
<1>3. ApprovalsTypeOK'
  BY <1>2 DEF IInv, StoreInv, ApprovalsTypeOK
<1>4. ASSUME NEW a \in Approvals PROVE RowOK(a)'
  BY <1>2 DEF IInv, StoreInv, RowOK, Versioned, Approved
<1>5. ASSUME NEW s \in Sessions PROVE Fits(session[s])'
  BY <1>2 DEF IInv, StoreInv, Fits, RowFits, VotesFit, Versioned, Approved
<1>6. GateInv'
  BY <1>1, <1>2, <1>3 DEF IInv, GateInv, ExecutionsTypeOK, Asks, Authorised, Approved
<1>7. QED
  BY <1>3, <1>4, <1>5, <1>6 DEF IInv, StoreInv

-----------------------------------------------------------------------------
LEMMA NextIsRight == IInv /\ [ExecutionsNext]_vars => IInv'
<1> SUFFICES ASSUME IInv, [ExecutionsNext]_vars PROVE IInv'
  OBVIOUS
<1>1. ASSUME NEW s \in Sessions, StoreStep(s) PROVE IInv'
  BY <1>1, StoreStepIsRight
<1>2. ASSUME NEW s \in Sessions, DryRun(s) \/ Record(s) \/ Complete(s) \/ Blocked(s)
      PROVE  IInv'
  BY <1>2, GateIsRight
<1>3. ASSUME NEW s \in Sessions, NEW x \in Executions, Ask(s, x) PROVE IInv'
  BY <1>3, AskIsRight
<1>4. CASE Restart
  BY <1>4, RestartIsRight
<1>5. CASE Expire \/ UNCHANGED vars
  BY <1>5, QuietIsRight
<1>6. QED
  BY <1>1, <1>2, <1>3, <1>4, <1>5 DEF ExecutionsNext

THEOREM StoreIsRight == ExecutionsSpec => []IInv
<1>1. QED
  BY InitIsRight, NextIsRight, PTL DEF ExecutionsSpec

(***************************************************************************)
(* submit_decision, whatever calls run between its statements: an approved *)
(* request has the approvals of its quorum, a rejected one a single        *)
(* rejection, and the maker decides neither.                               *)
(***************************************************************************)
THEOREM QuorumIsEarned == ExecutionsSpec => []ApprovedByQuorum
<1>1. IInv => ApprovedByQuorum
  BY SMTT(30) DEF IInv, StoreInv, RowOK, ApprovedByQuorum, Approved
<1>2. QED
  BY <1>1, StoreIsRight, PTL

(***************************************************************************)
(* _optimistic_update: a row with a verdict is never written again.        *)
(***************************************************************************)
THEOREM VerdictsAreFinal == ExecutionsSpec => VerdictIsFinal
<1> DEFINE Final == \A a \in Approvals : request[a].state \in Terminal => request'[a] = request[a]
<1>1. ASSUME IInv, [ExecutionsNext]_vars PROVE [Final]_approvalVars
  <2>1. CASE \E s \in Sessions : StoreStep(s)
    <3>1. PICK s \in Sessions : StoreStep(s)
      BY <2>1
    <3>2. CASE Step(s)
      BY <1>1, <3>2, VerdictStays DEF IInv
    <3>3. CASE Leave(s) \/ \E call \in Calls : Begin(s, call)
      BY <3>3 DEF Leave, Begin
    <3>4. QED
      BY <3>1, <3>2, <3>3 DEF StoreStep
  <2>2. CASE UNCHANGED request
    BY <2>2
  <2>3. QED
    BY <1>1, <2>1, <2>2, ZenonT(40) DEF ExecutionsNext, DryRun, Record, Complete, Blocked, Answered,
       Ask, Begin, Expire, Restart, vars, approvalVars
<1>2. QED
  BY <1>1, StoreIsRight, PTL DEF ExecutionsSpec, VerdictIsFinal

(***************************************************************************)
(* complete_governed_backup_check: the approval is read before the action  *)
(* and judged after, and still the action is one the approval stands for.  *)
(***************************************************************************)
THEOREM CompletionsAreAuthorised == ExecutionsSpec => []CompletedIsAuthorised
<1>1. IInv => CompletedIsAuthorised
  BY DEF IInv, GateInv, Authorised, CompletedIsAuthorised, Approved
<1>2. QED
  BY <1>1, StoreIsRight, PTL

\* Every variable keeps its type.
THEOREM ExecutionsAreTyped == ExecutionsSpec => []ExecutionsTypeOK
<1>1. IInv => ExecutionsTypeOK
  BY DEF IInv, GateInv
<1>2. QED
  BY <1>1, StoreIsRight, PTL

-----------------------------------------------------------------------------
(* The audit trail.                                                        *)

Tells(a) ==
  /\ audit[a].of["recorded"] = Cardinality(Voters(decisions[a]))
  /\ audit[a].of["rejected"] = IF request[a].state = "rejected" THEN 1 ELSE 0
  /\ audit[a].of["quorum_met"] = IF Approved(request[a]) THEN 1 ELSE 0

LEMMA TellsIsAuditTells == AuditTellsTheState <=> \A a \in Approvals : Tells(a)
BY DEF AuditTellsTheState, Tells, Approved

\* One more voter is one more.
LEMMA OneMoreVoter ==
  ASSUME NEW votes \in VotesType, NEW after \in VotesType, NEW actor \in Actors,
         actor \notin Voters(votes), Voters(after) = Voters(votes) \cup {actor}
  PROVE  Cardinality(Voters(after)) = Cardinality(Voters(votes)) + 1
<1>1. IsFiniteSet(Voters(votes))
  BY ApprovalsAssumption, FS_Subset DEF ApprovalsAssumption, VotesType, Voters
<1>2. QED
  BY <1>1, FS_AddElement

\* Opening a request logs an event of no decision, on a row without any.
LEMMA OpenTells ==
  ASSUME IInv, \A a \in Approvals : Tells(a), NEW s \in Sessions, Open(s),
         NEW a \in Approvals
  PROVE  Tells(a)'
<1>1. /\ audit \in [Approvals -> [last : Nat, of : [Events -> Nat]]]
      /\ request \in [Approvals -> RequestType] /\ UNCHANGED decisions
  BY DEF IInv, StoreInv, ApprovalsTypeOK, Open
<1>2. CASE UNCHANGED <<request, openKeys, audit>>
  BY <1>1, <1>2 DEF Tells, Approved
<1>3. ASSUME NEW b \in Approvals, request[b] = Unopened,
             request' = [request EXCEPT ![b] =
                [state |-> "pending_review", maker |-> session[s].call.actor,
                 action |-> session[s].call.action, source |-> session[s].call.source,
                 version |-> 1]],
             audit' = [audit EXCEPT ![b] = Logged(@, {"opened"})]
      PROVE  Tells(a)'
  <2>1. CASE a # b
    BY <1>1, <1>3, <2>1 DEF Tells, Approved
  <2>2. CASE a = b
    <3>1. request[a].state = "unopened" /\ request'[a].state = "pending_review"
      BY <1>1, <1>3, <2>2 DEF Unopened
    <3>2. \A e \in {"recorded", "rejected", "quorum_met"} : audit'[a].of[e] = audit[a].of[e]
      BY <1>1, <1>3, <2>2 DEF Logged, Events
    <3>3. QED
      BY <1>1, <3>1, <3>2 DEF Tells, Approved
  <2>3. QED
    BY <2>1, <2>2
<1>4. QED
  BY <1>2, <1>3 DEF Open

\* A vote logs itself, and the verdict it reaches, on a row that had none.
LEMMA VoteTells ==
  ASSUME IInv, \A a \in Approvals : Tells(a), NEW s \in Sessions, Write(s),
         OutcomeOf(s) \in Votes, NEW a \in Approvals
  PROVE  Tells(a)'
<1> DEFINE on == session[s].on
           actor == session[s].call.actor
           o == OutcomeOf(s)
<1>1. /\ StoreInv /\ on \in Approvals /\ Tells(on)
      /\ audit \in [Approvals -> [last : Nat, of : [Events -> Nat]]]
      /\ audit' = [audit EXCEPT ![on] = Logged(@, EventsOf(o))]
      /\ decisions[on] \in VotesType
  BY AtWrite DEF IInv, StoreInv, ApprovalsTypeOK, Write
<1>2. CASE a # on
  <2>1. request'[a] = request[a] /\ decisions'[a] = decisions[a]
    BY <1>1, <1>2, VoteRows
  <2>2. QED
    BY <1>1, <1>2, <2>1 DEF Tells, Approved
<1>3. CASE a = on
  <2>1. /\ actor \in Actors /\ actor \notin Voters(decisions[on])
        /\ o \in Transitions => request[on].state = "pending_review" /\ decisions[on].reject = {}
    BY <1>1, VoteIsOpen
  <2>2. decisions'[on] \in VotesType /\ Voters(decisions'[on]) = Voters(decisions[on]) \cup {actor}
    <3>1. decisions'[on] \in VotesType
      BY <1>1, VoteRows
    <3>2. Voters(decisions'[on]) = Voters(decisions[on]) \cup {actor}
      BY <1>1, <2>1, VoteRows DEF Voters, Transitions
    <3>3. QED
      BY <3>1, <3>2
  <2>3. Cardinality(Voters(decisions'[on])) = Cardinality(Voters(decisions[on])) + 1
    BY <1>1, <2>1, <2>2, OneMoreVoter
  <2>4. \A e \in Events : audit'[on].of[e] = audit[on].of[e] + IF e \in EventsOf(o) THEN 1 ELSE 0
    BY <1>1 DEF Logged
  <2>5. CASE o \in Transitions
    <3>1. /\ audit'[on].of["recorded"] = audit[on].of["recorded"] + 1
          /\ audit'[on].of["rejected"] =
               audit[on].of["rejected"] + IF o = "rejected" THEN 1 ELSE 0
          /\ audit'[on].of["quorum_met"] =
               audit[on].of["quorum_met"] + IF o = "quorum_met" THEN 1 ELSE 0
      BY <2>4, <2>5 DEF Events, EventsOf, Transitions
    <3>2. audit[on].of["rejected"] = 0 /\ audit[on].of["quorum_met"] = 0
      BY <1>1, <2>1, <2>5 DEF Tells, Approved
    <3>3. \/ o = "rejected" /\ request'[on].state = "rejected"
          \/ o = "quorum_met" /\ request'[on].state = "approved_execution_blocked"
      BY <1>1, <2>5, VoteRows DEF Transitions
    <3>4. QED
      BY <1>1, <1>3, <2>3, <3>1, <3>2, <3>3 DEF Tells, Approved
  <2>6. CASE o = "recorded"
    <3>1. /\ audit'[on].of["recorded"] = audit[on].of["recorded"] + 1
          /\ audit'[on].of["rejected"] = audit[on].of["rejected"] + 0
          /\ audit'[on].of["quorum_met"] = audit[on].of["quorum_met"] + 0
      BY <2>4, <2>6 DEF Events, EventsOf, Transitions
    <3>2. request' = request
      BY <1>1, <2>6, VoteRows
    <3>3. audit[on].of["rejected"] \in Nat /\ audit[on].of["quorum_met"] \in Nat
      BY <1>1 DEF Events
    <3>4. QED
      BY <1>1, <1>3, <2>3, <3>1, <3>2, <3>3 DEF Tells, Approved
  <2>7. QED
    BY <2>5, <2>6 DEF Votes, Transitions
<1>4. QED
  BY <1>2, <1>3

\* Whatever else is written is an event of no decision.
LEMMA NoVoteTells ==
  ASSUME IInv, \A a \in Approvals : Tells(a), NEW s \in Sessions, Write(s),
         OutcomeOf(s) \notin Votes, NEW a \in Approvals
  PROVE  Tells(a)'
<1> DEFINE on == session[s].on
           o == OutcomeOf(s)
<1>1. /\ on \in Approvals /\ UNCHANGED <<request, decisions>>
      /\ audit \in [Approvals -> [last : Nat, of : [Events -> Nat]]]
      /\ audit' = [audit EXCEPT ![on] = Logged(@, EventsOf(o))]
  BY AtWrite DEF IInv, StoreInv, ApprovalsTypeOK, Write
<1>2. \A e \in Votes : e \in Events /\ e \notin EventsOf(o)
  BY DEF EventsOf, Votes, Transitions, Events
<1>3. \A e \in Votes : audit'[a].of[e] = audit[a].of[e]
  BY <1>1, <1>2, SMTT(30) DEF Logged
<1>4. QED
  BY <1>1, <1>3 DEF Tells, Approved, Votes

LEMMA AuditStaysTrue ==
  IInv /\ AuditTellsTheState /\ [ExecutionsNext]_vars => AuditTellsTheState'
<1> SUFFICES ASSUME IInv, \A a \in Approvals : Tells(a), [ExecutionsNext]_vars,
                    NEW a \in Approvals
             PROVE  Tells(a)'
  BY TellsIsAuditTells DEF AuditTellsTheState, Tells, Approved
<1>1. ASSUME NEW s \in Sessions, Step(s) PROVE Tells(a)'
  <2>1. CASE Open(s)
    BY <2>1, OpenTells
  <2>2. CASE Write(s)
    BY <2>2, VoteTells, NoVoteTells
  <2>3. CASE FetchDecisions(s) \/ Number(s) \/ Refused(s)
    BY <2>3 DEF FetchDecisions, Number, Refused, Tells, Approved
  <2>4. QED
    BY <1>1, <2>1, <2>2, <2>3 DEF Step
<1>2. CASE UNCHANGED <<request, decisions, audit>>
  BY <1>2 DEF Tells, Approved
<1>3. QED
  BY <1>1, <1>2 DEF ExecutionsNext, StoreStep, Leave, DryRun, Record, Complete, Blocked,
     Answered, Ask, Begin, Expire, Restart, vars, approvalVars

(***************************************************************************)
(* submit_decision and its audit events: they are written under one number *)
(* that nobody else can have taken, so the trail has one "recorded" for    *)
(* each decision that was kept, and a verdict just when the row has one.   *)
(***************************************************************************)
THEOREM TrailIsTrue == ExecutionsSpec => []AuditTellsTheState
<1>1. ExecutionsInit => AuditTellsTheState
  <2> SUFFICES ASSUME ExecutionsInit, NEW a \in Approvals PROVE Tells(a)
    BY TellsIsAuditTells
  <2>1. /\ Voters(decisions[a]) = {} /\ request[a].state = "unopened"
        /\ \A e \in Events : audit[a].of[e] = 0
    BY DEF ExecutionsInit, ApprovalsInit, Voters, NoVotes, NoEvents, Unopened
  <2>2. QED
    BY <2>1, FS_EmptySet DEF Tells, Approved, Events
<1>2. QED
  BY <1>1, StoreIsRight, AuditStaysTrue, PTL DEF ExecutionsSpec
=============================================================================
