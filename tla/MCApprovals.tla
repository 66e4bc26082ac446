---------------------------- MODULE MCApprovals ----------------------------
(***************************************************************************)
(* One approval, asked for by m: to pause a tenant, which takes two        *)
(* checkers, or to check the backups, which takes one.  Three others may   *)
(* decide; c2 executes the check.                                          *)
(***************************************************************************)
EXTENDS Executions, TLC

CONSTANTS a1, m, c1, c2, c3, k1, k2, k3, s1, s2

McClass == [x \in Actions |-> IF x = "check" THEN "read" ELSE "write"]

Call(op, actor, action, key) ==
  [op |-> op, actor |-> actor, on |-> None, action |-> action, source |-> "valid",
   key |-> key, verdict |-> "approve"]
Create(actor, action, key) == Call("create", actor, action, key)
Decide(actor, verdict, key) ==
  [Call("decide", actor, "pause", key) EXCEPT !.on = a1, !.verdict = verdict]

\* A replay, a conflict of keys and a second request for the same are possible.
Creates == {Create(m, "pause", k1), Create(m, "check", k2), Create(m, "pause", k3),
            Create(c2, "pause", k1)}
Decides == {Decide(c1, "approve", k1), Decide(c2, "approve", k2), Decide(c2, "reject", k2),
            Decide(c3, "approve", k3), Decide(m, "approve", k3)}
McCalls == Creates \cup Decides

\* The two first decisions of one request.
TwoApproves == {Create(m, "pause", k1), Decide(c1, "approve", k1), Decide(c2, "approve", k2)}

Gate(kind, e) == [kind |-> kind, executor |-> e, on |-> a1, action |-> "check", key |-> k1]
McExecutions ==
  {Gate("dry_run", c2), Gate("record", c2), Gate("complete", c2), Gate("dry_run", c1)}

NoExecutions == {}

SessionSymmetry == Permutations(Sessions)
=============================================================================
