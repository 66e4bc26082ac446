SPECIFICATION ExecutionsSpec
CONSTANTS
  a1 = a1
  m = m
  c1 = c1
  c2 = c2
  c3 = c3
  k1 = k1
  k2 = k2
  k3 = k3
  s1 = s1
  s2 = s2
  None = None
  Approvals = {a1}
  Actors = {m, c1, c2, c3}
  Actions = {"check", "pause"}
  ClassOf <- McClass
  Keys = {k1, k2, k3}
  Calls <- TwoApproves
  Executions <- NoExecutions
  Governed = {"check"}
  Sessions = {s1, s2}
  MaxEvents = 5
INVARIANTS
  PendingIsBelowQuorum
