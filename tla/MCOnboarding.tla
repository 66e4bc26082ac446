---------------------------- MODULE MCOnboarding ----------------------------
(* Two registrations and two verification requests in flight, for TLC. *)
EXTENDS Onboarding, TLC

CONSTANTS e1, e2, q1, q2

McEmails == {e1, e2}
McRequests == {q1, q2}
McSymmetry == Permutations(McEmails) \cup Permutations(McRequests)
=============================================================================
