------------------------ MODULE MCRetailerCredentials ------------------------
(* Two wholesalers, one of which invites, two sessions and two passwords, for TLC. *)
EXTENDS RetailerCredentials, TLC

CONSTANTS w1, w2, i1, p1, p2, s1, s2

McInviterOf == [i \in Invitations |-> w1]
McSymmetry == Permutations(Sessions) \cup Permutations(Passwords)
=============================================================================
