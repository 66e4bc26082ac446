SPECIFICATION CredentialsSpec
CONSTANTS
  w1 = w1
  w2 = w2
  i1 = i1
  p1 = p1
  p2 = p2
  s1 = s1
  s2 = s2
  NoCopy = NoCopy
  NoInvitation = NoInvitation
  Wholesalers = {w1, w2}
  Invitations = {i1}
  InviterOf <- McInviterOf
  Passwords = {p1, p2}
  Sessions = {s1, s2}
SYMMETRY McSymmetry
CHECK_DEADLOCK FALSE
INVARIANTS
  CredentialsTypeOK
  NobodyIsStranded
PROPERTY InvitationsAreSpentOnce
