SPECIFICATION OnboardingSpec
CONSTANTS
  e1 = e1
  e2 = e2
  q1 = q1
  q2 = q2
  NoEmail = NoEmail
  MaxSchemas = 2
  Emails <- McEmails
  Requests <- McRequests
SYMMETRY McSymmetry
CHECK_DEADLOCK FALSE
INVARIANTS
  OnboardingTypeOK
  SetupLeadsToATenant
  UsedLinkLeftASetupToken
PROPERTY ActiveIsForever
