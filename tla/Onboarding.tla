----------------------------- MODULE Onboarding -----------------------------
(***************************************************************************)
(* A tenant's way in: signup, verification of the email, provisioning of   *)
(* the wholesaler and its schema, and the setup of the owner's credential  *)
(* (services/onboarding_service.py, tenant_provisioning_service.py and     *)
(* owner_credential_service.py).  No code moves a registration out of the  *)
(* live states, so an email has at most one and stands for it.             *)
(*                                                                         *)
(* A verification request has two transactions on the registration row and *)
(* a bootstrap of the schema that commits by itself in between.  It reads  *)
(* its token and the row without a lock, and the session keeps what it     *)
(* has read: a row it locks later is not read again.                       *)
(***************************************************************************)
EXTENDS Naturals, FiniteSets

CONSTANTS
  Emails,
  Requests,     \* verification requests that may run at the same time
  NoEmail,      \* what an idle request works on
  MaxSchemas    \* bound: schemas that are ever bootstrapped for one email

NoRequest == "none"   \* nobody holds the row

ASSUME OnboardingAssumption ==
  /\ NoEmail \notin Emails
  /\ NoRequest \notin Requests
  /\ MaxSchemas \in Nat

NoSchema == 0
Schemas == 1 .. MaxSchemas

VARIABLES
  registration,   \* registration[e]: the committed row, its status and tenant_schema
  verification,   \* verification[e]: the email verification token
  setup,          \* setup[e]: the newest owner setup token
  owner,          \* emails whose owner has a user in the tenant schema
  bootstrapped,   \* bootstrapped[e]: the schemas in the database, committed
  request,        \* request[q]: where the request is, and what it has read
  lockedBy        \* lockedBy[e]: the request that holds the registration row

onboardingVars ==
  <<registration, verification, setup, owner, bootstrapped, request, lockedBy>>

Statuses == {"none", "pending_email_verification", "active"}
TokenStates == {"none", "live", "expired", "used"}
Steps == {"idle", "claiming", "inserting", "bootstrapping", "activating",
          "issuing", "closing"}

Idle == [at |-> "idle", email |-> NoEmail, seen |-> "none", schema |-> NoSchema,
         issues |-> FALSE]

OnboardingTypeOK ==
  /\ registration \in [Emails -> [status : Statuses, schema : Schemas \cup {NoSchema}]]
  /\ verification \in [Emails -> TokenStates]
  /\ setup \in [Emails -> TokenStates]
  /\ owner \subseteq Emails
  /\ bootstrapped \in [Emails -> SUBSET Schemas]
  /\ request \in [Requests -> [at : Steps, email : Emails \cup {NoEmail}, seen : Statuses,
                               schema : Schemas \cup {NoSchema}, issues : BOOLEAN]]
  /\ lockedBy \in [Emails -> Requests \cup {NoRequest}]
  /\ \A e \in Emails : lockedBy[e] # NoRequest => request[lockedBy[e]].email = e

OnboardingInit ==
  /\ registration = [e \in Emails |-> [status |-> "none", schema |-> NoSchema]]
  /\ verification = [e \in Emails |-> "none"]
  /\ setup = [e \in Emails |-> "none"]
  /\ owner = {}
  /\ bootstrapped = [e \in Emails |-> {}]
  /\ request = [q \in Requests |-> Idle]
  /\ lockedBy = [e \in Emails |-> NoRequest]

-----------------------------------------------------------------------------
\* Helpers

At(q, step) == request[q].at = step
EmailOf(q) == request[q].email
Go(q, step) == request' = [request EXCEPT ![q].at = step]

Lock(q) ==
  /\ lockedBy[EmailOf(q)] \in {NoRequest, q}
  /\ lockedBy' = [lockedBy EXCEPT ![EmailOf(q)] = q]

\* The end of a transaction of q, committed or rolled back.
Unlocked(q) ==
  [e \in Emails |-> IF lockedBy[e] = q THEN NoRequest ELSE lockedBy[e]]

\* _live_registration_for_email
NoLiveRegistration(e) == registration[e].status = "none"

\* _is_retryable_setup_email_failure
SetupMailMissing(e) == registration[e].status = "active" /\ setup[e] # "live"

\* A mutant of CodeIsFree: the wholesaler code has no unique index.
AnyCode(e) == TRUE

\* The code of a wholesaler is derived from the registration and is unique.
CodeIsFree(e) == registration[e].schema = NoSchema

-----------------------------------------------------------------------------
\* signup: a live registration for the email makes it a neutral reply.

Signup(e) ==
  /\ NoLiveRegistration(e)
  /\ registration' = [registration EXCEPT ![e].status = "pending_email_verification"]
  /\ verification' = [verification EXCEPT ![e] = "live"]
  /\ UNCHANGED <<setup, owner, bootstrapped, request, lockedBy>>

ExpireVerification(e) ==
  /\ verification[e] = "live"
  /\ verification' = [verification EXCEPT ![e] = "expired"]
  /\ UNCHANGED <<registration, setup, owner, bootstrapped, request, lockedBy>>

ExpireSetup(e) ==
  /\ setup[e] = "live"
  /\ setup' = [setup EXCEPT ![e] = "expired"]
  /\ UNCHANGED <<registration, verification, owner, bootstrapped, request, lockedBy>>

-----------------------------------------------------------------------------
\* verify-email

\* The token and the registration are read; nothing is locked.
ReadToken(q, e) ==
  /\ At(q, "idle")
  /\ verification[e] = "live"
  /\ registration[e].status = "pending_email_verification" \/ SetupMailMissing(e)
  /\ request' = [request EXCEPT ![q] =
       [Idle EXCEPT !.at = "claiming", !.email = e, !.seen = registration[e].status]]
  /\ UNCHANGED <<registration, verification, setup, owner, bootstrapped, lockedBy>>

(***************************************************************************)
(* claim_registration_for_provisioning: the row is written or locked.  A   *)
(* request that has read a pending row goes on to provision it even if it  *)
(* has become active; its own writes stay in its transaction until it      *)
(* activates.                                                              *)
(***************************************************************************)
Claim(q) ==
  /\ At(q, "claiming")
  /\ Lock(q)
  /\ Go(q, IF request[q].seen = "active" THEN "activating" ELSE "inserting")
  /\ UNCHANGED <<registration, verification, setup, owner, bootstrapped>>

\* _ensure_wholesaler; the schema name is derived from the new wholesaler's id.
InsertWholesaler(q) ==
  /\ At(q, "inserting")
  /\ CodeIsFree(EmailOf(q))
  /\ Go(q, "bootstrapping")
  /\ UNCHANGED <<registration, verification, setup, owner, bootstrapped, lockedBy>>

\* bootstrap: an engine and a transaction of its own.
Bootstrap(q) ==
  /\ At(q, "bootstrapping")
  /\ LET e == EmailOf(q)
         fresh == Cardinality(bootstrapped[e]) + 1
     IN /\ fresh \in Schemas
        /\ bootstrapped' = [bootstrapped EXCEPT ![e] = @ \cup {fresh}]
        /\ request' = [request EXCEPT ![q].at = "activating", ![q].schema = fresh]
  /\ UNCHANGED <<registration, verification, setup, owner, lockedBy>>

\* A mutant of CommitActive: the assignment is flushed only with the second commit.
CommitStatusOnly(q) ==
  /\ At(q, "activating")
  /\ registration' = [registration EXCEPT ![EmailOf(q)].status = "active"]
  /\ lockedBy' = Unlocked(q)
  /\ Go(q, "issuing")
  /\ UNCHANGED <<verification, setup, owner, bootstrapped>>

\* The first commit: the assignment and the active status, or nothing new.
CommitActive(q) ==
  /\ At(q, "activating")
  /\ registration' =
       IF request[q].seen = "active" THEN registration
       ELSE [registration EXCEPT ![EmailOf(q)] =
               [status |-> "active", schema |-> request[q].schema]]
  /\ lockedBy' = Unlocked(q)
  /\ Go(q, "issuing")
  /\ UNCHANGED <<verification, setup, owner, bootstrapped>>

\* issue_setup_token, with the row locked again, and its mail: a live token is not replaced.
IssueSetupToken(q) ==
  /\ At(q, "issuing")
  /\ Lock(q)
  /\ request' = [request EXCEPT ![q].at = "closing", ![q].issues = setup[EmailOf(q)] # "live"]
  /\ UNCHANGED <<registration, verification, setup, owner, bootstrapped>>

\* A mutant of CommitSetup: only the verification token is written.
CommitUsedOnly(q) ==
  /\ At(q, "closing")
  /\ verification' = [verification EXCEPT ![EmailOf(q)] = "used"]
  /\ lockedBy' = Unlocked(q)
  /\ request' = [request EXCEPT ![q] = Idle]
  /\ UNCHANGED <<registration, setup, owner, bootstrapped>>

\* The second commit: the setup token, if one was issued, and the used verification token.
CommitSetup(q) ==
  /\ At(q, "closing")
  /\ LET e == EmailOf(q) IN
       /\ setup' = IF request[q].issues THEN [setup EXCEPT ![e] = "live"] ELSE setup
       /\ verification' = [verification EXCEPT ![e] = "used"]
  /\ lockedBy' = Unlocked(q)
  /\ request' = [request EXCEPT ![q] = Idle]
  /\ UNCHANGED <<registration, owner, bootstrapped>>

\* A mutant of Fail: the session is not rolled back.
FailHolding(q) ==
  /\ ~At(q, "idle")
  /\ request' = [request EXCEPT ![q] = Idle]
  /\ UNCHANGED <<registration, verification, setup, owner, bootstrapped, lockedBy>>

(***************************************************************************)
(* Any step may fail: a unique index, the bootstrap, a lost connection,    *)
(* the mail server, or the process.  The open transaction is rolled back,  *)
(* and with it what _record_failure would have written: the rollback has   *)
(* returned the row to pending, which _record_failure leaves alone.        *)
(***************************************************************************)
Fail(q) ==
  /\ ~At(q, "idle")
  /\ lockedBy' = Unlocked(q)
  /\ request' = [request EXCEPT ![q] = Idle]
  /\ UNCHANGED <<registration, verification, setup, owner, bootstrapped>>

-----------------------------------------------------------------------------
\* setup-credential: one transaction, the token and the registration locked.

SetupCredential(e) ==
  /\ setup[e] = "live"
  /\ lockedBy[e] = NoRequest
  /\ setup' = [setup EXCEPT ![e] = "used"]
  /\ owner' = owner \cup {e}
  /\ UNCHANGED <<registration, verification, bootstrapped, request, lockedBy>>

-----------------------------------------------------------------------------
OnboardingNext ==
  \/ \E e \in Emails : Signup(e) \/ ExpireVerification(e) \/ ExpireSetup(e) \/ SetupCredential(e)
  \/ \E q \in Requests, e \in Emails : ReadToken(q, e)
  \/ \E q \in Requests : \/ Claim(q) \/ InsertWholesaler(q) \/ Bootstrap(q) \/ CommitActive(q)
                          \/ IssueSetupToken(q) \/ CommitSetup(q) \/ Fail(q)

OnboardingSpec == OnboardingInit /\ [][OnboardingNext]_onboardingVars

-----------------------------------------------------------------------------
(***************************************************************************)
(* A setup link that works leads to a tenant: the registration of a live   *)
(* or used setup token, and of every owner, is active and its schema is    *)
(* bootstrapped (owner_credential_service.py consume_setup_token).         *)
(***************************************************************************)
SetupLeadsToATenant ==
  \A e \in Emails :
    setup[e] # "none" \/ e \in owner
      => registration[e].status = "active" /\ registration[e].schema \in bootstrapped[e]

(***************************************************************************)
(* The verification link is the only retry anchor: it is used up only when *)
(* a setup token has been committed (onboarding_service.py, the used_at    *)
(* after complete_email_verified_onboarding).                              *)
(***************************************************************************)
UsedLinkLeftASetupToken ==
  \A e \in Emails : verification[e] = "used" => setup[e] # "none"

(***************************************************************************)
(* A tenant once active stays active in its schema, whatever a request     *)
(* that read the registration earlier does: it locks the row but does not  *)
(* read it again, so its claim succeeds and only the unique code of the    *)
(* wholesaler stops it.                                                    *)
(***************************************************************************)
ActiveIsForever ==
  [][\A e \in Emails :
       registration[e].status = "active" => registration'[e] = registration[e]]_onboardingVars
=============================================================================
