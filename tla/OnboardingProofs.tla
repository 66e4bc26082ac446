-------------------------- MODULE OnboardingProofs --------------------------
(***************************************************************************)
(* The guarantees of the onboarding for any number of registrations and of *)
(* verification requests in flight.  The argument is about the row lock: a *)
(* request that provisions holds the row of its registration from its      *)
(* claim to its first commit, so the code it found free stays free.        *)
(***************************************************************************)
EXTENDS Onboarding, TLAPS

Active(e) == registration[e].status = "active"

RequestData ==
  [at : Steps, email : Emails \cup {NoEmail}, seen : Statuses,
   schema : Schemas \cup {NoSchema}, issues : BOOLEAN]

\* The part of OnboardingTypeOK the argument uses.
DataOK ==
  /\ registration \in [Emails -> [status : Statuses, schema : Schemas \cup {NoSchema}]]
  /\ verification \in [Emails -> TokenStates]
  /\ setup \in [Emails -> TokenStates]
  /\ bootstrapped \in [Emails -> SUBSET Schemas]
  /\ request \in [Requests -> RequestData]
  /\ lockedBy \in [Emails -> Requests \cup {NoRequest}]

\* What has been committed for an email.
EmailOK(e) ==
  /\ Active(e) => registration[e].schema \in bootstrapped[e]
  /\ setup[e] # "none" \/ e \in owner => Active(e)
  /\ verification[e] = "used" => setup[e] # "none"

\* What a request in flight may rely on.
RequestOK(q) ==
  LET r == request[q]
      e == request[q].email
  IN r.at # "idle" =>
       /\ e \in Emails
       /\ r.seen = "active" => Active(e)
       /\ r.at \in {"inserting", "bootstrapping", "activating"} => lockedBy[e] = q
       /\ r.at \in {"bootstrapping", "activating"} /\ r.seen # "active" =>
            registration[e].schema = NoSchema
       /\ r.at = "activating" /\ r.seen # "active" => r.schema \in bootstrapped[e]
       /\ r.at \in {"issuing", "closing"} => Active(e)
       /\ r.at = "closing" /\ ~r.issues => setup[e] # "none"

OnboardingInv ==
  /\ DataOK
  /\ \A e \in Emails : EmailOK(e)
  /\ \A q \in Requests : RequestOK(q)

LEMMA OnboardingStart == OnboardingInit => OnboardingInv
BY DEF OnboardingInit, OnboardingInv, DataOK, EmailOK, RequestOK, Active, RequestData, Idle,
       Steps, Statuses, TokenStates

\* A request keeps what it relies on while others work, if they respect its lock.
LEMMA OthersKeep ==
  ASSUME OnboardingInv, NEW p \in Requests,
         request'[p] = request[p],
         \A e \in Emails : Active(e) => Active(e)',
         \A e \in Emails : setup[e] # "none" => setup'[e] # "none",
         \A e \in Emails : bootstrapped[e] \subseteq bootstrapped'[e],
         \A e \in Emails : lockedBy[e] = p =>
           lockedBy'[e] = p /\ registration'[e].schema = registration[e].schema
  PROVE  RequestOK(p)'
BY DEF OnboardingInv, RequestOK

\* An email with an active tenant has a schema, which is never NoSchema.
LEMMA ActiveHasSchema ==
  ASSUME OnboardingInv, NEW e \in Emails, Active(e)
  PROVE  registration[e].schema # NoSchema
BY OnboardingAssumption DEF OnboardingInv, DataOK, EmailOK, Schemas, NoSchema

-----------------------------------------------------------------------------
\* Steps outside a verification request

LEMMA SignupInv ==
  ASSUME OnboardingInv, NEW e \in Emails, Signup(e)
  PROVE  OnboardingInv'
<1>1. /\ registration[e].status = "none"
      /\ registration' = [registration EXCEPT ![e].status = "pending_email_verification"]
      /\ verification' = [verification EXCEPT ![e] = "live"]
      /\ UNCHANGED <<setup, owner, bootstrapped, request, lockedBy>>
  BY DEF Signup, NoLiveRegistration
<1>2. /\ ~Active(e)
      /\ \A d \in Emails : Active(d)' <=> Active(d)
      /\ \A d \in Emails : registration'[d].schema = registration[d].schema
      /\ \A d \in Emails : verification'[d] = "used" => verification[d] = "used"
  BY <1>1 DEF OnboardingInv, DataOK, Active
<1>3. DataOK'
  BY <1>1 DEF OnboardingInv, DataOK, Statuses, TokenStates
<1>4. \A d \in Emails : EmailOK(d)'
  BY <1>1, <1>2 DEF OnboardingInv, EmailOK
<1>5. \A p \in Requests : RequestOK(p)'
  BY <1>1, <1>2, OthersKeep
<1> QED
  BY <1>3, <1>4, <1>5 DEF OnboardingInv

LEMMA ExpireInv ==
  ASSUME OnboardingInv, NEW e \in Emails, ExpireVerification(e) \/ ExpireSetup(e)
  PROVE  OnboardingInv'
<1>1. /\ \/ verification' = [verification EXCEPT ![e] = "expired"] /\ setup' = setup
         \/ /\ setup' = [setup EXCEPT ![e] = "expired"] /\ verification' = verification
            /\ setup[e] = "live"
      /\ UNCHANGED <<registration, owner, bootstrapped, request, lockedBy>>
  BY DEF ExpireVerification, ExpireSetup
<1>2. /\ \A d \in Emails : Active(d)' <=> Active(d)
      /\ \A d \in Emails : setup'[d] = "none" <=> setup[d] = "none"
      /\ \A d \in Emails : verification'[d] = "used" => verification[d] = "used"
  BY <1>1 DEF OnboardingInv, DataOK, Active
<1>3. DataOK'
  BY <1>1 DEF OnboardingInv, DataOK, TokenStates
<1>4. \A d \in Emails : EmailOK(d)'
  BY <1>1, <1>2 DEF OnboardingInv, EmailOK
<1>5. \A p \in Requests : RequestOK(p)'
  BY <1>1, <1>2, OthersKeep
<1> QED
  BY <1>3, <1>4, <1>5 DEF OnboardingInv

LEMMA SetupCredentialInv ==
  ASSUME OnboardingInv, NEW e \in Emails, SetupCredential(e)
  PROVE  OnboardingInv'
<1>1. /\ setup[e] = "live"
      /\ setup' = [setup EXCEPT ![e] = "used"]
      /\ owner' = owner \cup {e}
      /\ UNCHANGED <<registration, verification, bootstrapped, request, lockedBy>>
  BY DEF SetupCredential
<1>2. /\ Active(e)
      /\ \A d \in Emails : Active(d)' <=> Active(d)
      /\ \A d \in Emails : setup'[d] = "none" <=> setup[d] = "none"
  BY <1>1 DEF OnboardingInv, DataOK, EmailOK, Active
<1>3. DataOK'
  BY <1>1 DEF OnboardingInv, DataOK, TokenStates
<1>4. \A d \in Emails : EmailOK(d)'
  BY <1>1, <1>2 DEF OnboardingInv, EmailOK
<1>5. \A p \in Requests : RequestOK(p)'
  BY <1>1, <1>2, OthersKeep
<1> QED
  BY <1>3, <1>4, <1>5 DEF OnboardingInv

-----------------------------------------------------------------------------
\* Steps of a verification request

\* A request changes its own data and may take or give up its lock, nothing else.
LEMMA RequestMoves ==
  ASSUME OnboardingInv, NEW q \in Requests, NEW r \in RequestData,
         request' = [request EXCEPT ![q] = r],
         lockedBy' \in [Emails -> Requests \cup {NoRequest}],
         \A e \in Emails : \A p \in Requests \ {q} : lockedBy[e] = p => lockedBy'[e] = p,
         UNCHANGED <<registration, verification, setup, owner, bootstrapped>>,
         RequestOK(q)'
  PROVE  OnboardingInv'
<1>1. DataOK'
  BY DEF OnboardingInv, DataOK
<1>2. \A e \in Emails : EmailOK(e)' /\ (Active(e)' <=> Active(e))
  BY DEF OnboardingInv, EmailOK, Active
<1>3. ASSUME NEW p \in Requests \ {q} PROVE RequestOK(p)'
  <2>1. request'[p] = request[p]
    BY DEF OnboardingInv, DataOK
  <2> QED
    BY <2>1, <1>2, OthersKeep
<1> QED
  BY <1>1, <1>2, <1>3 DEF OnboardingInv

\* The lock a request takes was free or its own; giving it up frees no other.
LEMMA LockStep ==
  ASSUME OnboardingInv, NEW q \in Requests,
         Lock(q) \/ lockedBy' = Unlocked(q)
  PROVE  /\ request[q].email \in Emails => lockedBy' \in [Emails -> Requests \cup {NoRequest}]
         /\ \A e \in Emails : \A p \in Requests \ {q} : lockedBy[e] = p => lockedBy'[e] = p
<1>1. \A p \in Requests : p # NoRequest
  BY OnboardingAssumption
<1>2. CASE Lock(q)
  BY <1>1, <1>2 DEF OnboardingInv, DataOK, Lock, EmailOf
<1>3. CASE lockedBy' = Unlocked(q)
  BY <1>3 DEF OnboardingInv, DataOK, Unlocked
<1> QED
  BY <1>2, <1>3

\* What an idle request holds.
LEMMA IdleData == Idle \in RequestData /\ Idle.at = "idle"
BY DEF Idle, RequestData, Steps, Statuses

LEMMA ReadTokenInv ==
  ASSUME OnboardingInv, NEW q \in Requests, NEW e \in Emails, ReadToken(q, e)
  PROVE  OnboardingInv'
<1> DEFINE status == registration[e].status
           r == [Idle EXCEPT !.at = "claiming", !.email = e, !.seen = status]
<1>1. /\ request' = [request EXCEPT ![q] = r]
      /\ UNCHANGED <<registration, verification, setup, owner, bootstrapped, lockedBy>>
  BY DEF ReadToken
<1>2. status \in Statuses
  BY DEF OnboardingInv, DataOK
<1> HIDE DEF status
<1>3. /\ r \in RequestData
      /\ r.at = "claiming" /\ r.email = e /\ r.seen = status
  BY <1>2, IdleData DEF RequestData, Steps
<1> HIDE DEF r
<1>4. request'[q] = r
  BY <1>1 DEF OnboardingInv, DataOK
<1>5. RequestOK(q)'
  BY <1>1, <1>3, <1>4 DEF RequestOK, Active, status
<1>6. lockedBy' \in [Emails -> Requests \cup {NoRequest}] /\ lockedBy' = lockedBy
  BY <1>1 DEF OnboardingInv, DataOK
<1> QED
  BY <1>1, <1>3, <1>5, <1>6, RequestMoves

LEMMA ClaimInv ==
  ASSUME OnboardingInv, NEW q \in Requests, Claim(q)
  PROVE  OnboardingInv'
<1> DEFINE e == request[q].email
           r == [request[q] EXCEPT !.at = IF request[q].seen = "active" THEN "activating"
                                          ELSE "inserting"]
<1>1. /\ request[q].at = "claiming"
      /\ Lock(q)
      /\ request' = [request EXCEPT ![q] = r]
      /\ UNCHANGED <<registration, verification, setup, owner, bootstrapped>>
  BY DEF Claim, At, Go
<1>2. /\ r \in RequestData /\ r.email = e /\ r.seen = request[q].seen
      /\ r.at = IF request[q].seen = "active" THEN "activating" ELSE "inserting"
  BY DEF OnboardingInv, DataOK, RequestData, Steps
<1>3. e \in Emails /\ (request[q].seen = "active" => Active(e))
  BY <1>1 DEF OnboardingInv, RequestOK
<1>4. lockedBy'[e] = q
  BY <1>1, <1>3 DEF OnboardingInv, DataOK, Lock, EmailOf
<1>5. request'[q] = r
  BY <1>1 DEF OnboardingInv, DataOK
<1>6. RequestOK(q)'
  <2>1. request'[q].email = e /\ (Active(e) => Active(e)')
    BY <1>1, <1>2, <1>5 DEF Active
  <2>2. request'[q].seen = request[q].seen
    BY <1>2, <1>5
  <2>3. request'[q].at \in {"activating", "inserting"}
        /\ (request'[q].at = "activating" => request[q].seen = "active")
    BY <1>2, <1>5
  <2> QED
    BY <1>1, <1>3, <1>4, <2>1, <2>2, <2>3 DEF RequestOK, Active
<1> HIDE DEF r
<1> QED
  BY <1>1, <1>2, <1>3, <1>6, LockStep, RequestMoves

LEMMA InsertWholesalerInv ==
  ASSUME OnboardingInv, NEW q \in Requests, InsertWholesaler(q)
  PROVE  OnboardingInv'
<1> DEFINE r == [request[q] EXCEPT !.at = "bootstrapping"]
<1>1. /\ request[q].at = "inserting"
      /\ registration[request[q].email].schema = NoSchema
      /\ request' = [request EXCEPT ![q] = r]
      /\ UNCHANGED <<registration, verification, setup, owner, bootstrapped, lockedBy>>
  BY DEF InsertWholesaler, At, Go, CodeIsFree, EmailOf
<1>2. r \in RequestData
  BY DEF OnboardingInv, DataOK, RequestData, Steps
<1>3. request'[q] = r
  BY <1>1 DEF OnboardingInv, DataOK
<1>4. /\ r.email = request[q].email /\ r.seen = request[q].seen
      /\ r.at = "bootstrapping"
  BY DEF OnboardingInv, DataOK, RequestData
<1> HIDE DEF r
<1>5. RequestOK(q)'
  BY <1>1, <1>3, <1>4 DEF OnboardingInv, RequestOK, Active
<1>6. lockedBy' \in [Emails -> Requests \cup {NoRequest}] /\ lockedBy' = lockedBy
  BY <1>1 DEF OnboardingInv, DataOK
<1> QED
  BY <1>1, <1>2, <1>5, <1>6, RequestMoves

LEMMA BootstrapInv ==
  ASSUME OnboardingInv, NEW q \in Requests, Bootstrap(q)
  PROVE  OnboardingInv'
<1> DEFINE e == request[q].email
           fresh == Cardinality(bootstrapped[e]) + 1
           r == [request[q] EXCEPT !.at = "activating", !.schema = fresh]
<1>1. /\ request[q].at = "bootstrapping"
      /\ fresh \in Schemas
      /\ bootstrapped' = [bootstrapped EXCEPT ![e] = @ \cup {fresh}]
      /\ request' = [request EXCEPT ![q].at = "activating", ![q].schema = fresh]
      /\ UNCHANGED <<registration, verification, setup, owner, lockedBy>>
  BY DEF Bootstrap, At, EmailOf
<1> HIDE DEF fresh
<1>2. /\ e \in Emails
      /\ request[q].seen = "active" => Active(e)
      /\ lockedBy[e] = q
      /\ request[q].seen # "active" => registration[e].schema = NoSchema
  BY <1>1 DEF OnboardingInv, RequestOK
<1>3. r \in RequestData /\ r.email = e /\ r.seen = request[q].seen
      /\ r.at = "activating" /\ r.schema = fresh
  BY <1>1 DEF OnboardingInv, DataOK, RequestData, Steps
<1>4. request' = [request EXCEPT ![q] = r]
  BY <1>1 DEF OnboardingInv, DataOK, RequestData
<1> HIDE DEF r
<1>5. request'[q] = r /\ \A p \in Requests \ {q} : request'[p] = request[p]
  BY <1>4 DEF OnboardingInv, DataOK
<1>6. /\ fresh \in bootstrapped'[e]
      /\ \A d \in Emails : bootstrapped[d] \subseteq bootstrapped'[d]
      /\ bootstrapped' \in [Emails -> SUBSET Schemas]
  BY <1>1, <1>2 DEF OnboardingInv, DataOK
<1>7. DataOK'
  BY <1>1, <1>3, <1>4, <1>6, ZenonT(40) DEF OnboardingInv, DataOK
<1>8. \A d \in Emails : EmailOK(d)' /\ (Active(d) => Active(d)')
  BY <1>1, <1>6 DEF OnboardingInv, EmailOK, Active
<1>9. RequestOK(q)'
  BY <1>1, <1>2, <1>3, <1>5, <1>6 DEF RequestOK, Active
<1>10. ASSUME NEW p \in Requests \ {q} PROVE RequestOK(p)'
  BY <1>1, <1>5, <1>6, <1>8, OthersKeep
<1> QED
  BY <1>7, <1>8, <1>9, <1>10 DEF OnboardingInv

\* The row a request activates has no tenant yet: its lock kept the code free.
LEMMA ActivatesOnce ==
  ASSUME OnboardingInv, NEW q \in Requests, CommitActive(q), request[q].seen # "active"
  PROVE  ~Active(request[q].email)
<1>1. request[q].email \in Emails /\ registration[request[q].email].schema = NoSchema
  BY DEF CommitActive, At, OnboardingInv, RequestOK
<1> QED
  BY <1>1, ActiveHasSchema

LEMMA CommitActiveInv ==
  ASSUME OnboardingInv, NEW q \in Requests, CommitActive(q)
  PROVE  OnboardingInv'
<1> DEFINE e == request[q].email
           r == [request[q] EXCEPT !.at = "issuing"]
           row == [status |-> "active", schema |-> request[q].schema]
<1>1. /\ request[q].at = "activating"
      /\ registration' = IF request[q].seen = "active" THEN registration
                         ELSE [registration EXCEPT ![e] = row]
      /\ lockedBy' = Unlocked(q)
      /\ request' = [request EXCEPT ![q] = r]
      /\ UNCHANGED <<verification, setup, owner, bootstrapped>>
  BY DEF CommitActive, At, Go, EmailOf
<1>2. /\ e \in Emails
      /\ request[q].seen = "active" => Active(e)
      /\ lockedBy[e] = q
      /\ request[q].seen # "active" => request[q].schema \in bootstrapped[e]
  BY <1>1 DEF OnboardingInv, RequestOK
<1>3. /\ r \in RequestData /\ r.email = e /\ r.seen = request[q].seen
      /\ r.at = "issuing"
  BY DEF OnboardingInv, DataOK, RequestData, Steps
<1> HIDE DEF r
<1>4. request'[q] = r /\ \A p \in Requests \ {q} : request'[p] = request[p]
  BY <1>1 DEF OnboardingInv, DataOK
<1>5. /\ registration' \in [Emails -> [status : Statuses, schema : Schemas \cup {NoSchema}]]
      /\ \A d \in Emails \ {e} : registration'[d] = registration[d]
      /\ registration'[e] = IF request[q].seen = "active" THEN registration[e] ELSE row
  <2>1. row \in [status : Statuses, schema : Schemas \cup {NoSchema}]
    BY DEF OnboardingInv, DataOK, RequestData, Statuses
  <2> HIDE DEF row
  <2> QED
    BY <1>1, <1>2, <2>1 DEF OnboardingInv, DataOK
<1>6. /\ registration'[e].status = "active" /\ registration'[e].schema \in bootstrapped[e]
      /\ \A d \in Emails \ {e} : Active(d)' <=> Active(d)
  BY <1>2, <1>5 DEF Active, OnboardingInv, EmailOK
<1>7. /\ lockedBy' \in [Emails -> Requests \cup {NoRequest}]
      /\ \A d \in Emails : \A p \in Requests \ {q} : lockedBy[d] = p => lockedBy'[d] = p
  BY <1>1, <1>2, LockStep
<1>8. DataOK'
  BY <1>1, <1>3, <1>5, <1>7 DEF OnboardingInv, DataOK
<1>9. \A d \in Emails : EmailOK(d)' /\ (Active(d) => Active(d)')
  BY <1>1, <1>5, <1>6 DEF OnboardingInv, EmailOK, Active
<1>10. RequestOK(q)'
  BY <1>2, <1>3, <1>4, <1>6 DEF RequestOK, Active
<1>11. ASSUME NEW p \in Requests \ {q} PROVE RequestOK(p)'
  BY <1>1, <1>2, <1>4, <1>5, <1>7, <1>9, OthersKeep
<1> QED
  BY <1>8, <1>9, <1>10, <1>11 DEF OnboardingInv

LEMMA IssueSetupTokenInv ==
  ASSUME OnboardingInv, NEW q \in Requests, IssueSetupToken(q)
  PROVE  OnboardingInv'
<1> DEFINE e == request[q].email
           r == [request[q] EXCEPT !.at = "closing", !.issues = setup[e] # "live"]
<1>1. /\ request[q].at = "issuing"
      /\ Lock(q)
      /\ request' = [request EXCEPT ![q].at = "closing", ![q].issues = setup[e] # "live"]
      /\ UNCHANGED <<registration, verification, setup, owner, bootstrapped>>
  BY DEF IssueSetupToken, At, EmailOf
<1>2. r \in RequestData /\ r.email = e /\ r.seen = request[q].seen
      /\ r.at = "closing" /\ (~r.issues => setup[e] # "none")
  BY DEF OnboardingInv, DataOK, RequestData, Steps
<1>3. request' = [request EXCEPT ![q] = r]
  BY <1>1 DEF OnboardingInv, DataOK, RequestData
<1> HIDE DEF r
<1>4. request'[q] = r
  BY <1>3 DEF OnboardingInv, DataOK
<1>5. e \in Emails /\ Active(e)
  BY <1>1 DEF OnboardingInv, RequestOK
<1>6. RequestOK(q)'
  BY <1>1, <1>2, <1>4, <1>5 DEF RequestOK, Active
<1> QED
  BY <1>1, <1>2, <1>3, <1>5, <1>6, LockStep, RequestMoves

LEMMA CommitSetupInv ==
  ASSUME OnboardingInv, NEW q \in Requests, CommitSetup(q)
  PROVE  OnboardingInv'
<1> DEFINE e == request[q].email
<1>1. /\ request[q].at = "closing"
      /\ setup' = IF request[q].issues THEN [setup EXCEPT ![e] = "live"] ELSE setup
      /\ verification' = [verification EXCEPT ![e] = "used"]
      /\ lockedBy' = Unlocked(q)
      /\ request' = [request EXCEPT ![q] = Idle]
      /\ UNCHANGED <<registration, owner, bootstrapped>>
  BY DEF CommitSetup, At, EmailOf
<1>2. /\ e \in Emails /\ Active(e)
      /\ ~request[q].issues => setup[e] # "none"
  BY <1>1 DEF OnboardingInv, RequestOK
<1>3. /\ lockedBy' \in [Emails -> Requests \cup {NoRequest}]
      /\ \A d \in Emails : \A p \in Requests \ {q} : lockedBy[d] = p => lockedBy'[d] = p
  BY <1>1, <1>2, LockStep
<1>4. /\ setup'[e] # "none"
      /\ \A d \in Emails : setup[d] # "none" => setup'[d] # "none"
      /\ \A d \in Emails \ {e} : setup'[d] = setup[d] /\ verification'[d] = verification[d]
  BY <1>1, <1>2 DEF OnboardingInv, DataOK
<1>5. /\ setup' \in [Emails -> TokenStates]
      /\ verification' \in [Emails -> TokenStates]
  BY <1>1 DEF OnboardingInv, DataOK, TokenStates
<1>6. DataOK'
  BY <1>1, <1>3, <1>5, IdleData DEF OnboardingInv, DataOK
<1>7. \A d \in Emails : EmailOK(d)' /\ (Active(d)' <=> Active(d))
  BY <1>1, <1>2, <1>4 DEF OnboardingInv, EmailOK, Active
<1>8. request'[q] = Idle /\ \A p \in Requests \ {q} : request'[p] = request[p]
  BY <1>1 DEF OnboardingInv, DataOK
<1>9. RequestOK(q)'
  BY <1>8, IdleData DEF RequestOK
<1>10. ASSUME NEW p \in Requests \ {q} PROVE RequestOK(p)'
  BY <1>1, <1>3, <1>4, <1>7, <1>8, OthersKeep
<1> QED
  BY <1>6, <1>7, <1>9, <1>10 DEF OnboardingInv

LEMMA FailInv ==
  ASSUME OnboardingInv, NEW q \in Requests, Fail(q)
  PROVE  OnboardingInv'
<1>1. /\ request[q].at # "idle"
      /\ lockedBy' = Unlocked(q)
      /\ request' = [request EXCEPT ![q] = Idle]
      /\ UNCHANGED <<registration, verification, setup, owner, bootstrapped>>
  BY DEF Fail, At
<1>2. request[q].email \in Emails
  BY <1>1 DEF OnboardingInv, RequestOK
<1>3. request'[q] = Idle
  BY <1>1 DEF OnboardingInv, DataOK
<1>4. RequestOK(q)'
  BY <1>3, IdleData DEF RequestOK
<1> QED
  BY <1>1, <1>2, <1>4, IdleData, LockStep, RequestMoves

-----------------------------------------------------------------------------
LEMMA OnboardingStep == OnboardingInv /\ [OnboardingNext]_onboardingVars => OnboardingInv'
<1> SUFFICES ASSUME OnboardingInv, [OnboardingNext]_onboardingVars PROVE OnboardingInv'
  OBVIOUS
<1>1. CASE UNCHANGED onboardingVars
  BY <1>1 DEF onboardingVars, OnboardingInv, DataOK, EmailOK, RequestOK, Active
<1>2. CASE OnboardingNext
  BY <1>2, SignupInv, ExpireInv, SetupCredentialInv, ReadTokenInv, ClaimInv,
     InsertWholesalerInv, BootstrapInv, CommitActiveInv, IssueSetupTokenInv, CommitSetupInv,
     FailInv DEF OnboardingNext
<1> QED
  BY <1>1, <1>2

LEMMA OnboardingKeepsInv == OnboardingSpec => []OnboardingInv
<1> QED
  BY OnboardingStart, OnboardingStep, PTL DEF OnboardingSpec

(***************************************************************************)
(* A setup link that works, and an owner, belong to an active registration *)
(* whose schema is in the database, whatever requests failed on the way    *)
(* (owner_credential_service.py consume_setup_token).                      *)
(***************************************************************************)
THEOREM SetupLinksWork == OnboardingSpec => []SetupLeadsToATenant
<1>1. OnboardingInv => SetupLeadsToATenant
  BY DEF OnboardingInv, EmailOK, Active, SetupLeadsToATenant
<1> QED
  BY <1>1, OnboardingKeepsInv, PTL

(***************************************************************************)
(* A verification link is used up only once a setup token is committed     *)
(* (onboarding_service.py, used_at after                                   *)
(* complete_email_verified_onboarding).                                    *)
(***************************************************************************)
THEOREM RetryAnchorIsKept == OnboardingSpec => []UsedLinkLeftASetupToken
<1>1. OnboardingInv => UsedLinkLeftASetupToken
  BY DEF OnboardingInv, EmailOK, UsedLinkLeftASetupToken
<1> QED
  BY <1>1, OnboardingKeepsInv, PTL

(***************************************************************************)
(* An active tenant keeps its status and its schema through every step of  *)
(* every request, among them those that read its row while it was pending  *)
(* (tenant_provisioning_service.py claim_registration_for_provisioning).   *)
(***************************************************************************)
THEOREM TenantsStay == OnboardingSpec => ActiveIsForever
<1> DEFINE Stays == \A e \in Emails :
                      registration[e].status = "active" => registration'[e] = registration[e]
<1>1. OnboardingInv /\ [OnboardingNext]_onboardingVars => [Stays]_onboardingVars
  <2> SUFFICES ASSUME OnboardingInv, OnboardingNext PROVE Stays
    BY DEF onboardingVars
  <2>1. CASE registration' = registration
    BY <2>1
  <2>2. ASSUME NEW e \in Emails, Signup(e) PROVE Stays
    BY <2>2 DEF Signup, NoLiveRegistration, OnboardingInv, DataOK
  <2>3. ASSUME NEW q \in Requests, CommitActive(q) PROVE Stays
    <3>1. CASE request[q].seen = "active"
      BY <2>3, <3>1 DEF CommitActive
    <3>2. CASE request[q].seen # "active"
      <4>1. ~Active(request[q].email)
        BY <2>3, <3>2, ActivatesOnce
      <4> QED
        BY <2>3, <3>2, <4>1 DEF CommitActive, EmailOf, Active, OnboardingInv, DataOK
    <3> QED
      BY <3>1, <3>2
  <2> QED
    BY <2>1, <2>2, <2>3 DEF OnboardingNext, ExpireVerification, ExpireSetup, SetupCredential,
       ReadToken, Claim, InsertWholesaler, Bootstrap, IssueSetupToken, CommitSetup, Fail
<1> HIDE DEF Stays
<1>2. OnboardingSpec => [][Stays]_onboardingVars
  BY <1>1, OnboardingKeepsInv, PTL DEF OnboardingSpec
<1> QED
  BY <1>2 DEF Stays, ActiveIsForever

-----------------------------------------------------------------------------
(* A row is held only by a request that works on it.                       *)

Holds ==
  /\ owner \subseteq Emails
  /\ \A q \in Requests : request[q].at = "idle" => request[q].email = NoEmail
  /\ \A e \in Emails : lockedBy[e] # NoRequest => request[lockedBy[e]].email = e

\* A request that moves on with its email, and the row it may have locked.
LEMMA MovingHolds ==
  ASSUME OnboardingInv, Holds, NEW q \in Requests, request[q].at # "idle",
         request' \in [Requests -> RequestData],
         \A p \in Requests : request'[p].email = request[p].email
                             /\ (request[p].at # "idle" => request'[p].at # "idle"),
         \A p \in Requests \ {q} : request'[p] = request[p],
         UNCHANGED lockedBy \/ Lock(q) \/ lockedBy' = Unlocked(q),
         owner' = owner
  PROVE  Holds'
<1>1. request[q].email \in Emails /\ lockedBy \in [Emails -> Requests \cup {NoRequest}]
  BY DEF OnboardingInv, RequestOK, DataOK
<1>2. \A e \in Emails : \/ lockedBy'[e] \in {lockedBy[e], NoRequest}
                        \/ lockedBy'[e] = q /\ e = request[q].email
  BY <1>1 DEF Lock, Unlocked, EmailOf
<1>3. \A e \in Emails : lockedBy'[e] # NoRequest => request'[lockedBy'[e]].email = e
  BY <1>1, <1>2 DEF Holds
<1> QED
  BY <1>3 DEF Holds

\* A request that ends lets go of the row.
LEMMA EndingHolds ==
  ASSUME OnboardingInv, Holds, NEW q \in Requests,
         request' = [request EXCEPT ![q] = Idle], lockedBy' = Unlocked(q), owner' = owner
  PROVE  Holds'
<1>1. /\ lockedBy \in [Emails -> Requests \cup {NoRequest}]
      /\ request \in [Requests -> RequestData]
  BY DEF OnboardingInv, DataOK
<1>2. \A p \in Requests : request'[p] = IF p = q THEN Idle ELSE request[p]
  BY <1>1
<1>3. \A e \in Emails : lockedBy'[e] # NoRequest => lockedBy'[e] = lockedBy[e] /\ lockedBy[e] # q
  BY <1>1 DEF Unlocked
<1>4. \A p \in Requests : request'[p].at = "idle" => request'[p].email = NoEmail
  BY <1>2 DEF Holds, Idle
<1>5. \A e \in Emails : lockedBy'[e] # NoRequest => request'[lockedBy'[e]].email = e
  BY <1>1, <1>2, <1>3 DEF Holds
<1> QED
  BY <1>4, <1>5 DEF Holds

\* An idle request holds no row, so it may take up any email.
LEMMA ReadingHolds ==
  ASSUME OnboardingInv, Holds, NEW q \in Requests, NEW e \in Emails, ReadToken(q, e)
  PROVE  Holds'
<1>1. /\ lockedBy \in [Emails -> Requests \cup {NoRequest}]
      /\ request \in [Requests -> RequestData]
      /\ request[q].at = "idle" /\ UNCHANGED <<lockedBy, owner>>
  BY DEF OnboardingInv, DataOK, ReadToken, At
<1>2. \A p \in Requests \ {q} : request'[p] = request[p]
  BY <1>1 DEF ReadToken
<1>3. request'[q].at # "idle"
  BY <1>1 DEF ReadToken, Idle
<1>4. \A d \in Emails : lockedBy[d] # q
  <2> SUFFICES ASSUME NEW d \in Emails, lockedBy[d] = q PROVE FALSE
    OBVIOUS
  <2>1. request[q].email = d /\ request[q].email = NoEmail
    BY <1>1, OnboardingAssumption DEF Holds, OnboardingAssumption
  <2> QED
    BY <2>1, OnboardingAssumption DEF OnboardingAssumption
<1> QED
  BY <1>1, <1>2, <1>3, <1>4 DEF Holds

LEMMA HoldsStays ==
  OnboardingInv /\ Holds /\ [OnboardingNext]_onboardingVars => Holds'
<1> SUFFICES ASSUME OnboardingInv, Holds, [OnboardingNext]_onboardingVars PROVE Holds'
  OBVIOUS
<1>1. request \in [Requests -> RequestData]
  BY DEF OnboardingInv, DataOK
<1>2. request' \in [Requests -> RequestData]
  BY OnboardingStep DEF OnboardingInv, DataOK
<1>3. ASSUME NEW q \in Requests, NEW e \in Emails, ReadToken(q, e) PROVE Holds'
  BY <1>3, ReadingHolds
<1>4. ASSUME NEW q \in Requests,
             \/ Claim(q) \/ InsertWholesaler(q) \/ Bootstrap(q) \/ CommitActive(q)
             \/ IssueSetupToken(q)
      PROVE  Holds'
  <2>1. /\ request[q].at # "idle" /\ owner' = owner
        /\ UNCHANGED lockedBy \/ Lock(q) \/ lockedBy' = Unlocked(q)
    BY <1>4 DEF Claim, InsertWholesaler, Bootstrap, CommitActive, IssueSetupToken, At
  <2>2. \A p \in Requests \ {q} : request'[p] = request[p]
    BY <1>1, <1>4 DEF Claim, InsertWholesaler, Bootstrap, CommitActive, IssueSetupToken, Go
  <2>3. request'[q].email = request[q].email /\ request'[q].at # "idle"
    BY <1>1, <1>4 DEF Claim, InsertWholesaler, Bootstrap, CommitActive, IssueSetupToken, Go,
       RequestData
  <2> QED
    BY <1>2, <2>1, <2>2, <2>3, MovingHolds
<1>5. ASSUME NEW q \in Requests, CommitSetup(q) \/ Fail(q) PROVE Holds'
  BY <1>5, EndingHolds DEF CommitSetup, Fail
<1>6. ASSUME NEW e \in Emails, SetupCredential(e) PROVE Holds'
  BY <1>6 DEF SetupCredential, Holds
<1>7. CASE UNCHANGED <<owner, request, lockedBy>>
  BY <1>7 DEF Holds
<1> QED
  BY <1>3, <1>4, <1>5, <1>6, <1>7 DEF OnboardingNext, Signup, ExpireVerification, ExpireSetup,
     onboardingVars

(***************************************************************************)
(* Every variable keeps its type, and the lock of a registration row is    *)
(* with a request on that registration: every commit and every rollback of *)
(* a request gives its row back.                                           *)
(***************************************************************************)
THEOREM OnboardingIsTyped == OnboardingSpec => []OnboardingTypeOK
<1>1. OnboardingInit => Holds
  BY DEF OnboardingInit, Holds, Idle
<1>2. OnboardingSpec => []Holds
  BY <1>1, OnboardingKeepsInv, HoldsStays, PTL DEF OnboardingSpec
<1>3. OnboardingInv /\ Holds => OnboardingTypeOK
  BY DEF OnboardingInv, DataOK, RequestData, Holds, OnboardingTypeOK
<1> QED
  BY <1>2, <1>3, OnboardingKeepsInv, PTL
=============================================================================
