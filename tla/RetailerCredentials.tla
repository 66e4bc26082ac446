------------------------- MODULE RetailerCredentials -------------------------
(***************************************************************************)
(* One retailer's way into the tenants of several wholesalers: invitations *)
(* and self-joins, the user each tenant keeps for the retailer, and the    *)
(* setup and reset tokens that write one password to all of these copies   *)
(* (services/retailer_provisioning_service.py).                            *)
(*                                                                         *)
(* Registration and the use of a token read in one statement what they     *)
(* write by in a later one, at READ COMMITTED; invitations and tokens are  *)
(* read FOR UPDATE.  A partial unique index lets the retailer have one     *)
(* unused and unrevoked token of a kind, expired or not, so a kind of      *)
(* token is one value.                                                     *)
(***************************************************************************)
EXTENDS Naturals, FiniteSets

CONSTANTS
  Wholesalers,   \* the active ones
  Invitations,
  InviterOf,     \* InviterOf[i]: the wholesaler of invitation i
  Passwords,     \* hashes of passwords a retailer chose
  Sessions,
  NoCopy, NoInvitation

VARIABLES
  retailer,     \* the row of the retailer: absent, unverified or verified email
  copy,         \* copy[w]: the tenant user the binding with w maps to, or NoCopy
  suspended,    \* the wholesalers whose binding is inactive
  invitation,   \* invitation[i]: its status, "lapsed" when active and expired
  token,        \* token[k]: the unused, unrevoked token of kind k
  session       \* session[s]: what the transaction of s has read

credentialVars == <<retailer, copy, suspended, invitation, token, session>>

Kinds == {"setup", "reset"}

\* The random hash of a pending copy is its own and nobody's password: w stands for it.
Hashes == Passwords \cup Wholesalers

\* edited: updated_by, which only the wholesaler's user administration writes.
Copies == [hash : Hashes, active : BOOLEAN, deleted : BOOLEAN, edited : BOOLEAN]

ASSUME CredentialsAssumption ==
  /\ InviterOf \in [Invitations -> Wholesalers]
  /\ NoInvitation \notin Invitations
  /\ Passwords \cap Wholesalers = {}
  /\ {"pending", "rebind"} \cap Hashes = {}
  /\ NoCopy \notin Copies

Idle == [op |-> "idle"]

\* plan: the hash to copy, or none, or an existing user; issues: a new setup token.
Registrations ==
  [op : {"register"}, wholesaler : Wholesalers, invitation : Invitations \cup {NoInvitation},
   fresh : BOOLEAN, plan : Hashes \cup {"pending", "rebind"}, issues : {"unread", "yes", "no"}]

Consumptions == [op : Kinds, mapped : SUBSET Wholesalers, hash : Passwords]

CredentialsTypeOK ==
  /\ retailer \in {"absent", "unverified", "verified"}
  /\ copy \in [Wholesalers -> Copies \cup {NoCopy}]
  /\ suspended \subseteq Wholesalers
  /\ invitation \in [Invitations -> {"active", "lapsed", "used", "revoked"}]
  /\ token \in [Kinds -> {"none", "live", "lapsed"}]
  /\ session \in [Sessions -> Registrations \cup Consumptions \cup {Idle}]

CredentialsInit ==
  /\ retailer = "absent"
  /\ copy = [w \in Wholesalers |-> NoCopy]
  /\ suspended = {}
  /\ invitation = [i \in Invitations |-> "active"]
  /\ token = [k \in Kinds |-> "none"]
  /\ session = [s \in Sessions |-> Idle]

-----------------------------------------------------------------------------
\* What the code reads

Mapped == {w \in Wholesalers : copy[w] # NoCopy}

\* The copies that count for _retailer_has_established_password.
Established == {w \in Mapped : copy[w].active /\ ~copy[w].deleted}

\* _resolve_unified_credential: the hashes of the active copies.
ActiveHashes == {copy[w].hash : w \in Established}

\* FOR UPDATE: the sessions that hold the row of an invitation or of a token.
InvitationHeld(i) == \E s \in Sessions : session[s].op = "register" /\ session[s].invitation = i
TokenHeld(k) == \E s \in Sessions : session[s].op = k

\* _provision_relationship's choice for the user of w.
PlanFor(w) ==
  IF w \in Mapped THEN "rebind"
  ELSE IF ActiveHashes = {} THEN "pending"
  ELSE CHOOSE h \in ActiveHashes : TRUE

End(s) == session' = [session EXCEPT ![s] = Idle]

-----------------------------------------------------------------------------
\* Registration: one transaction, from the lock of the invitation to its use

(***************************************************************************)
(* An invitation is locked and validated, or a join intent verified; then  *)
(* the retailer, its binding with w and its credential are read.  A join   *)
(* of a bound retailer returns the binding; active copies that disagree    *)
(* are refused.                                                            *)
(***************************************************************************)
BeginRegister(s, w, i) ==
  /\ session[s] = Idle
  /\ \/ i = NoInvitation /\ w \notin Mapped
     \/ /\ i # NoInvitation
        /\ InviterOf[i] = w /\ invitation[i] = "active" /\ ~InvitationHeld(i)
  /\ Cardinality(ActiveHashes) <= 1
  /\ session' = [session EXCEPT ![s] =
       [op |-> "register", wholesaler |-> w, invitation |-> i,
        fresh |-> retailer = "absent", plan |-> PlanFor(w),
        issues |-> IF PlanFor(w) = "pending" THEN "unread" ELSE "no"]]
  /\ UNCHANGED <<retailer, copy, suspended, invitation, token>>

\* _has_actionable_setup_token looks for one that is not expired.
ReadToken(s) ==
  /\ session[s].op = "register" /\ session[s].issues = "unread"
  /\ session' = [session EXCEPT ![s].issues = IF token["setup"] = "live" THEN "no" ELSE "yes"]
  /\ UNCHANGED <<retailer, copy, suspended, invitation, token>>

\* A mutant of NewCopy: a pending copy gets no hash of its own.
NewCopyWithoutSecret(w, plan) ==
  [hash |-> plan, active |-> plan # "pending", deleted |-> FALSE, edited |-> FALSE]

\* A pending copy: inactive, with the hash of a random secret.
NewCopy(w, plan) ==
  [hash |-> IF plan = "pending" THEN w ELSE plan, active |-> plan # "pending",
   deleted |-> FALSE, edited |-> FALSE]

(***************************************************************************)
(* The inserts and the commit.  The unique indexes on the phone, on the    *)
(* pair of a binding and on the retailer's unused tokens refuse what       *)
(* another transaction has committed since: the session can only fail.     *)
(***************************************************************************)
FinishRegister(s) ==
  LET mine == session[s]
      w == mine.wholesaler
  IN /\ mine.op = "register" /\ mine.issues # "unread"
     /\ mine.fresh => retailer = "absent"
     /\ mine.plan # "rebind" => w \notin Mapped
     /\ mine.issues = "yes" => token["setup"] = "none"
     /\ retailer' = IF mine.fresh THEN "unverified" ELSE retailer
     /\ copy' = IF mine.plan = "rebind" THEN copy
                ELSE [copy EXCEPT ![w] = NewCopy(w, mine.plan)]
     /\ token' = IF mine.issues = "yes" THEN [token EXCEPT !["setup"] = "live"] ELSE token
     /\ invitation' = [i \in Invitations |-> IF i = mine.invitation THEN "used"
                                             ELSE invitation[i]]
     /\ End(s)
     /\ UNCHANGED suspended

\* A refused mail, a unique violation or a lost connection: the rollback.
Fail(s) ==
  /\ session[s] # Idle
  /\ End(s)
  /\ UNCHANGED <<retailer, copy, suspended, invitation, token>>

-----------------------------------------------------------------------------
\* Tokens

\* The token is locked and valid; phase 1 resolves the copies, none of them deleted.
BeginConsume(s, k, p) ==
  /\ session[s] = Idle
  /\ token[k] = "live" /\ ~TokenHeld(k)
  /\ Mapped # {}
  /\ \A w \in Mapped : ~copy[w].deleted
  /\ session' = [session EXCEPT ![s] = [op |-> k, mapped |-> Mapped, hash |-> p]]
  /\ UNCHANGED <<retailer, copy, suspended, invitation, token>>

\* A mutant of EmailAfter: a setup leaves the email unverified.
EmailAsItWas(k) == retailer

\* The link of a setup token came by mail: its use verifies the email.
EmailAfter(k) == IF k = "setup" THEN "verified" ELSE retailer

\* Phase 2 writes to every copy that was resolved, and the token is used.
FinishConsume(s) ==
  LET mine == session[s]
  IN /\ mine.op \in Kinds
     /\ copy' = [w \in Wholesalers |->
          IF w \in mine.mapped
          THEN [copy[w] EXCEPT !.hash = mine.hash, !.active = TRUE, !.deleted = FALSE]
          ELSE copy[w]]
     /\ retailer' = EmailAfter(mine.op)
     /\ token' = [token EXCEPT ![mine.op] = "none"]
     /\ End(s)
     /\ UNCHANGED <<suspended, invitation>>

(***************************************************************************)
(* reissue_setup_token, for w's active binding and while no copy is active *)
(* and the email is not verified.  It revokes the token before it inserts  *)
(* its own, so it waits for a session that is using the old one.           *)
(***************************************************************************)
Reissue(w) ==
  /\ w \in Mapped \ suspended
  /\ Established = {} /\ retailer = "unverified"
  /\ ~TokenHeld("setup")
  /\ token' = [token EXCEPT !["setup"] = "live"]
  /\ UNCHANGED <<retailer, copy, suspended, invitation, session>>

\* request_password_reset by a verified retailer who names one of its wholesalers.
RequestReset ==
  /\ retailer = "verified" /\ Mapped # {} /\ Established # {}
  /\ ~TokenHeld("reset")
  /\ token' = [token EXCEPT !["reset"] = "live"]
  /\ UNCHANGED <<retailer, copy, suspended, invitation, session>>

-----------------------------------------------------------------------------
\* Time, and what the wholesalers do

ExpireToken(k) ==
  /\ token[k] = "live"
  /\ token' = [token EXCEPT ![k] = "lapsed"]
  /\ UNCHANGED <<retailer, copy, suspended, invitation, session>>

ExpireInvitation(i) ==
  /\ invitation[i] = "active"
  /\ invitation' = [invitation EXCEPT ![i] = "lapsed"]
  /\ UNCHANGED <<retailer, copy, suspended, token, session>>

\* A mutant of Revoke: its update does not wait for a registration.
RevokeUnderLock(i) ==
  /\ invitation[i] \in {"active", "lapsed"}
  /\ invitation' = [invitation EXCEPT ![i] = "revoked"]
  /\ UNCHANGED <<retailer, copy, suspended, token, session>>

Revoke(i) ==
  /\ invitation[i] \in {"active", "lapsed"} /\ ~InvitationHeld(i)
  /\ invitation' = [invitation EXCEPT ![i] = "revoked"]
  /\ UNCHANGED <<retailer, copy, suspended, token, session>>

Suspend(w) ==
  /\ w \in Mapped
  /\ suspended' = suspended \cup {w}
  /\ UNCHANGED <<retailer, copy, invitation, token, session>>

\* PUT /users/{id} sets is_active to either value, DELETE sets is_deleted.
EditUser(w) ==
  /\ w \in Mapped /\ ~copy[w].deleted
  /\ \E changed \in [active : BOOLEAN, deleted : {FALSE}]
                      \cup [active : {copy[w].active}, deleted : {TRUE}] :
       copy' = [copy EXCEPT ![w] = [hash |-> @.hash, active |-> changed.active,
                                    deleted |-> changed.deleted, edited |-> TRUE]]
  /\ UNCHANGED <<retailer, suspended, invitation, token, session>>

SessionNext(s) ==
  \/ \E w \in Wholesalers, i \in Invitations \cup {NoInvitation} : BeginRegister(s, w, i)
  \/ ReadToken(s)
  \/ FinishRegister(s)
  \/ \E k \in Kinds, p \in Passwords : BeginConsume(s, k, p)
  \/ FinishConsume(s)
  \/ Fail(s)

CredentialsNext ==
  \/ \E s \in Sessions : SessionNext(s)
  \/ \E w \in Wholesalers : Reissue(w) \/ Suspend(w) \/ EditUser(w)
  \/ RequestReset
  \/ \E k \in Kinds : ExpireToken(k)
  \/ \E i \in Invitations : ExpireInvitation(i) \/ Revoke(i)

CredentialsSpec == CredentialsInit /\ [][CredentialsNext]_credentialVars

-----------------------------------------------------------------------------
\* Properties

\* No wholesaler has edited the retailer's users.
Untouched == \A w \in Mapped : ~copy[w].edited

(***************************************************************************)
(* A copy the retailer cannot log in with has a way to become one: a live  *)
(* setup token, a reissue by a wholesaler, or a reset by the retailer.     *)
(* However registrations, setups and resets overlap, only a wholesaler's   *)
(* own edits of the users can close all three.                             *)
(***************************************************************************)
NobodyIsStranded ==
  Untouched =>
    \A w \in Mapped \ (suspended \cup Established) :
      \/ token["setup"] = "live"
      \/ retailer = "unverified" /\ Established = {}
      \/ retailer = "verified" /\ Established # {}

(***************************************************************************)
(* An invitation that was used or revoked stays so, even when both are     *)
(* asked for at once, and the use leaves the retailer a user of the        *)
(* inviter: the consume is rolled back with everything else.               *)
(***************************************************************************)
InvitationsAreSpentOnce ==
  [][\A i \in Invitations :
       /\ invitation[i] \in {"used", "revoked"} => invitation'[i] = invitation[i]
       /\ invitation'[i] = "used" => copy'[InviterOf[i]] # NoCopy]_credentialVars

(***************************************************************************)
(* _resolve_unified_credential: "No active copy with a password -> issue   *)
(* setup token".  A registration that is to issue one is not refused       *)
(* because of a token that has expired.                                    *)
(***************************************************************************)
ExpiredTokenBlocksNobody ==
  \A s \in Sessions :
    session[s].op = "register" /\ session[s].issues = "yes" => token["setup"] # "lapsed"
=============================================================================
