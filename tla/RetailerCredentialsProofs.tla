---------------------- MODULE RetailerCredentialsProofs ----------------------
(***************************************************************************)
(* No retailer is stranded and an invitation is spent once, for any number *)
(* of wholesalers, invitations and overlapping sessions.  What a session   *)
(* has read may be stale when it commits; the argument is that everything  *)
(* it relies on only grows: the mapped copies, the state of the email, and *)
(* the edits.                                                              *)
(***************************************************************************)
EXTENDS RetailerCredentials, TLAPS

\* The rows, read together.
RowsOK ==
  /\ retailer = "absent" => Mapped = {}
  /\ Untouched => (retailer = "verified" <=> Established # {})
  /\ token["reset"] # "none" => retailer = "verified"
  /\ \A i \in Invitations : invitation[i] = "used" => InviterOf[i] \in Mapped

\* What a session in flight may rely on.
SessionOK(s) ==
  LET mine == session[s]
  IN /\ mine.op = "register" =>
          /\ ~mine.fresh => retailer # "absent"
          /\ mine.plan = "rebind" => mine.wholesaler \in Mapped
          /\ mine.plan \notin {"pending", "rebind"} /\ Untouched => retailer = "verified"
          /\ mine.invitation # NoInvitation =>
               /\ InviterOf[mine.invitation] = mine.wholesaler
               /\ invitation[mine.invitation] \in {"active", "lapsed"}
     /\ mine.op \in Kinds => mine.mapped # {} /\ mine.mapped \subseteq Mapped
     /\ mine.op = "reset" => retailer = "verified"

\* The row lock of an invitation has one holder.
OneHolder ==
  \A s, t \in Sessions :
    /\ session[s].op = "register" /\ session[t].op = "register"
    /\ session[s].invitation = session[t].invitation
    /\ session[s].invitation # NoInvitation
    => s = t

CredentialsInv ==
  /\ CredentialsTypeOK
  /\ RowsOK
  /\ \A s \in Sessions : SessionOK(s)
  /\ OneHolder

-----------------------------------------------------------------------------
\* The data of a session, by its kind

LEMMA SessionKinds ==
  ASSUME CredentialsTypeOK, NEW s \in Sessions
  PROVE  /\ session[s].op = "register" => session[s] \in Registrations
         /\ session[s].op \in Kinds => session[s] \in Consumptions
BY DEF CredentialsTypeOK, Registrations, Consumptions, Idle, Kinds

LEMMA CredentialsStart == CredentialsInit => CredentialsInv
<1> SUFFICES ASSUME CredentialsInit PROVE CredentialsInv
  OBVIOUS
<1>1. CredentialsTypeOK
  BY DEF CredentialsInit, CredentialsTypeOK, Kinds
<1>2. Mapped = {}
  BY DEF CredentialsInit, Mapped
<1>3. RowsOK
  BY <1>2 DEF CredentialsInit, RowsOK, Established, Kinds
<1>4. \A s \in Sessions : session[s].op = "idle"
  BY DEF CredentialsInit, Idle
<1>5. /\ \A s \in Sessions : SessionOK(s)
      /\ OneHolder
  BY <1>4 DEF SessionOK, OneHolder, Kinds
<1> QED
  BY <1>1, <1>3, <1>5 DEF CredentialsInv

(***************************************************************************)
(* A session keeps what it relies on while the rows only grow and nobody   *)
(* writes the invitation it holds.                                         *)
(***************************************************************************)
LEMMA OthersKeep ==
  ASSUME NEW p \in Sessions, SessionOK(p),
         session'[p] = session[p],
         Mapped \subseteq Mapped',
         Untouched' => Untouched,
         retailer # "absent" => retailer' # "absent",
         retailer = "verified" => retailer' = "verified",
         session[p].op = "register" /\ session[p].invitation # NoInvitation =>
           \/ invitation'[session[p].invitation] = invitation[session[p].invitation]
           \/ invitation'[session[p].invitation] \in {"active", "lapsed"}
  PROVE  SessionOK(p)'
BY DEF SessionOK

\* A step that changes no row the invariant reads and no session.
LEMMA Unread ==
  ASSUME CredentialsInv, CredentialsTypeOK', UNCHANGED <<retailer, copy, invitation, session>>,
         token'["reset"] # "none" => retailer = "verified"
  PROVE  CredentialsInv'
<1>1. Mapped' = Mapped /\ Established' = Established /\ (Untouched' <=> Untouched)
  BY DEF Mapped, Established, Untouched
<1>2. RowsOK'
  BY <1>1 DEF CredentialsInv, RowsOK
<1>3. \A p \in Sessions : SessionOK(p)'
  BY <1>1, OthersKeep DEF CredentialsInv
<1> QED
  BY <1>2, <1>3 DEF CredentialsInv, OneHolder

\* A step that changes only the record of session s.
LEMMA OnlySession ==
  ASSUME CredentialsInv, NEW s \in Sessions, CredentialsTypeOK',
         UNCHANGED <<retailer, copy, suspended, invitation, token>>,
         \A p \in Sessions \ {s} : session'[p] = session[p],
         SessionOK(s)',
         session'[s].op = "register" /\ session'[s].invitation # NoInvitation =>
           \A p \in Sessions \ {s} :
             session[p].op = "register" => session[p].invitation # session'[s].invitation
  PROVE  CredentialsInv'
<1>1. Mapped' = Mapped /\ Established' = Established /\ (Untouched' <=> Untouched)
  BY DEF Mapped, Established, Untouched
<1>2. RowsOK'
  BY <1>1 DEF CredentialsInv, RowsOK
<1>3. \A p \in Sessions : SessionOK(p)'
  <2> TAKE p \in Sessions
  <2>1. CASE p = s
    BY <2>1
  <2>2. CASE p # s
    BY <2>2, <1>1, OthersKeep DEF CredentialsInv
  <2> QED
    BY <2>1, <2>2
<1>4. OneHolder'
  BY DEF CredentialsInv, OneHolder
<1> QED
  BY <1>2, <1>3, <1>4 DEF CredentialsInv

-----------------------------------------------------------------------------
\* Registration

LEMMA BeginRegisterInv ==
  ASSUME CredentialsInv, NEW s \in Sessions, NEW w \in Wholesalers,
         NEW i \in Invitations \cup {NoInvitation}, BeginRegister(s, w, i)
  PROVE  CredentialsInv'
<1> DEFINE mine == [op |-> "register", wholesaler |-> w, invitation |-> i,
                    fresh |-> retailer = "absent", plan |-> PlanFor(w),
                    issues |-> IF PlanFor(w) = "pending" THEN "unread" ELSE "no"]
<1>1. /\ session' = [session EXCEPT ![s] = mine]
      /\ UNCHANGED <<retailer, copy, suspended, invitation, token>>
      /\ i # NoInvitation => /\ InviterOf[i] = w /\ invitation[i] = "active"
                             /\ ~InvitationHeld(i)
  BY DEF BeginRegister
<1>2. session'[s] = mine /\ \A p \in Sessions \ {s} : session'[p] = session[p]
  BY <1>1 DEF CredentialsInv, CredentialsTypeOK
<1>3. \/ PlanFor(w) = "rebind" /\ w \in Mapped
      \/ PlanFor(w) = "pending"
      \/ PlanFor(w) \in ActiveHashes
  BY DEF PlanFor
<1>4. ActiveHashes \subseteq Hashes
  BY DEF ActiveHashes, Established, Mapped, CredentialsInv, CredentialsTypeOK, Copies
<1>5. mine \in Registrations
  BY <1>3, <1>4 DEF Registrations
<1>6. CredentialsTypeOK'
  BY <1>1, <1>5 DEF CredentialsInv, CredentialsTypeOK
<1>7. PlanFor(w) \notin {"pending", "rebind"} /\ Untouched => retailer = "verified"
  BY <1>3 DEF ActiveHashes, CredentialsInv, RowsOK
<1>8. SessionOK(s)'
  <2>1. Mapped' = Mapped /\ (Untouched' <=> Untouched)
    BY <1>1 DEF Mapped, Untouched
  <2> HIDE DEF mine
  <2>2. /\ mine.op = "register" /\ mine.wholesaler = w /\ mine.invitation = i
        /\ mine.plan = PlanFor(w) /\ (mine.fresh <=> retailer = "absent")
    BY DEF mine
  <2>3. mine.plan = "rebind" => w \in Mapped
    BY <2>2, <1>3, <1>4, CredentialsAssumption
  <2> QED
    BY <2>1, <2>2, <2>3, <1>1, <1>2, <1>7 DEF SessionOK, Kinds
<1>9. i # NoInvitation =>
        \A p \in Sessions \ {s} : session[p].op = "register" => session[p].invitation # i
  BY <1>1 DEF InvitationHeld
<1> QED
  BY <1>1, <1>2, <1>6, <1>8, <1>9, OnlySession

LEMMA ReadTokenInv ==
  ASSUME CredentialsInv, NEW s \in Sessions, ReadToken(s)
  PROVE  CredentialsInv'
<1> DEFINE answer == IF token["setup"] = "live" THEN "no" ELSE "yes"
<1>1. /\ session' = [session EXCEPT ![s].issues = answer]
      /\ UNCHANGED <<retailer, copy, suspended, invitation, token>>
      /\ session[s].op = "register"
  BY DEF ReadToken
<1>2. session[s] \in Registrations
  BY <1>1, SessionKinds DEF CredentialsInv
<1>3. /\ session'[s] = [session[s] EXCEPT !.issues = answer]
      /\ \A p \in Sessions \ {s} : session'[p] = session[p]
  BY <1>1 DEF CredentialsInv, CredentialsTypeOK
<1>4. /\ session'[s] \in Registrations
      /\ session'[s].op = "register"
      /\ session'[s].wholesaler = session[s].wholesaler
      /\ session'[s].invitation = session[s].invitation
      /\ session'[s].fresh = session[s].fresh
      /\ session'[s].plan = session[s].plan
  BY <1>1, <1>2, <1>3 DEF Registrations
<1>5. CredentialsTypeOK'
  <2>1. session' \in [Sessions -> Registrations \cup Consumptions \cup {Idle}]
    BY <1>1, <1>3, <1>4 DEF CredentialsInv, CredentialsTypeOK
  <2> QED
    BY <1>1, <2>1 DEF CredentialsInv, CredentialsTypeOK
<1>6. SessionOK(s)'
  <2>1. Mapped' = Mapped /\ (Untouched' <=> Untouched)
    BY <1>1 DEF Mapped, Untouched
  <2>2. SessionOK(s)
    BY DEF CredentialsInv
  <2> QED
    BY <2>1, <2>2, <1>1, <1>4 DEF SessionOK, Kinds
<1>7. session[s].invitation # NoInvitation =>
        \A p \in Sessions \ {s} :
          session[p].op = "register" => session[p].invitation # session[s].invitation
  BY <1>1 DEF CredentialsInv, OneHolder
<1> QED
  BY <1>1, <1>3, <1>4, <1>5, <1>6, <1>7, OnlySession

\* The end of a session: the others keep what they rely on.
LEMMA Ended ==
  ASSUME CredentialsInv, NEW s \in Sessions, End(s),
         Mapped \subseteq Mapped',
         Untouched' => Untouched,
         retailer # "absent" => retailer' # "absent",
         retailer = "verified" => retailer' = "verified",
         \A i \in Invitations :
           \/ invitation'[i] = invitation[i]
           \/ session[s].op = "register" /\ session[s].invitation = i
  PROVE  /\ session' \in [Sessions -> Registrations \cup Consumptions \cup {Idle}]
         /\ \A p \in Sessions : SessionOK(p)'
         /\ OneHolder'
<1>1. /\ session' \in [Sessions -> Registrations \cup Consumptions \cup {Idle}]
      /\ session'[s] = Idle
      /\ \A p \in Sessions \ {s} : session'[p] = session[p]
  BY DEF End, CredentialsInv, CredentialsTypeOK
<1>2. session'[s].op = "idle"
  BY <1>1 DEF Idle
<1>3. ASSUME NEW p \in Sessions PROVE SessionOK(p)'
  <2>1. CASE p = s
    BY <2>1, <1>2 DEF SessionOK, Kinds
  <2>2. CASE p # s
    <3>1. session[p].op = "register" => session[p].invitation \in Invitations \cup {NoInvitation}
      BY SessionKinds DEF CredentialsInv, Registrations
    <3>2. session[p].op = "register" /\ session[p].invitation # NoInvitation =>
            invitation'[session[p].invitation] = invitation[session[p].invitation]
      BY <2>2, <3>1 DEF CredentialsInv, OneHolder
    <3> QED
      BY <2>2, <1>1, <3>2, OthersKeep DEF CredentialsInv
  <2> QED
    BY <2>1, <2>2
<1>4. OneHolder'
  BY <1>1, <1>2 DEF CredentialsInv, OneHolder
<1> QED
  BY <1>1, <1>3, <1>4

LEMMA FailInv ==
  ASSUME CredentialsInv, NEW s \in Sessions, Fail(s)
  PROVE  CredentialsInv'
<1>1. Mapped' = Mapped /\ Established' = Established /\ (Untouched' <=> Untouched)
  BY DEF Fail, Mapped, Established, Untouched
<1>2. /\ session' \in [Sessions -> Registrations \cup Consumptions \cup {Idle}]
      /\ \A p \in Sessions : SessionOK(p)'
      /\ OneHolder'
  <2>1. End(s) /\ retailer' = retailer /\ invitation' = invitation
    BY DEF Fail
  <2> QED
    BY <1>1, <2>1, Ended
<1> QED
  BY <1>1, <1>2 DEF Fail, CredentialsInv, CredentialsTypeOK, RowsOK

LEMMA FinishRegisterInv ==
  ASSUME CredentialsInv, NEW s \in Sessions, FinishRegister(s)
  PROVE  CredentialsInv'
<1> DEFINE mine == session[s]
           w == mine.wholesaler
<1>1. /\ mine.op = "register" /\ mine.issues # "unread"
      /\ mine.fresh => retailer = "absent"
      /\ mine.plan # "rebind" => w \notin Mapped
      /\ mine.issues = "yes" => token["setup"] = "none"
      /\ retailer' = IF mine.fresh THEN "unverified" ELSE retailer
      /\ copy' = IF mine.plan = "rebind" THEN copy
                 ELSE [copy EXCEPT ![w] = NewCopy(w, mine.plan)]
      /\ token' = IF mine.issues = "yes" THEN [token EXCEPT !["setup"] = "live"] ELSE token
      /\ invitation' = [i \in Invitations |-> IF i = mine.invitation THEN "used"
                                              ELSE invitation[i]]
      /\ End(s)
      /\ suspended' = suspended
  BY DEF FinishRegister
<1>2. /\ w \in Wholesalers
      /\ mine.plan \in Hashes \cup {"pending", "rebind"}
      /\ mine.invitation \in Invitations \cup {NoInvitation}
      /\ mine.fresh \in BOOLEAN
  BY <1>1, SessionKinds DEF CredentialsInv, Registrations
<1>3. /\ ~mine.fresh => retailer # "absent"
      /\ mine.plan = "rebind" => w \in Mapped
      /\ mine.plan \notin {"pending", "rebind"} /\ Untouched => retailer = "verified"
      /\ mine.invitation # NoInvitation => InviterOf[mine.invitation] = w
  BY <1>1 DEF CredentialsInv, SessionOK
<1>4. CredentialsTypeOK /\ RowsOK
  BY DEF CredentialsInv
<1> HIDE DEF mine, w
<1>5. /\ retailer' \in {"absent", "unverified", "verified"}
      /\ retailer' # "absent"
      /\ retailer = "verified" => retailer' = "verified"
      /\ retailer' = "verified" => retailer = "verified"
  BY <1>1, <1>2, <1>3, <1>4 DEF CredentialsTypeOK
<1>6. /\ copy' \in [Wholesalers -> Copies \cup {NoCopy}]
      /\ Mapped' = Mapped \cup {w}
      /\ Untouched' <=> Untouched
      /\ mine.plan \in {"pending", "rebind"} => Established' = Established
      /\ mine.plan \notin {"pending", "rebind"} => Established' # {}
  <2>1. CASE mine.plan = "rebind"
    <3>1. copy' = copy /\ w \in Mapped
      BY <1>1, <1>3, <2>1
    <3> QED
      BY <2>1, <3>1, <1>4 DEF Mapped, Established, Untouched, CredentialsTypeOK
  <2>2. CASE mine.plan # "rebind"
    <3> DEFINE new == NewCopy(w, mine.plan)
    <3>1. w \notin Mapped /\ copy' = [copy EXCEPT ![w] = new]
      BY <1>1, <2>2
    <3>2. /\ new \in Copies /\ new # NoCopy
          /\ new.active <=> mine.plan # "pending"
          /\ ~new.deleted /\ ~new.edited
      <4> DEFINE hash == IF mine.plan = "pending" THEN w ELSE mine.plan
                 active == mine.plan # "pending"
      <4>1. hash \in Hashes
        BY <1>2, <2>2 DEF Hashes
      <4>2. active \in BOOLEAN
        OBVIOUS
      <4>3. new = [hash |-> hash, active |-> active, deleted |-> FALSE, edited |-> FALSE]
        BY DEF NewCopy
      <4> HIDE DEF hash, active, new
      <4>4. new \in Copies
        BY <4>1, <4>2, <4>3 DEF Copies
      <4>5. (new.active <=> active) /\ ~new.deleted /\ ~new.edited
        BY <4>2, <4>3
      <4> QED
        BY <4>4, <4>5, CredentialsAssumption DEF active
    <3> HIDE DEF new
    <3>3. /\ copy' \in [Wholesalers -> Copies \cup {NoCopy}]
          /\ copy'[w] = new
          /\ \A v \in Wholesalers \ {w} : copy'[v] = copy[v]
      BY <1>2, <1>4, <3>1, <3>2 DEF CredentialsTypeOK
    <3>4. Mapped' = Mapped \cup {w}
      BY <1>2, <3>2, <3>3 DEF Mapped
    <3>5. Untouched' <=> Untouched
      BY <1>2, <3>1, <3>2, <3>3, <3>4 DEF Untouched, Mapped
    <3>6. Established' = Established \cup (IF mine.plan = "pending" THEN {} ELSE {w})
      <4>1. \A v \in Mapped : v # w /\ copy'[v] = copy[v]
        BY <3>1, <3>3 DEF Mapped
      <4>2. w \in Established' <=> mine.plan # "pending"
        BY <3>2, <3>3, <3>4 DEF Established
      <4>3. \A v \in Mapped : v \in Established' <=> v \in Established
        BY <3>4, <4>1 DEF Established
      <4>4. Established \subseteq Mapped /\ Established' \subseteq Mapped \cup {w}
        BY <3>4 DEF Established
      <4> QED
        BY <3>1, <4>2, <4>3, <4>4
    <3> QED
      BY <2>2, <3>3, <3>4, <3>5, <3>6
  <2> QED
    BY <2>1, <2>2
<1>7. Untouched => (retailer' = "verified" <=> Established' # {})
  <2>1. CASE mine.fresh
    <3>1. retailer = "absent" /\ retailer' = "unverified" /\ Mapped = {} /\ Established = {}
      BY <1>1, <1>4, <2>1 DEF RowsOK, Established
    <3>2. Untouched => mine.plan \in {"pending", "rebind"}
      BY <1>3, <3>1
    <3> QED
      BY <1>6, <3>1, <3>2
  <2>2. CASE ~mine.fresh
    BY <1>1, <1>3, <1>4, <1>6, <2>2 DEF RowsOK
  <2> QED
    BY <2>1, <2>2
<1>8. /\ invitation' \in [Invitations -> {"active", "lapsed", "used", "revoked"}]
      /\ token' \in [Kinds -> {"none", "live", "lapsed"}]
      /\ token'["reset"] = token["reset"]
      /\ \A i \in Invitations : invitation'[i] = "used" => InviterOf[i] \in Mapped'
  <2>1. token' \in [Kinds -> {"none", "live", "lapsed"}] /\ token'["reset"] = token["reset"]
    BY <1>1, <1>4 DEF CredentialsTypeOK, Kinds
  <2>2. ASSUME NEW i \in Invitations, invitation'[i] = "used"
        PROVE  InviterOf[i] \in Mapped'
    <3>1. CASE i = mine.invitation
      BY <3>1, <1>3, <1>6, CredentialsAssumption
    <3>2. CASE i # mine.invitation
      BY <3>2, <2>2, <1>1, <1>4, <1>6 DEF RowsOK
    <3> QED
      BY <3>1, <3>2
  <2>3. invitation' \in [Invitations -> {"active", "lapsed", "used", "revoked"}]
    BY <1>1, <1>4 DEF CredentialsTypeOK
  <2> QED
    BY <2>1, <2>2, <2>3
<1>9. RowsOK'
  BY <1>4, <1>5, <1>6, <1>7, <1>8 DEF RowsOK
<1>10. /\ session' \in [Sessions -> Registrations \cup Consumptions \cup {Idle}]
       /\ \A p \in Sessions : SessionOK(p)'
       /\ OneHolder'
  <2>1. \A i \in Invitations :
          \/ invitation'[i] = invitation[i]
          \/ session[s].op = "register" /\ session[s].invitation = i
    BY <1>1 DEF mine
  <2> QED
    BY <2>1, <1>1, <1>5, <1>6, Ended
<1> QED
  BY <1>1, <1>4, <1>5, <1>6, <1>8, <1>9, <1>10 DEF CredentialsInv, CredentialsTypeOK

-----------------------------------------------------------------------------
\* Tokens

LEMMA BeginConsumeInv ==
  ASSUME CredentialsInv, NEW s \in Sessions, NEW k \in Kinds, NEW p \in Passwords,
         BeginConsume(s, k, p)
  PROVE  CredentialsInv'
<1> DEFINE mine == [op |-> k, mapped |-> Mapped, hash |-> p]
<1>1. /\ session' = [session EXCEPT ![s] = mine]
      /\ UNCHANGED <<retailer, copy, suspended, invitation, token>>
      /\ token[k] = "live" /\ Mapped # {}
  BY DEF BeginConsume
<1>2. /\ session'[s] = mine
      /\ \A q \in Sessions \ {s} : session'[q] = session[q]
  BY <1>1 DEF CredentialsInv, CredentialsTypeOK
<1>3. mine \in Consumptions
  BY DEF Consumptions, Mapped
<1>4. CredentialsTypeOK'
  <2>1. session' \in [Sessions -> Registrations \cup Consumptions \cup {Idle}]
    BY <1>1, <1>3 DEF CredentialsInv, CredentialsTypeOK
  <2> QED
    BY <1>1, <2>1 DEF CredentialsInv, CredentialsTypeOK
<1>5. SessionOK(s)'
  <2>1. Mapped' = Mapped
    BY <1>1 DEF Mapped
  <2>2. k = "reset" => retailer = "verified"
    BY <1>1 DEF CredentialsInv, RowsOK
  <2>3. mine.op = k /\ mine.mapped = Mapped /\ k # "register"
    BY DEF Kinds
  <2> HIDE DEF mine
  <2> QED
    BY <1>1, <1>2, <2>1, <2>2, <2>3 DEF SessionOK
<1>6. session'[s].op # "register"
  BY <1>2 DEF Kinds
<1> QED
  BY <1>1, <1>2, <1>4, <1>5, <1>6, OnlySession

LEMMA FinishConsumeInv ==
  ASSUME CredentialsInv, NEW s \in Sessions, FinishConsume(s)
  PROVE  CredentialsInv'
<1> DEFINE mine == session[s]
           written(w) == [copy[w] EXCEPT !.hash = mine.hash, !.active = TRUE, !.deleted = FALSE]
<1>1. /\ mine.op \in Kinds
      /\ copy' = [w \in Wholesalers |-> IF w \in mine.mapped THEN written(w) ELSE copy[w]]
      /\ retailer' = EmailAfter(mine.op)
      /\ token' = [token EXCEPT ![mine.op] = "none"]
      /\ End(s)
      /\ UNCHANGED <<suspended, invitation>>
  BY DEF FinishConsume
<1>2. /\ mine.hash \in Hashes
      /\ mine.mapped # {} /\ mine.mapped \subseteq Mapped
      /\ mine.op = "reset" => retailer = "verified"
  BY <1>1, SessionKinds DEF CredentialsInv, SessionOK, Consumptions, Hashes
<1>3. CredentialsTypeOK /\ RowsOK
  BY DEF CredentialsInv
<1>4. retailer' = "verified"
  BY <1>1, <1>2 DEF EmailAfter, Kinds
<1> HIDE DEF mine
<1>5. ASSUME NEW w \in mine.mapped
      PROVE  /\ written(w) \in Copies
             /\ written(w).active /\ ~written(w).deleted
             /\ written(w).edited <=> copy[w].edited
             /\ copy[w] # NoCopy /\ written(w) # NoCopy
  <2>1. copy[w] \in Copies /\ copy[w] # NoCopy
    BY <1>2, <1>3 DEF CredentialsTypeOK, Mapped
  <2> QED
    BY <2>1, <1>2, CredentialsAssumption DEF Copies
<1> HIDE DEF written
<1>6. /\ copy' \in [Wholesalers -> Copies \cup {NoCopy}]
      /\ Mapped' = Mapped
      /\ Untouched' <=> Untouched
      /\ Established' # {}
  <2>1. /\ \A w \in mine.mapped : w \in Wholesalers /\ copy'[w] = written(w)
        /\ \A w \in Wholesalers \ mine.mapped : copy'[w] = copy[w]
    BY <1>1, <1>2 DEF Mapped
  <2>2. copy' \in [Wholesalers -> Copies \cup {NoCopy}]
    BY <1>1, <1>3, <1>5 DEF CredentialsTypeOK
  <2>3. Mapped' = Mapped
    BY <1>2, <1>5, <2>1 DEF Mapped
  <2>4. Untouched' <=> Untouched
    BY <1>5, <2>1, <2>3 DEF Untouched, Mapped
  <2>5. mine.mapped \subseteq Established'
    BY <1>2, <1>5, <2>1, <2>3 DEF Established
  <2> QED
    BY <1>2, <2>2, <2>3, <2>4, <2>5
<1>7. token' \in [Kinds -> {"none", "live", "lapsed"}]
  BY <1>1, <1>3 DEF CredentialsTypeOK
<1>8. RowsOK'
  BY <1>1, <1>3, <1>4, <1>6 DEF RowsOK
<1>9. /\ session' \in [Sessions -> Registrations \cup Consumptions \cup {Idle}]
      /\ \A p \in Sessions : SessionOK(p)'
      /\ OneHolder'
  <2>1. invitation' = invitation
    BY <1>1
  <2> QED
    BY <2>1, <1>1, <1>4, <1>6, Ended
<1> QED
  BY <1>1, <1>3, <1>4, <1>6, <1>7, <1>8, <1>9 DEF CredentialsInv, CredentialsTypeOK

\* The steps that write only the tokens or the state of a binding.
LEMMA TokenStepsInv ==
  ASSUME CredentialsInv,
         \/ \E w \in Wholesalers : Reissue(w) \/ Suspend(w)
         \/ RequestReset
         \/ \E k \in Kinds : ExpireToken(k)
  PROVE  CredentialsInv'
<1>1. UNCHANGED <<retailer, copy, invitation, session>>
  BY DEF Reissue, Suspend, RequestReset, ExpireToken
<1>2. /\ token' \in [Kinds -> {"none", "live", "lapsed"}]
      /\ suspended' \subseteq Wholesalers
  BY DEF CredentialsInv, CredentialsTypeOK, Reissue, Suspend, RequestReset, ExpireToken, Kinds
<1>3. token'["reset"] # "none" => retailer = "verified"
  BY DEF CredentialsInv, CredentialsTypeOK, RowsOK, Reissue, Suspend, RequestReset, ExpireToken,
         Kinds
<1>4. CredentialsTypeOK'
  BY <1>1, <1>2 DEF CredentialsInv, CredentialsTypeOK
<1> QED
  BY <1>1, <1>3, <1>4, Unread

-----------------------------------------------------------------------------
\* What the wholesalers do to invitations and users

LEMMA InvitationStepsInv ==
  ASSUME CredentialsInv, NEW i \in Invitations, ExpireInvitation(i) \/ Revoke(i)
  PROVE  CredentialsInv'
<1>1. /\ UNCHANGED <<retailer, copy, suspended, token, session>>
      /\ \/ invitation[i] = "active" /\ invitation' = [invitation EXCEPT ![i] = "lapsed"]
         \/ ~InvitationHeld(i) /\ invitation' = [invitation EXCEPT ![i] = "revoked"]
  BY DEF ExpireInvitation, Revoke
<1>2. /\ \A j \in Invitations \ {i} : invitation'[j] = invitation[j]
      /\ \/ invitation'[i] = "lapsed"
         \/ invitation'[i] = "revoked" /\ ~InvitationHeld(i)
  BY <1>1 DEF CredentialsInv, CredentialsTypeOK
<1>3. CredentialsTypeOK'
  BY <1>1 DEF CredentialsInv, CredentialsTypeOK
<1>4. Mapped' = Mapped /\ Established' = Established /\ (Untouched' <=> Untouched)
  BY <1>1 DEF Mapped, Established, Untouched
<1>5. RowsOK'
  BY <1>1, <1>2, <1>4 DEF CredentialsInv, RowsOK
<1>6. ASSUME NEW p \in Sessions PROVE SessionOK(p)'
  <2>1. session[p].op = "register" => session[p].invitation \in Invitations \cup {NoInvitation}
    BY SessionKinds DEF CredentialsInv, Registrations
  <2>2. session[p].op = "register" /\ session[p].invitation # NoInvitation =>
          \/ invitation'[session[p].invitation] = invitation[session[p].invitation]
          \/ invitation'[session[p].invitation] \in {"active", "lapsed"}
    BY <1>2, <2>1 DEF InvitationHeld
  <2> QED
    BY <1>1, <1>4, <2>2, OthersKeep DEF CredentialsInv
<1> QED
  BY <1>1, <1>3, <1>5, <1>6 DEF CredentialsInv, OneHolder

LEMMA EditUserInv ==
  ASSUME CredentialsInv, NEW w \in Wholesalers, EditUser(w)
  PROVE  CredentialsInv'
<1>1. /\ UNCHANGED <<retailer, suspended, invitation, token, session>>
      /\ w \in Mapped
      /\ copy \in [Wholesalers -> Copies \cup {NoCopy}]
  BY DEF EditUser, CredentialsInv, CredentialsTypeOK
<1>2. copy[w] \in Copies
  BY <1>1 DEF Mapped
<1>3. PICK changed \in [active : BOOLEAN, deleted : {FALSE}]
                         \cup [active : {copy[w].active}, deleted : {TRUE}] :
        copy' = [copy EXCEPT ![w] = [hash |-> @.hash, active |-> changed.active,
                                     deleted |-> changed.deleted, edited |-> TRUE]]
  BY DEF EditUser
<1> DEFINE new == [hash |-> copy[w].hash, active |-> changed.active,
                   deleted |-> changed.deleted, edited |-> TRUE]
<1>4. new \in Copies /\ new.edited
  <2>1. /\ copy[w].hash \in Hashes
        /\ changed.active \in BOOLEAN /\ changed.deleted \in BOOLEAN
    BY <1>2 DEF Copies
  <2> QED
    BY <2>1 DEF Copies
<1>5. copy' = [copy EXCEPT ![w] = new]
  BY <1>1, <1>3
<1> HIDE DEF new
<1>6. /\ copy' \in [Wholesalers -> Copies \cup {NoCopy}]
      /\ copy'[w] = new
      /\ \A v \in Wholesalers \ {w} : copy'[v] = copy[v]
  BY <1>1, <1>4, <1>5
<1>7. Mapped' = Mapped
  BY <1>1, <1>4, <1>6, CredentialsAssumption DEF Mapped
<1>8. ~Untouched'
  BY <1>1, <1>4, <1>6, <1>7 DEF Untouched
<1>9. RowsOK'
  BY <1>1, <1>7, <1>8 DEF CredentialsInv, RowsOK
<1>10. \A p \in Sessions : SessionOK(p)'
  BY <1>1, <1>7, <1>8, OthersKeep DEF CredentialsInv
<1> QED
  BY <1>1, <1>6, <1>9, <1>10 DEF CredentialsInv, CredentialsTypeOK, OneHolder

LEMMA CredentialsStep == CredentialsInv /\ [CredentialsNext]_credentialVars => CredentialsInv'
<1> SUFFICES ASSUME CredentialsInv, [CredentialsNext]_credentialVars
             PROVE  CredentialsInv'
  OBVIOUS
<1>1. CASE UNCHANGED credentialVars
  BY <1>1 DEF credentialVars, CredentialsInv, CredentialsTypeOK, RowsOK, SessionOK, OneHolder,
     Mapped, Established, Untouched
<1>2. ASSUME NEW s \in Sessions, SessionNext(s) PROVE CredentialsInv'
  BY <1>2, BeginRegisterInv, ReadTokenInv, FinishRegisterInv, BeginConsumeInv,
     FinishConsumeInv, FailInv DEF SessionNext
<1>3. ASSUME NEW w \in Wholesalers, Reissue(w) \/ Suspend(w) \/ EditUser(w)
      PROVE  CredentialsInv'
  BY <1>3, TokenStepsInv, EditUserInv
<1>4. CASE RequestReset \/ \E k \in Kinds : ExpireToken(k)
  BY <1>4, TokenStepsInv
<1>5. CASE \E i \in Invitations : ExpireInvitation(i) \/ Revoke(i)
  BY <1>5, InvitationStepsInv
<1> QED
  BY <1>1, <1>2, <1>3, <1>4, <1>5 DEF CredentialsNext

-----------------------------------------------------------------------------
\* The results

(***************************************************************************)
(* The rows and the sessions keep their types in every behaviour.          *)
(***************************************************************************)
THEOREM CredentialsTyped == CredentialsSpec => []CredentialsTypeOK
<1>1. CredentialsInv => CredentialsTypeOK
  BY DEF CredentialsInv
<1> QED
  BY <1>1, CredentialsStart, CredentialsStep, PTL DEF CredentialsSpec

(***************************************************************************)
(* A retailer whose users no wholesaler has edited always has a way to an  *)
(* active copy (NobodyIsStranded): while its email is unverified no copy   *)
(* is active, so a reissue is open, and once it is verified some copy is,  *)
(* so a reset is.                                                          *)
(***************************************************************************)
THEOREM NobodyEverStranded == CredentialsSpec => []NobodyIsStranded
<1>1. CredentialsInv => NobodyIsStranded
  <2> SUFFICES ASSUME CredentialsInv, Untouched, NEW w \in Mapped
               PROVE  \/ retailer = "unverified" /\ Established = {}
                      \/ retailer = "verified" /\ Established # {}
    BY DEF NobodyIsStranded
  <2> QED
    BY DEF CredentialsInv, CredentialsTypeOK, RowsOK
<1> QED
  BY <1>1, CredentialsStart, CredentialsStep, PTL DEF CredentialsSpec

(***************************************************************************)
(* A used or revoked invitation stays so, and a use leaves a user of the   *)
(* inviter (InvitationsAreSpentOnce): the row lock keeps the invitation of *)
(* a registration active or lapsed until it commits.                       *)
(***************************************************************************)
THEOREM InvitationsSpentOnce == CredentialsSpec => InvitationsAreSpentOnce
<1> DEFINE Step ==
      \A i \in Invitations :
        /\ invitation[i] \in {"used", "revoked"} => invitation'[i] = invitation[i]
        /\ invitation'[i] = "used" => copy'[InviterOf[i]] # NoCopy
<1>1. CredentialsInv /\ CredentialsInv' /\ [CredentialsNext]_credentialVars
        => [Step]_credentialVars
  <2> SUFFICES ASSUME CredentialsInv, CredentialsInv', CredentialsNext,
                      NEW i \in Invitations
               PROVE  /\ invitation[i] \in {"used", "revoked"} => invitation'[i] = invitation[i]
                      /\ invitation'[i] = "used" => copy'[InviterOf[i]] # NoCopy
    BY DEF credentialVars
  <2>1. invitation'[i] = "used" => copy'[InviterOf[i]] # NoCopy
    BY DEF CredentialsInv, RowsOK, Mapped
  <2>2. CASE \E s \in Sessions : FinishRegister(s)
    <3>1. PICK s \in Sessions : FinishRegister(s)
      BY <2>2
    <3>2. /\ session[s].op = "register"
          /\ invitation'[i] = IF i = session[s].invitation THEN "used" ELSE invitation[i]
      BY <3>1 DEF FinishRegister
    <3>3. i = session[s].invitation => invitation[i] \in {"active", "lapsed"}
      BY <3>2, CredentialsAssumption DEF CredentialsInv, SessionOK
    <3> QED
      BY <2>1, <3>2, <3>3
  <2>3. CASE \E j \in Invitations : ExpireInvitation(j) \/ Revoke(j)
    BY <2>1, <2>3 DEF ExpireInvitation, Revoke, CredentialsInv, CredentialsTypeOK
  <2>4. CASE UNCHANGED invitation
    BY <2>1, <2>4
  <2> QED
    BY <2>2, <2>3, <2>4 DEF CredentialsNext, SessionNext, BeginRegister, ReadToken, BeginConsume,
       FinishConsume, Fail, Reissue, Suspend, EditUser, RequestReset, ExpireToken
<1> HIDE DEF Step
<1>2. CredentialsSpec => [][Step]_credentialVars
  BY <1>1, CredentialsStart, CredentialsStep, PTL DEF CredentialsSpec
<1> QED
  BY <1>2 DEF InvitationsAreSpentOnce, Step
=============================================================================
