------------------------------ MODULE PayRoute ------------------------------
(***************************************************************************)
(* The pay route behind the idempotency middleware: the header that names  *)
(* an entry of the store is also the key of the payment row, so a retry    *)
(* that the store no longer knows meets the row instead.  The cache key is *)
(* the whole request: another body under the same header passes the store. *)
(* Declarations are confirmed and rejected beside it, without the header.  *)
(***************************************************************************)
EXTENDS PaymentRequests, Idempotency

ASSUME PayRouteAssumption ==
  /\ CacheKeys = {r \in Requests : r.kind = "pay"}
  /\ Slots = Sessions

routeVars == <<transactionVars, idempotencyVars>>

RouteInit == TransactionInit /\ IdempotencyInit

InMiddleware(s) == ~Is(s, "idle")

Arrive(s, r) ==
  /\ At(s, {"idle"})
  /\ Admit(s, r)
  /\ UNCHANGED transactionVars

\* The request is marked and passed on to the route.
Pass(s) == Mark(s) /\ Begin(s, slot[s].key)

\* A confirmation, which carries no header.
Bypass(s, r) ==
  /\ ~InMiddleware(s)
  /\ r.kind = "confirm"
  /\ Begin(s, r)
  /\ UNCHANGED idempotencyVars

Transact(s) == Work(s) /\ UNCHANGED idempotencyVars

\* The route returns 200, for a new payment and for a replay.
Respond(s) ==
  /\ At(s, {"written", "replaying"})
  /\ Answer(s)
  /\ UNCHANGED transactionVars

RespondConflict(s) ==
  /\ At(s, {"refused"})
  /\ Close(s)
  /\ Refuse(s)

Remember(s) == Store(s) /\ UNCHANGED transactionVars

CommitRoute(s) ==
  /\ InMiddleware(s)
  /\ CommitAnswered(s)
  /\ CommitPayment(s) \/ (At(s, {"replaying"}) /\ Close(s))

CommitConfirmation(s) ==
  /\ ~InMiddleware(s)
  /\ CommitPayment(s)
  /\ UNCHANGED idempotencyVars

\* The transaction fails or is refused, or its replay ends.
Fail(s) ==
  /\ Close(s)
  /\ \/ Raise(s)
     \/ CommitLost(s)
     \/ ~InMiddleware(s) /\ UNCHANGED idempotencyVars

Leave(s) == Finish(s) /\ UNCHANGED transactionVars

Forget(k) == Expire(k) /\ UNCHANGED transactionVars

Replace ==
  /\ Restart
  /\ session' = [s \in Sessions |-> Unused]
  /\ ReadOnly

Decline(d) == Reject(d) /\ UNCHANGED idempotencyVars

RouteNext ==
  \/ \E s \in Sessions : Pass(s)
  \/ /\ StoreSuspends \/ NobodyMarks
     /\ \/ \E s \in Sessions, r \in CacheKeys : Arrive(s, r)
        \/ \E s \in Sessions, r \in Requests : Bypass(s, r)
        \/ \E s \in Sessions :
             \/ Transact(s) \/ Respond(s) \/ RespondConflict(s) \/ Remember(s)
             \/ CommitRoute(s) \/ CommitConfirmation(s) \/ Fail(s) \/ Leave(s)
        \/ \E k \in CacheKeys : Forget(k)
        \/ \E d \in Decls : Decline(d)
        \/ Replace

RouteTypeOK == TransactionTypeOK /\ IdempotencyTypeOK

RouteSpec == RouteInit /\ [][RouteNext]_routeVars
=============================================================================
