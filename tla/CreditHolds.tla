---------------------------- MODULE CreditHolds -----------------------------
(***************************************************************************)
(* The per-order credit hold (order_credit_holds, one row per order) and   *)
(* the retailer's binding with its outstanding_balance cache.  amount of a *)
(* hold is the order's frozen total, so only remaining_amount is kept.     *)
(***************************************************************************)
EXTENDS Tenant

VARIABLES
  hold,           \* hold[o]: the lifecycle row of o
  outstanding,    \* outstanding_balance of each binding
  activeBindings  \* the retailers whose binding has status "active"

creditVars == <<hold, outstanding, activeBindings>>

HoldStatus == {"none", "active", "settled", "released", "converted"}
HoldRow == [status : HoldStatus, remaining : Nat]
NoHold == [status |-> "none", remaining |-> 0]

CreditTypeOK ==
  /\ hold \in [Orders -> HoldRow]
  /\ outstanding \in [Retailers -> Nat]
  /\ activeBindings \in SUBSET Retailers

CreditInit ==
  /\ hold = [o \in Orders |-> NoHold]
  /\ outstanding = [r \in Retailers |-> 0]
  /\ activeBindings = Retailers

-----------------------------------------------------------------------------

(***************************************************************************)
(* The conditional UPDATE of the binding: it matches no row, and the       *)
(* transaction fails, when the balance would become negative.              *)
(***************************************************************************)
AddToBinding(r, delta) ==
  /\ outstanding[r] + delta >= 0
  /\ outstanding' = [outstanding EXCEPT ![r] = @ + delta]

\* _open_credit_hold: the only operation that requires an active binding.
OpenHold(o) ==
  /\ hold[o] = NoHold
  /\ RetailerOf[o] \in activeBindings
  /\ hold' = [hold EXCEPT ![o] = [status |-> "active", remaining |-> Total[o]]]
  /\ AddToBinding(RetailerOf[o], Total[o])
  /\ UNCHANGED activeBindings

(***************************************************************************)
(* _settle_cancel_hold: a draft must have no hold; a confirmed order must  *)
(* have an untouched active hold, which is released and leaves the binding.*)
(***************************************************************************)
SettleCancelHold(o, current) ==
  \/ /\ current = "draft"
     /\ hold[o] = NoHold
     /\ UNCHANGED creditVars
  \/ /\ current = "confirmed"
     /\ hold[o] = [status |-> "active", remaining |-> Total[o]]
     /\ hold' = [hold EXCEPT ![o] = [status |-> "released", remaining |-> 0]]
     /\ AddToBinding(RetailerOf[o], -Total[o])
     /\ UNCHANGED activeBindings

\* A mutant of ReduceHold: a hold with nothing left stays active.
ReduceHoldOnly(o, a) ==
  /\ hold[o].remaining >= a
  /\ hold' = [hold EXCEPT ![o].remaining = @ - a]
  /\ AddToBinding(RetailerOf[o], -a)
  /\ UNCHANGED activeBindings

\* _reduce_hold, then the binding: a settlement of amount a.
ReduceHold(o, a) ==
  /\ hold[o].remaining >= a
  /\ hold' = [hold EXCEPT ![o] =
                [status |-> IF @.remaining = a THEN "settled" ELSE @.status,
                 remaining |-> @.remaining - a]]
  /\ AddToBinding(RetailerOf[o], -a)
  /\ UNCHANGED activeBindings

\* Mutants of ConvertHold: the sale moves the binding, as a payment would
\* or as a second charge.
ConvertHoldAsPayment(o) ==
  /\ hold' = [hold EXCEPT ![o] = [status |-> "converted", remaining |-> 0]]
  /\ AddToBinding(RetailerOf[o], -Total[o])
  /\ UNCHANGED activeBindings

ConvertHoldAsCharge(o) ==
  /\ hold' = [hold EXCEPT ![o] = [status |-> "converted", remaining |-> 0]]
  /\ AddToBinding(RetailerOf[o], Total[o])
  /\ UNCHANGED activeBindings

\* _convert_hold: a credit sale keeps what the order already occupies.
ConvertHold(o) ==
  /\ hold' = [hold EXCEPT ![o] = [status |-> "converted", remaining |-> 0]]
  /\ UNCHANGED <<outstanding, activeBindings>>

\* A mutant of CollectCredit: the binding is forgotten.
CollectNothing(o, a) == UNCHANGED creditVars

\* A collection on a credit sale: the hold row is preserved untouched.
CollectCredit(o, a) ==
  /\ AddToBinding(RetailerOf[o], -a)
  /\ UNCHANGED <<hold, activeBindings>>

\* deactivate_retailer_binding; no route activates a binding again.
DeactivateBinding(r) ==
  /\ r \in activeBindings
  /\ activeBindings' = activeBindings \ {r}
  /\ UNCHANGED <<hold, outstanding>>
=============================================================================
