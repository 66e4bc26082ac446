--------------------------- MODULE OrderCommands ----------------------------
(***************************************************************************)
(* The order lifecycle of one tenant: order commands, canonical payments   *)
(* and payment declarations over the tables they share.                    *)
(*                                                                         *)
(* One action is one committed request.  Every command locks the order row *)
(* first (SELECT ... FOR UPDATE with populate_existing) and every row it   *)
(* writes before writing it, all in one transaction that commits only if   *)
(* the response is a success; a refusal and a replay write nothing and are *)
(* stuttering steps.  Module RowLocks is about the locks themselves.       *)
(***************************************************************************)
EXTENDS OrderState, Inventory, CreditHolds, Payments, Ledger, Declarations

VARIABLE status   \* status[o]: state of the order row; "absent": no row yet

vars == <<status, invVars, creditVars, paymentVars, ledger, decl>>

TypeOK ==
  /\ status \in [Orders -> OrderStates \cup {"absent"}]
  /\ InventoryTypeOK
  /\ CreditTypeOK
  /\ PaymentTypeOK
  /\ LedgerTypeOK
  /\ DeclarationTypeOK

Init ==
  /\ status = [o \in Orders |-> "absent"]
  /\ InventoryInit
  /\ CreditInit
  /\ PaymentInit
  /\ LedgerInit
  /\ DeclarationInit

\* _assign_status: the single writer of orders.status.
AssignStatus(o, target) == status' = [status EXCEPT ![o] = target]

-----------------------------------------------------------------------------
\* Order commands

(***************************************************************************)
(* create_order of either API: the binding is active, every SKU is on sale *)
(* and its on-hand stock (not what is left of it) covers the line.         *)
(***************************************************************************)
CreateOrder(o) ==
  /\ status[o] = "absent"
  /\ RetailerOf[o] \in activeBindings
  /\ Items(o) \subseteq sellable
  /\ \A s \in Items(o) : onHand[s] >= Qty[o][s]
  /\ AssignStatus(o, "draft")
  /\ UNCHANGED <<invVars, creditVars, paymentVars, ledger, decl>>

\* confirm_order: no ledger entry of any kind is posted.
ConfirmOrder(o) ==
  /\ CanTransition(status[o], "confirmed")
  /\ Total[o] > 0
  /\ Reserve(o)
  /\ OpenHold(o)
  /\ AssignStatus(o, "confirmed")
  /\ UNCHANGED <<paymentVars, ledger, decl>>

\* cancel_order: the matrix allows more than the command does.
CancelOrder(o) ==
  /\ CanTransition(status[o], "cancelled")
  /\ status[o] \notin {"paid", "partially_paid"}
  /\ Release(o)
  /\ SettleCancelHold(o, status[o])
  /\ AssignStatus(o, "cancelled")
  /\ UNCHANGED <<paymentVars, ledger, decl>>

\* fulfill_order
FulfillOrder(o) ==
  /\ CanTransition(status[o], "fulfilled")
  /\ Consume(o)
  /\ AssignStatus(o, "fulfilled")
  /\ UNCHANGED <<creditVars, paymentVars, ledger, decl>>

\* return_order: the ledger reversal, then the stock; no hold, no binding.
ReturnOrder(o) ==
  /\ CanTransition(status[o], "returned")
  /\ PostOrderReturn(o, Total[o])
  /\ Restock(o)
  /\ AssignStatus(o, "returned")
  /\ UNCHANGED <<creditVars, paymentVars, decl>>

-----------------------------------------------------------------------------
\* Payments: _confirm_payment_for_locked_order, one operator per kind of
\* payment.  force is force_completed and allocate_receipt, which only the
\* confirmation of a declaration sets.

Row(o, a, m, x, st) ==
  [order |-> o, amount |-> a, method |-> m, reference |-> x,
   status |-> st, receipt |-> 0]

Unsettled(o) == Total[o] - PaidTotal(o)

\* A mutant of CreditExposure: collections are not deducted.
GrossExposure(o) == CreditTotal(o)

\* get_order_credit_exposure
CreditExposure(o) == CreditTotal(o) - PaidTotal(o)

\* _verify_hold_contract for a settlement or a credit sale.
ActiveHoldMatches(o) ==
  hold[o] = [status |-> "active", remaining |-> Unsettled(o)]

\* The payment that makes the order paid completes the pending rows, unless
\* it is forced.
CompletesPending(force, target) == ~force /\ target = "paid"

(***************************************************************************)
(* A cash or transfer settlement of a confirmed order.  The ledger is      *)
(* posted once, with the order's total, by the payment that completes it.  *)
(***************************************************************************)
Settle(k, o, a, m, x, force) ==
  LET target == IF PaidTotal(o) + a >= Total[o] THEN "paid" ELSE "partially_paid"
      completed == force \/ (m = "transfer" /\ target = "paid")
      row == Row(o, a, m, x, IF completed THEN "completed" ELSE "pending")
  IN /\ status[o] \in {"confirmed", "partially_paid"}
     /\ a <= Unsettled(o)
     /\ ActiveHoldMatches(o)
     /\ Record(k, row, force, CompletesPending(force, target))
     /\ ReduceHold(o, a)
     /\ IF target = "paid" THEN PostPaymentReceived(o, Total[o])
                           ELSE UNCHANGED ledger
     /\ AssignStatus(o, target)

(***************************************************************************)
(* A credit sale: the whole order, with nothing settled before, once.  The *)
(* row is pending and stays so; the hold becomes the credit exposure.      *)
(***************************************************************************)
SellOnCredit(k, o, x) ==
  /\ status[o] \in {"confirmed", "partially_paid"}
  /\ CreditRows(o) = {}
  /\ PaidTotal(o) = 0
  /\ ActiveHoldMatches(o)
  /\ Record(k, Row(o, Total[o], "credit", x, "pending"), FALSE, TRUE)
  /\ ConvertHold(o)
  /\ AssignStatus(o, "paid")
  /\ UNCHANGED ledger

\* A cash or transfer collection on a paid order with credit exposure.
Collect(k, o, a, m, x, force) ==
  /\ status[o] = "paid"
  /\ CreditExposure(o) > 0
  /\ a <= CreditExposure(o)
  /\ hold[o] = [status |-> "converted", remaining |-> 0]
  /\ CreditTotal(o) = Total[o]
  /\ Cardinality(CreditRows(o)) = 1
  /\ Record(k, Row(o, a, m, x, "completed"), force, FALSE)
  /\ PostPaymentReceived(o, a)
  /\ CollectCredit(o, a)
  /\ UNCHANGED status

\* pay_order, for a key that no payment has yet.
PaySettle(k, o, a, m, x) ==
  /\ Settle(k, o, a, m, x, FALSE)
  /\ UNCHANGED <<invVars, decl>>

PayCredit(k, o, x) ==
  /\ SellOnCredit(k, o, x)
  /\ UNCHANGED <<invVars, decl>>

PayCollect(k, o, a, m, x) ==
  /\ Collect(k, o, a, m, x, FALSE)
  /\ UNCHANGED <<invVars, decl>>

-----------------------------------------------------------------------------
\* Declarations

\* declare_payment: any order of the retailer, whatever its state.
SubmitDeclaration(d, o, a, m, x) ==
  /\ status[o] # "absent"
  /\ RetailerOf[o] \in activeBindings
  /\ Submit(d, o, a, m, x)
  /\ UNCHANGED <<status, invVars, creditVars, paymentVars, ledger>>

\* confirm_declaration: the payment of the declaration, then the verdict.
ConfirmDeclaration(d) ==
  LET o == decl[d].order
  IN /\ decl[d].status = "pending"
     /\ RetailerOf[o] \in activeBindings
     /\ \/ Settle(d, o, decl[d].amount, decl[d].method, decl[d].reference, TRUE)
        \/ Collect(d, o, decl[d].amount, decl[d].method, decl[d].reference, TRUE)
     /\ Decide(d, "confirmed")
     /\ UNCHANGED invVars

\* reject_declaration
RejectDeclaration(d) ==
  /\ Decide(d, "rejected")
  /\ UNCHANGED <<status, invVars, creditVars, paymentVars, ledger>>

-----------------------------------------------------------------------------
\* What the operator does beside the orders

AdjustStock(s, q) ==
  /\ Adjust(s, q)
  /\ UNCHANGED <<status, creditVars, paymentVars, ledger, decl>>

UpdateSku(s, flag) ==
  /\ SetSkuActive(s, flag)
  /\ UNCHANGED <<status, creditVars, paymentVars, ledger, decl>>

Deactivate(r) ==
  /\ DeactivateBinding(r)
  /\ UNCHANGED <<status, invVars, paymentVars, ledger, decl>>

-----------------------------------------------------------------------------

OrderCommand(o) ==
  CreateOrder(o) \/ ConfirmOrder(o) \/ CancelOrder(o) \/ FulfillOrder(o) \/ ReturnOrder(o)

Payment(o) ==
  \E k \in PayKeys, x \in References \cup {NoReference} :
    \/ PayCredit(k, o, x)
    \/ \E a \in 1 .. Total[o], m \in Settling :
         PaySettle(k, o, a, m, x) \/ PayCollect(k, o, a, m, x)

Declaration(d) ==
  \/ \E o \in Orders, a \in DeclarableAmounts, m \in Settling,
        x \in References \cup {NoReference} : SubmitDeclaration(d, o, a, m, x)
  \/ ConfirmDeclaration(d)
  \/ RejectDeclaration(d)

\* Adjustments: any quantity that stays within the bound of the model.
Upkeep ==
  \/ \E s \in Skus : \E q \in (-MaxStock) .. MaxStock : AdjustStock(s, q)
  \/ \E s \in Skus, flag \in BOOLEAN : UpdateSku(s, flag)
  \/ \E r \in Retailers : Deactivate(r)

Next ==
  \/ \E o \in Orders : OrderCommand(o) \/ Payment(o)
  \/ \E d \in Decls : Declaration(d)
  \/ Upkeep

Spec == Init /\ [][Next]_vars
=============================================================================
