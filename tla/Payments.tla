------------------------------ MODULE Payments ------------------------------
(***************************************************************************)
(* The payments table and the receipt sequence of one tenant.  A row is    *)
(* found by its idempotency key: a direct payment is recorded under a key  *)
(* the client sent (PayKeys), the confirmation of declaration d under the  *)
(* reserved key "decl-confirm-" + d, written here as d itself.  The pay    *)
(* route refuses a client key with that prefix, so the two sets of keys    *)
(* are disjoint.                                                           *)
(***************************************************************************)
EXTENDS Tenant, Sums

CONSTANT
  PayKeys        \* idempotency keys clients send with a direct payment

ASSUME PaymentAssumption ==
  /\ IsFiniteSet(PayKeys)
  /\ IsFiniteSet(Decls)
  /\ PayKeys \cap Decls = {}

VARIABLES
  payments,      \* payments[k]: the row recorded under key k, or NoPayment
  receiptSeq     \* next_seq of receipt_sequences for the business date

paymentVars == <<payments, receiptSeq>>

Keys == PayKeys \cup Decls

Settling == {"cash", "transfer"}
Methods == Settling \cup {"credit"}

PaymentRow == [order : Orders,
               amount : Nat \ {0},
               method : Methods,
               reference : References \cup {NoReference},
               status : {"pending", "completed"},
               receipt : Nat]            \* 0: receipt_number IS NULL

NoPayment == [order |-> NoOrder, amount |-> 0, method |-> "none",
              reference |-> NoReference, status |-> "none", receipt |-> 0]

PaymentTypeOK ==
  /\ payments \in [Keys -> PaymentRow \cup {NoPayment}]
  /\ receiptSeq \in Nat

PaymentInit ==
  /\ payments = [k \in Keys |-> NoPayment]
  /\ receiptSeq = 0

-----------------------------------------------------------------------------

\* The amount row k contributes to a total of o over some methods.
Counted(o, methods) ==
  [k \in Keys |-> IF payments[k].order = o /\ payments[k].method \in methods
                  THEN payments[k].amount ELSE 0]

\* get_order_paid_total: cash and transfer rows, pending ones included.
PaidTotal(o) == SumOf(Counted(o, Settling))

\* get_order_method_total over credit rows.
CreditTotal(o) == SumOf(Counted(o, {"credit"}))

\* count_order_payments(method = "credit"), as the set of the rows.
CreditRows(o) ==
  {k \in Keys : payments[k].order = o /\ payments[k].method = "credit"}

\* A mutant of FreshKey: the insert would update the row it finds.
AnyKey(k) == k \in Keys

\* The idempotency key: a request whose key has a row is a replay or a 409.
FreshKey(k) == payments[k] = NoPayment

\* uq_payments_transaction_id, and the pre-check for transfers.
FreshReference(x) ==
  x # NoReference => \A k \in Keys : payments[k].reference # x

\* allocate_receipt_number: the counter after the increment.
NextReceipt == receiptSeq + 1

(***************************************************************************)
(* create, then the batch update_cash_transfer_to_completed of the order   *)
(* when settleOrder holds.  A receipt number is allocated in the savepoint *)
(* of the insert when the caller asks for one and the row is completed.    *)
(***************************************************************************)
Record(k, row, withReceipt, settleOrder) ==
  LET allocates == withReceipt /\ row.status = "completed"
      receipt == IF allocates THEN NextReceipt ELSE 0
      inserted == [payments EXCEPT ![k] = [row EXCEPT !.receipt = receipt]]
      Settles(j) == /\ settleOrder
                    /\ inserted[j].order = row.order
                    /\ inserted[j].method \in Settling
                    /\ inserted[j].status = "pending"
  IN /\ FreshKey(k)
     /\ FreshReference(row.reference)
     /\ payments' = [j \in Keys |->
                       IF Settles(j) THEN [inserted[j] EXCEPT !.status = "completed"]
                       ELSE inserted[j]]
     /\ receiptSeq' = IF allocates THEN receiptSeq + 1 ELSE receiptSeq
=============================================================================
