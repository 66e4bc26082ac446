---------------------------- MODULE Receivables -----------------------------
(***************************************************************************)
(* get_receivables_summary, a read of the same tables: per retailer the    *)
(* binding cache beside the two amounts derived from the order rows.       *)
(***************************************************************************)
EXTENDS OrderProperties

\* The orders the summary loads (status IN confirmed, partially_paid, paid).
Summarised == {o \in Orders : status[o] \in {"confirmed", "partially_paid", "paid"}}

\* The unpaid track: the active holds of the retailer, whatever the order's state.
UnpaidTrack(r) ==
  SumOf([o \in Orders |-> IF RetailerOf[o] = r /\ hold[o].status = "active"
                          THEN hold[o].remaining ELSE 0])

\* The credit track: what is uncollected on the orders the summary loads.
CreditTrack(r) ==
  SumOf([o \in Orders |-> IF RetailerOf[o] = r /\ o \in Summarised /\ CreditExposure(o) > 0
                          THEN CreditExposure(o) ELSE 0])

\* What the retailer still owes for goods the summary has stopped loading.
Delivered(r) ==
  SumOf([o \in Orders |-> IF RetailerOf[o] = r /\ status[o] \in {"fulfilled", "returned"}
                          THEN Exposure(o) ELSE 0])

\* _assert_history_integrity: the summary refuses an over-collected order.
OverCollected(o) == CreditTotal(o) > 0 /\ PaidTotal(o) > CreditTotal(o)

-----------------------------------------------------------------------------

(***************************************************************************)
(* The summary is never refused for over-collection, and what it shows as  *)
(* drift between the cache and the two tracks is exactly the uncollected   *)
(* credit of delivered orders: no amount is lost or counted twice.         *)
(***************************************************************************)
DriftIsDeliveredCredit ==
  /\ \A o \in Summarised : ~OverCollected(o)
  /\ \A r \in Retailers :
       outstanding[r] = UnpaidTrack(r) + CreditTrack(r) + Delivered(r)

(***************************************************************************)
(* payment_repository.py, update_cash_transfer_to_completed: "This closes  *)
(* the lifecycle gap where a fully-paid order left its cash/transfer       *)
(* payments stuck at 'pending'."                                           *)
(***************************************************************************)
PaidOrdersAreSettled ==
  \A k \in Keys :
    payments[k].method \in Settling /\ payments[k].status = "pending" =>
      status[payments[k].order] = "partially_paid"
=============================================================================
