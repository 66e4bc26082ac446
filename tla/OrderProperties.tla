-------------------------- MODULE OrderProperties ---------------------------
(***************************************************************************)
(* What the order lifecycle promises: the redundant tables (aggregate      *)
(* stock, credit holds, binding cache, ledger, receipts, declarations) are *)
(* always consistent with the rows they summarise.                         *)
(***************************************************************************)
EXTENDS OrderCommands

\* The order holds goods that are reserved for it.
Reserving == {"confirmed", "partially_paid", "paid"}

\* The order has been paid for or sold on credit.
Closed == {"paid", "fulfilled", "returned"}

\* The quantity of s the order still owns in its active reservation rows.
OwnedQty(s) == [o \in Orders |-> IF s \in Owned(o) THEN Qty[o][s] ELSE 0]

\* The quantity of s that left for the order and has not come back.
DeliveredQty(s) ==
  [o \in Orders |-> IF status[o] = "fulfilled" THEN Qty[o][s] ELSE 0]

(***************************************************************************)
(* What the retailer owes for an order: the unsettled part of an active    *)
(* hold, or the uncollected part of a credit sale.                         *)
(***************************************************************************)
Exposure(o) ==
  IF hold[o].status = "converted" THEN CreditExposure(o) ELSE hold[o].remaining

ExposureOf(r) ==
  [o \in Orders |-> IF RetailerOf[o] = r THEN Exposure(o) ELSE 0]

-----------------------------------------------------------------------------
\* Inventory

(***************************************************************************)
(* quantity_reserved, an aggregate that confirm, cancel and fulfil update  *)
(* by increments, is the sum of the active reservation rows; so the 409    *)
(* RESERVATION_AGGREGATE_MISMATCH of release and deduct never fires.       *)
(***************************************************************************)
ReservedIsOwned == \A s \in Skus : reserved[s] = SumOf(OwnedQty(s))

(***************************************************************************)
(* An order owns a reservation row for exactly its own lines from confirm  *)
(* until cancel or fulfil, and every line of it is reserved or none is.    *)
(***************************************************************************)
ReservationsFollowOrder ==
  \A o \in Orders : Owned(o) = IF status[o] \in Reserving THEN Items(o) ELSE {}

(***************************************************************************)
(* Goods are conserved: on-hand stock differs from the initial stock by    *)
(* the adjustments and by what fulfilled orders took; a return gives back  *)
(* exactly what the fulfilment took.                                       *)
(***************************************************************************)
StockConserved ==
  \A s \in Skus :
    onHand[s] = InitialStock[s] + adjusted[s] - SumOf(DeliveredQty(s))

-----------------------------------------------------------------------------
\* Credit and payments

(***************************************************************************)
(* The outstanding_balance cache of a binding, updated by increments in    *)
(* five places, is the sum of what the retailer owes for each order.       *)
(***************************************************************************)
BindingIsExposure ==
  \A r \in Retailers : outstanding[r] = SumOf(ExposureOf(r))

Unpaid(o) == PaidTotal(o) = 0 /\ CreditRows(o) = {}

SettledInFull(o) ==
  /\ hold[o] = [status |-> "settled", remaining |-> 0]
  /\ PaidTotal(o) = Total[o]
  /\ CreditRows(o) = {}

SoldOnCredit(o) ==
  /\ hold[o] = [status |-> "converted", remaining |-> 0]
  /\ CreditTotal(o) = Total[o]
  /\ Cardinality(CreditRows(o)) = 1
  /\ PaidTotal(o) <= Total[o]

(***************************************************************************)
(* The contract between an order's state, its hold and its payments that   *)
(* _verify_hold_contract and _settle_cancel_hold test before they write:   *)
(* every state the commands reach satisfies it.                            *)
(***************************************************************************)
HoldFollowsOrder ==
  \A o \in Orders :
    /\ status[o] \in {"absent", "draft"} => hold[o] = NoHold /\ Unpaid(o)
    /\ status[o] \in {"confirmed", "partially_paid"} =>
         /\ ActiveHoldMatches(o)
         /\ CreditRows(o) = {}
         /\ PaidTotal(o) < Total[o]
         /\ status[o] = "confirmed" <=> PaidTotal(o) = 0
    /\ status[o] \in Closed => SettledInFull(o) \/ SoldOnCredit(o)
    /\ status[o] = "cancelled" =>
         hold[o] \in {NoHold, [status |-> "released", remaining |-> 0]} /\ Unpaid(o)
    /\ status[o] # "voided"

(***************************************************************************)
(* The guards that stand for data corruption never refuse a request: an    *)
(* order that may be cancelled can be released, and the binding covers     *)
(* whatever an order still owes.                                           *)
(***************************************************************************)
NoIntegrityRefusal ==
  \A o \in Orders :
    /\ outstanding[RetailerOf[o]] >= Exposure(o)
    /\ \A s \in Owned(o) : reserved[s] >= Qty[o][s]

-----------------------------------------------------------------------------
\* Ledger

Received(o) == IF status[o] \in Closed THEN PaidTotal(o) ELSE 0
Refunded(o) == IF status[o] = "returned" THEN Total[o] ELSE 0

(***************************************************************************)
(* The cash account holds what customers paid for closed orders less what  *)
(* returns refunded: one posting of the total by the settlement that       *)
(* completes an order, one of the amount by each collection, never both.   *)
(***************************************************************************)
LedgerMatchesPayments ==
  \A o \in Orders :
    /\ ledger[o]["cash"] = Received(o) - Refunded(o)
    /\ ledger[o]["receivable"] = -Received(o)
    /\ ledger[o]["revenue"] = Refunded(o)

-----------------------------------------------------------------------------
\* Refinement

\* The retailer's credit account behind holds, payments and binding cache.
Account == INSTANCE CreditAccount
             WITH charged <- {o \in Orders : hold[o] # NoHold},
                  owed <- [o \in Orders |-> Exposure(o)],
                  balance <- outstanding

(***************************************************************************)
(* The order lifecycle implements the credit account: only confirm_order   *)
(* charges an order and it does so once; a credit sale moves no money; a   *)
(* settlement, a collection and a cancellation clear the order and the     *)
(* binding by the same amount; nothing else touches either of them.        *)
(***************************************************************************)
ImplementsCreditAccount == Account!AccountSpec
=============================================================================
