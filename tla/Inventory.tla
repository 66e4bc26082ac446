----------------------------- MODULE Inventory ------------------------------
(***************************************************************************)
(* Stock and reservations of one tenant: inventory_stocks,                 *)
(* inventory_reservations and the adjustment rows of inventory_movements.  *)
(* The operators are the inventory part of the order commands, executed    *)
(* inside the command's transaction after every stock row is locked; a     *)
(* guard that fails is a 409 and the whole transaction rolls back.         *)
(***************************************************************************)
EXTENDS Tenant

CONSTANTS
  InitialStock,  \* InitialStock[s]: on-hand quantity at the start
  MaxStock       \* bound of the model on the on-hand quantity

ASSUME InventoryAssumption ==
  /\ MaxStock \in Nat
  /\ InitialStock \in [Skus -> 0 .. MaxStock]

VARIABLES
  onHand,    \* quantity_on_hand of each stock row
  reserved,  \* quantity_reserved of each stock row
  rsv,       \* rsv[o][s]: status of the reservation row of o's item, or "none"
  adjusted,  \* sum of the "adjustment" movements of each stock row
  sellable   \* the SKUs whose is_active flag is set

invVars == <<onHand, reserved, rsv, adjusted, sellable>>

ReservationStatus == {"none", "reserved", "released", "consumed"}

InventoryTypeOK ==
  /\ onHand \in [Skus -> Nat]
  /\ reserved \in [Skus -> Nat]
  /\ rsv \in [Orders -> [Skus -> ReservationStatus]]
  /\ adjusted \in [Skus -> Int]
  /\ sellable \in SUBSET Skus

InventoryInit ==
  /\ onHand = InitialStock
  /\ reserved = [s \in Skus |-> 0]
  /\ rsv = [o \in Orders |-> [s \in Skus |-> "none"]]
  /\ adjusted = [s \in Skus |-> 0]
  /\ sellable = Skus

-----------------------------------------------------------------------------

\* The lines whose reservation row is still active.
Owned(o) == {s \in Skus : rsv[o][s] = "reserved"}

\* Flips the reservation rows of o in S to st.
MarkReservations(o, S, st) ==
  rsv' = [rsv EXCEPT ![o] = [s \in Skus |-> IF s \in S THEN st ELSE rsv[o][s]]]

\* A mutant of Unreserve: the aggregate is forgotten.
UnreserveNothing(o, S) == UNCHANGED reserved

\* What o reserved of the SKUs in S leaves quantity_reserved.
Unreserve(o, S) ==
  reserved' = [s \in Skus |-> IF s \in S THEN reserved[s] - Qty[o][s] ELSE reserved[s]]

(***************************************************************************)
(* _prelock_stocks(require_active) and _reserve_inventory: every line needs*)
(* an active SKU and enough available stock.                               *)
(***************************************************************************)
Reserve(o) ==
  /\ Items(o) \subseteq sellable
  /\ \A s \in Items(o) : onHand[s] - reserved[s] >= Qty[o][s]
  /\ MarkReservations(o, Items(o), "reserved")
  /\ reserved' = [s \in Skus |-> reserved[s] + Qty[o][s]]
  /\ UNCHANGED <<onHand, adjusted, sellable>>

\* A mutant of Release: the reservation rows stay active.
ReleaseAggregate(o) ==
  /\ Unreserve(o, Owned(o))
  /\ UNCHANGED <<onHand, rsv, adjusted, sellable>>

(***************************************************************************)
(* _prelock_reservation_stocks and _release_reservations: the stock set is *)
(* the order's active reservations, not its lines; no SKU need be active.  *)
(***************************************************************************)
Release(o) ==
  /\ \A s \in Owned(o) : reserved[s] >= Qty[o][s]
  /\ MarkReservations(o, Owned(o), "released")
  /\ Unreserve(o, Owned(o))
  /\ UNCHANGED <<onHand, adjusted, sellable>>

(***************************************************************************)
(* deduct_on_fulfillment, once per line: on-hand stock pays for the line,  *)
(* and the line's own reservation, if it has one, is consumed.             *)
(***************************************************************************)
Consume(o) ==
  /\ \A s \in Items(o) : onHand[s] >= Qty[o][s]
  /\ \A s \in Items(o) \cap Owned(o) : reserved[s] >= Qty[o][s]
  /\ MarkReservations(o, Items(o) \cap Owned(o), "consumed")
  /\ Unreserve(o, Items(o) \cap Owned(o))
  /\ onHand' = [s \in Skus |-> onHand[s] - Qty[o][s]]
  /\ UNCHANGED <<adjusted, sellable>>

\* A mutant of Restock: the goods come back as reserved.
RestockReserved(o) ==
  /\ reserved' = [s \in Skus |-> reserved[s] + Qty[o][s]]
  /\ UNCHANGED <<onHand, rsv, adjusted, sellable>>

\* restock_on_return, once per line; the reservation rows are not touched.
Restock(o) ==
  /\ onHand' = [s \in Skus |-> onHand[s] + Qty[o][s]]
  /\ UNCHANGED <<reserved, rsv, adjusted, sellable>>

\* A mutant of Adjust: a negative result is not refused.
AdjustUnchecked(s, q) ==
  /\ q # 0
  /\ onHand[s] + q <= MaxStock
  /\ onHand' = [onHand EXCEPT ![s] = @ + q]
  /\ adjusted' = [adjusted EXCEPT ![s] = @ + q]
  /\ UNCHANGED <<reserved, rsv, sellable>>

(***************************************************************************)
(* adjust_stock: stocktake, damage or correction by q.  The only check is  *)
(* that on-hand stock does not become negative; quantity_reserved is not   *)
(* looked at.  MaxStock bounds the model.                                  *)
(***************************************************************************)
Adjust(s, q) ==
  /\ q # 0
  /\ onHand[s] + q \in 0 .. MaxStock
  /\ onHand' = [onHand EXCEPT ![s] = @ + q]
  /\ adjusted' = [adjusted EXCEPT ![s] = @ + q]
  /\ UNCHANGED <<reserved, rsv, sellable>>

\* update_sku: the operator withdraws a SKU from sale or restores it.
SetSkuActive(s, flag) ==
  /\ sellable' = IF flag THEN sellable \cup {s} ELSE sellable \ {s}
  /\ sellable' # sellable
  /\ UNCHANGED <<onHand, reserved, rsv, adjusted>>
=============================================================================
