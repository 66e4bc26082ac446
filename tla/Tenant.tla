------------------------------- MODULE Tenant -------------------------------
(***************************************************************************)
(* The data of one tenant schema that no command of the order lifecycle    *)
(* changes: who placed an order, its lines and its total.  The items and   *)
(* the total of an order are written once, when it is created, and no      *)
(* route updates them.  Amounts are in cents, quantities in whole units.   *)
(***************************************************************************)
EXTENDS Integers, FiniteSets

CONSTANTS
  Orders,        \* order ids
  NoOrder,       \* the order of a row that does not exist
  Retailers,
  RetailerOf,    \* RetailerOf[o]: the retailer of o
  Total,         \* Total[o]: total_amount of o
  Skus,          \* sellable units, each with one stock row
  Qty,           \* Qty[o][s]: quantity of s in the line of o; 0 is no line
  Decls,         \* payment declaration ids
  References,    \* transfer references (transaction_id)
  NoReference    \* a NULL transaction_id

\* Every line of a created order has a positive price and quantity.
ASSUME TenantAssumption ==
  /\ IsFiniteSet(Orders)
  /\ NoOrder \notin Orders
  /\ RetailerOf \in [Orders -> Retailers]
  /\ Total \in [Orders -> Nat \ {0}]
  /\ Qty \in [Orders -> [Skus -> Nat]]
  /\ NoReference \notin References

\* The lines of an order.
Items(o) == {s \in Skus : Qty[o][s] > 0}
=============================================================================
