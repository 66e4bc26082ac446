--------------------------- MODULE CreditAccount ----------------------------
(***************************************************************************)
(* What a retailer's credit account promises, without holds, payments or   *)
(* declarations: an order is charged to the account once, with its total,  *)
(* and afterwards what it owes only falls.  The balance of the account is  *)
(* maintained by increments and never by summing the orders.               *)
(***************************************************************************)
EXTENDS Integers

CONSTANTS Orders, Retailers, RetailerOf, Total

VARIABLES
  charged,   \* the orders ever charged to their retailer's account
  owed,      \* owed[o]: what is left to pay for o
  balance    \* balance[r]: the account of r

accountVars == <<charged, owed, balance>>

AccountInit ==
  /\ charged = {}
  /\ owed = [o \in Orders |-> 0]
  /\ balance = [r \in Retailers |-> 0]

Charge(o) ==
  /\ o \notin charged
  /\ charged' = charged \cup {o}
  /\ owed' = [owed EXCEPT ![o] = Total[o]]
  /\ balance' = [balance EXCEPT ![RetailerOf[o]] = @ + Total[o]]

\* A payment, a collection, or the cancellation of the charge.
Clear(o, a) ==
  /\ o \in charged
  /\ a <= owed[o]
  /\ owed' = [owed EXCEPT ![o] = @ - a]
  /\ balance' = [balance EXCEPT ![RetailerOf[o]] = @ - a]
  /\ UNCHANGED charged

AccountNext ==
  \E o \in Orders : Charge(o) \/ \E a \in 1 .. Total[o] : Clear(o, a)

AccountSpec == AccountInit /\ [][AccountNext]_accountVars
=============================================================================
