------------------------------ MODULE MCOrders ------------------------------
(***************************************************************************)
(* Small tenants for OrderCommands.  Total, Qty, RetailerOf and            *)
(* InitialStock are given values here; the sets are in the cfg files.      *)
(***************************************************************************)
EXTENDS Receivables, TLC

CONSTANTS o1, o2, r1, s1, s2

Both(a, b) == [o \in Orders |-> IF o = o1 THEN a ELSE b]

SameRetailer == [o \in Orders |-> r1]

TwoCents == [o \in Orders |-> 2]

OneLine == [o \in Orders |-> [s \in Skus |-> 1]]
\* o1 wants one of each SKU, o2 two of s1.
Competing == Both([s \in Skus |-> 1], [s \in Skus |-> IF s = s1 THEN 2 ELSE 0])

TwoUnits == [s \in Skus |-> 2]

\* Keys are interchangeable; so are orders when they have the same data.
KeySymmetry == Permutations(PayKeys)
FullSymmetry == Permutations(PayKeys) \cup Permutations(Orders)
=============================================================================
