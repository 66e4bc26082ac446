----------------------------- MODULE MCPayRoute -----------------------------
(***************************************************************************)
(* Two transactions at a time on two orders of two cents.  The requests    *)
(* meet in every way: k1 with two bodies, k1 and k2 on one order, the      *)
(* reference x1 in a transfer and in a declaration.                        *)
(***************************************************************************)
EXTENDS PayRoute

CONSTANTS o1, o2, r1, k1, k2, d1, d2, x1, x2, s1, s2

TwoCents == [o \in Orders |-> 2]
SameRetailer == [o \in Orders |-> r1]
NoLines == [o \in Orders |-> [s \in Skus |-> 0]]

Pay(k, o, n) == [kind |-> "pay", key |-> k, order |-> o, amount |-> n,
                 method |-> "cash", reference |-> NoReference]
Transfer(k, o, n) == [Pay(k, o, n) EXCEPT !.method = "transfer", !.reference = x1]
Declared(d, o, x) == [kind |-> "confirm", key |-> d, order |-> o, amount |-> 1,
                      method |-> "transfer", reference |-> x]

PayRequests == {Pay(k1, o1, 1), Pay(k1, o2, 2), Transfer(k2, o1, 1)}
McRequests == PayRequests \cup {Declared(d1, o2, x1), Declared(d2, o1, x2)}
McSessions == {s1, s2}
=============================================================================
