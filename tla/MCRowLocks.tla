----------------------------- MODULE MCRowLocks -----------------------------
(***************************************************************************)
(* Two or three orders over two SKUs, and the requests on them.            *)
(***************************************************************************)
EXTENDS RowLocks, TLC

Sorted == [s \in 1 .. 2 |-> s]

OnePerSku == [s \in 1 .. 2 |-> s]
SharedProduct == [s \in 1 .. 2 |-> 1]

\* A job that touches nothing but what the fields name.
AJob(k) ==
  [kind |-> k, order |-> "none", skus |-> {}, key |-> "none", references |-> {},
   retailers |-> {}, cart |-> Sorted]

Reversed == [s \in 1 .. 2 |-> 3 - s]

\* The lines of order 1 are not in SKU order; confirm sorts them.
Confirm1 == [AJob("command") EXCEPT !.order = 1, !.skus = {1, 2}, !.retailers = {"r"},
                                    !.cart = Reversed]
Cancel3 == [AJob("command") EXCEPT !.order = 3, !.skus = {1, 2}, !.retailers = {"r"}]
Fulfil2 == [AJob("command") EXCEPT !.order = 2, !.skus = {2}]
Pay1 == [AJob("pay") EXCEPT !.order = 1, !.key = "k", !.references = {"x"},
                            !.retailers = {"r"}]
ConfirmDeclared2 == [AJob("confirmDeclaration") EXCEPT
                       !.order = 2, !.key = "d", !.references = {"x"}, !.retailers = {"r"}]
Adjust2 == [AJob("adjust") EXCEPT !.skus = {2}]

\* Requests whose locks are all exclusive once they can be waited for.
BusyJobs == {Confirm1, Cancel3, Pay1, ConfirmDeclared2, Adjust2}

\* Commands on three different orders.
OrderJobs == {Confirm1, Cancel3, Fulfil2}

SessionSymmetry == Permutations(Sessions)
=============================================================================
