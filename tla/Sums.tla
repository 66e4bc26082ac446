-------------------------------- MODULE Sums --------------------------------
(***************************************************************************)
(* The sum of a finite function with natural values, written as a          *)
(* cardinality: every x contributes f[x] distinct units.  A recursive sum  *)
(* has the same value (TLC evaluates both alike) but needs induction; the  *)
(* cardinality needs only the facts about finite sets, so the conservation *)
(* invariants stated with SumOf can be proved for any number of orders.    *)
(***************************************************************************)
EXTENDS Naturals, FiniteSets

\* The f[x] units that x contributes.
Slice(f, x) == {x} \X (1 .. f[x])

\* All the units of f.
Units(f) == UNION {Slice(f, x) : x \in DOMAIN f}

\* SELECT COALESCE(SUM(f), 0): 0 for the empty domain.
SumOf(f) == Cardinality(Units(f))
=============================================================================
