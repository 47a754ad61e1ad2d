------------------------------ MODULE MCStore ------------------------------
(***************************************************************************)
(* Store on a small catalogue.                                             *)
(***************************************************************************)
EXTENDS Reports, TLC

CONSTANTS o1, o2, r1, r2, p1, v1, v2

MCDocuments == Orders \cup Returns \cup Purchases
MCOpening   == v1 :> 2 @@ v2 :> 1

\* A request for one unit, and one for two lines: units of the second can be
\* returned one by one or all together.
TwoVariantBaskets == {v1 :> 1 @@ v2 :> 0, v1 :> 2 @@ v2 :> 1}

MCSymmetry == Permutations(Orders) \cup Permutations(Returns)
=============================================================================
