----------------------------- MODULE MCOrderTx -----------------------------
(***************************************************************************)
(* OrderTx with few clients.                                               *)
(***************************************************************************)
EXTENDS OrderTx, TLC

CONSTANTS o1, o2, r1, r2, v1, v2, c1, c2, c3

MCDocuments == Orders \cup Returns \cup Purchases
MCOpening   == [v \in Variants |-> 2]

\* One unit of everything; one line, or two with two units of the first.
OneUnit  == {[v \in Variants |-> 1]}
TwoLines == {v1 :> 1 @@ v2 :> 0, v1 :> 2 @@ v2 :> 1}

\* A third one whose second line cannot be met after the first was taken.
OneIsShort == TwoLines \cup {v1 :> 1 @@ v2 :> 3}

MCSymmetry == Permutations(Clients) \cup Permutations(Orders) \cup Permutations(Returns)
=============================================================================
