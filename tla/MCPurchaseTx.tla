---------------------------- MODULE MCPurchaseTx ----------------------------
(***************************************************************************)
(* PurchaseTx with few clients.                                            *)
(***************************************************************************)
EXTENDS PurchaseTx, TLC

CONSTANTS d1, v1, v2, c1, c2

MCDocuments == Orders \cup Returns \cup Purchases
MCOpening   == v1 :> 1 @@ v2 :> 0

\* One line, or two with two units of the first.
TwoLines == {v1 :> 1 @@ v2 :> 0, v1 :> 2 @@ v2 :> 1}

MCSymmetry == Permutations(Clients)
=============================================================================
