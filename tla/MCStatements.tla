---------------------------- MODULE MCStatements ----------------------------
(***************************************************************************)
(* The two helpers that the services call inside their transactions,       *)
(* nextSequence (DocNumbers) and applyChange (ApplyChange), with clients   *)
(* that draw numbers in some transactions and move stock in others.        *)
(***************************************************************************)
EXTENDS DocNumbers, ApplyChange, TLC

CONSTANTS d1, k1, k2, v1, v2, c1, c2, c3

\* Each client is in one transaction at a time, of one kind or the other.
HelpersInit == Init /\ MoveInit

Draw(p) == mover[p] = Resting /\ Step(p) /\ UNCHANGED moveVars

Move(p) == client[p] = Idle /\ MoveStep(p) /\ UNCHANGED vars

HelpersNext == \E p \in Clients : Draw(p) \/ Move(p)

HelpersSpec == HelpersInit /\ [][HelpersNext]_<<vars, moveVars>>

MCOpening == v1 :> 1 @@ v2 :> 0

Movement(v, type, q) == [variant |-> v, type |-> type, quantity |-> q,
                         ref |-> [kind |-> "ORDER", id |-> d1]]

\* Sales and receipts of one variant or two, one more than may be there, and
\* a movement of nothing, which is refused.
MCBatches ==
    {{Movement(v1, "SALE", 1)},
     {Movement(v1, "SALE", 1), Movement(v2, "PURCHASE", 2)},
     {Movement(v1, "RETURN", 1), Movement(v2, "SALE", 1)},
     {Movement(v2, "DAMAGE", 0)}}

MCSymmetry == Permutations(Clients) \cup Permutations(Keys)
=============================================================================
