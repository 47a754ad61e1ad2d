---------------------------- MODULE StockLedger ----------------------------
(***************************************************************************)
(* What InventoryService promises its callers, whatever they do: stock     *)
(* changes only by ledgered movements.  A step leaves the row of a variant *)
(* alone or applies one movement to it: the quantity never goes below      *)
(* zero, and the movement appends one entry that records the quantity      *)
(* before and after it; entries are never rewritten.                       *)
(***************************************************************************)
EXTENDS Tables

VARIABLE inventory

LedgerInit == inventory = [v \in Variants |-> Opened(v)]

\* new is old with exactly one accepted movement more.
OneMovement(old, new) ==
    /\ Len(new.log) = Len(old.log) + 1
    /\ LET e == new.log[Len(new.log)]
       IN  /\ Accepts(old, e.type, Magnitude(e.delta))
           /\ new = Applied(old, e.type, Magnitude(e.delta), e.ref)

\* A commit moves any set of variants, each of them once.
LedgerNext ==
    /\ inventory' = [v \in Variants |-> inventory'[v]]
    /\ \A v \in Variants : \/ inventory'[v] = inventory[v]
                           \/ OneMovement(inventory[v], inventory'[v])

LedgerSpec == LedgerInit /\ [][LedgerNext]_inventory
=============================================================================
