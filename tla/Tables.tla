------------------------------- MODULE Tables -------------------------------
(***************************************************************************)
(* The rows of the tables the services share (src/prisma/schema.prisma),   *)
(* reduced to what stock depends on, and what applyChange does to the row  *)
(* of a variant.  Pure definitions, no state.                              *)
(*                                                                         *)
(* A variant's row of the inventory table and its inventory_transactions   *)
(* are one record [qty, log] here: applyChange writes both or neither.  An *)
(* order carries its order_items rows: they are written once, at creation, *)
(* with one row per variant.                                               *)
(***************************************************************************)
EXTENDS OrderStates, Sequences

CONSTANTS
    Variants,                    \* the variants of the catalogue
    Orders, Returns, Purchases,  \* the ids that may be handed out
    Documents,                   \* all ids a ledger entry may cite
    Opening                      \* the opening stock of each variant

ASSUME OpeningAssumption == Opening \in [Variants -> Nat]

ASSUME DocumentsAssumption == Orders \cup Returns \cup Purchases \subseteq Documents

-----------------------------------------------------------------------------
\* Stock.

ReferenceTypes == {"PURCHASE", "ORDER", "RETURN", "ORDER_CANCELLATION", "MANUAL"}
References == [kind : ReferenceTypes, id : Documents \cup {"NONE"}]
Manual == [kind |-> "MANUAL", id |-> "NONE"]

Entries == [type : MovementTypes, delta : Int, prev : Nat, new : Nat,
            ref : References]

\* signedDelta and the guard of the conditional UPDATE.
Accepts(row, type, q) == q > 0 /\ row.qty + Signed(type, q) >= 0

\* Bug: the entry records the quantity after the movement as the one before.
MisrecordedPrevious(row, type, q, ref) ==
    LET new == row.qty + Signed(type, q)
    IN  [qty |-> new,
         log |-> Append(row.log, [type |-> type, delta |-> Signed(type, q),
                                  prev |-> new, new |-> new, ref |-> ref])]

\* The UPDATE, the re-read of the row it has locked and the ledger insert.
Applied(row, type, q, ref) ==
    LET new == row.qty + Signed(type, q)
    IN  [qty |-> new,
         log |-> Append(row.log, [type |-> type, delta |-> Signed(type, q),
                                  prev |-> new - Signed(type, q),
                                  new  |-> new, ref |-> ref])]

Magnitude(d) == IF d < 0 THEN -d ELSE d

\* createVariantInTx: an empty row, then the opening stock as a movement.
EmptyRow == [qty |-> 0, log |-> << >>]
Opened(v) == IF Opening[v] > 0
             THEN Applied(EmptyRow, "ADJUSTMENT_IN", Opening[v], Manual)
             ELSE EmptyRow

-----------------------------------------------------------------------------
\* Documents; status "NONE" is a row that does not exist yet.

Nothing == [v \in Variants |-> 0]

OrderRows    == [status : OrderStatuses \cup {"NONE"}, pay : PaymentStatuses,
                 committed : BOOLEAN, source : {"POS", "ONLINE"},
                 items : [Variants -> Nat]]
ReturnRows   == [status : ReturnStatuses \cup {"NONE"}, order : Orders \cup {"NONE"},
                 variant : Variants \cup {"NONE"}, qty : Nat]
PurchaseRows == [status : PurchaseStatuses \cup {"NONE"}, items : [Variants -> Nat]]

NoOrder    == [status |-> "NONE", pay |-> "UNPAID", committed |-> FALSE,
               source |-> "POS", items |-> Nothing]
NoReturn   == [status |-> "NONE", order |-> "NONE", variant |-> "NONE", qty |-> 0]
NoPurchase == [status |-> "NONE", items |-> Nothing]

OrderRef(o)    == [kind |-> "ORDER", id |-> o]
CancelRef(o)   == [kind |-> "ORDER_CANCELLATION", id |-> o]
ReturnRef(r)   == [kind |-> "RETURN", id |-> r]
PurchaseRef(p) == [kind |-> "PURCHASE", id |-> p]
=============================================================================
