---------------------------- MODULE OrderStates ----------------------------
(***************************************************************************)
(* The enumerations and tables of src/src/config/constants.ts that the     *)
(* services consult: statuses, the transition table of an order and the    *)
(* direction of each kind of stock movement.  Pure definitions, no state.  *)
(***************************************************************************)
EXTENDS Integers

MovementTypes == {"PURCHASE", "SALE", "RETURN",
                  "ADJUSTMENT_IN", "ADJUSTMENT_OUT", "DAMAGE"}

\* Types that add stock; everything else removes stock.
Inbound == {"PURCHASE", "RETURN", "ADJUSTMENT_IN"}

OrderStatuses == {"PENDING", "CONFIRMED", "PAID", "COMPLETED",
                  "CANCELLED", "REFUNDED"}

Transitions ==
    [PENDING   |-> {"CONFIRMED", "PAID", "COMPLETED", "CANCELLED"},
     CONFIRMED |-> {"PAID", "COMPLETED", "CANCELLED"},
     PAID      |-> {"COMPLETED", "CANCELLED", "REFUNDED"},
     COMPLETED |-> {"REFUNDED", "CANCELLED"},
     CANCELLED |-> {},
     REFUNDED  |-> {}]

Terminal    == {"CANCELLED", "REFUNDED"}
Cancellable == {"PENDING", "CONFIRMED", "PAID", "COMPLETED"}
Returnable  == {"PAID", "COMPLETED"}

PaymentStatuses  == {"UNPAID", "PAID", "REFUNDED"}
PurchaseStatuses == {"DRAFT", "RECEIVED", "CANCELLED"}
ReturnStatuses   == {"REQUESTED", "ACCEPTED", "REJECTED"}

\* Return rows that count against what an order may still return, and that
\* stand in the way of cancelling it.
OpenReturn == {"REQUESTED", "ACCEPTED"}

\* assertTransition: writing the status an order already has passes.
MayMove(from, to) == from = to \/ to \in Transitions[from]

Signed(type, quantity) == IF type \in Inbound THEN quantity ELSE -quantity
=============================================================================
