---------------------------- MODULE CartService -----------------------------
(***************************************************************************)
(* The cart a customer keeps on the server, and the checkout that turns it *)
(* into an order (services/customerOrder.service.ts), one statement at a   *)
(* time.  The rows are those of one customer; every client of ReadCommitted*)
(* is a call of the API.  Cart operations are single statements outside a  *)
(* transaction; a checkout is one transaction, begun again when it fails   *)
(* for a passing reason.                                                   *)
(*                                                                         *)
(* What createOrderInTx does to stock is in OrderTx.  Here it takes the    *)
(* order or refuses it, by what the shop can sell at that moment.  The row *)
(* of the cart itself exists: the first read of the page has made it.      *)
(***************************************************************************)
EXTENDS ReadCommitted, Naturals, Sequences

CONSTANTS
    Variants,
    Filled,       \* the lines an earlier visit left in the cart, one unit each
    Traded,       \* the variants whose availability changes
    MaxQuantity,  \* bound on the units a line is set to
    MaxAttempts   \* the attempts of runInTransaction

ASSUME CartAssumption ==
    /\ Filled \subseteq Variants /\ Traded \subseteq Variants
    /\ MaxQuantity \in Nat \ {0} /\ MaxAttempts \in Nat \ {0}

VARIABLES
    rows,     \* cart_items: a cell per variant, with the id of the row
    lastId,   \* the last id given to a row
    offered,  \* the variants that are active and in stock
    orders,   \* the orders made, with the cart rows each was made from
    serving   \* what the server is doing for each call

cartVars == <<rows, lastId, offered, orders, serving>>

NoRow == [id |-> 0, qty |-> 0]
Held  == {v \in Variants : rows[v].com # NoRow}  \* what a SELECT finds

-----------------------------------------------------------------------------
\* CartService.get: quantities, and whether every line can be bought.
View == [lines |-> [v \in Variants |-> rows[v].com.qty],
         ready |-> Held # {} /\ Held \subseteq offered]

EmptyView == [lines |-> [v \in Variants |-> 0], ready |-> FALSE]

Quiet == [op |-> "NONE", variants |-> {}, qty |-> 0, pc |-> "idle", item |-> 0,
          read |-> [v \in Variants |-> NoRow], attempt |-> 0,
          reply |-> "none", view |-> EmptyView]

CartInit ==
    /\ rows = [v \in Variants |-> Cell(IF v \in Filled THEN [id |-> 1, qty |-> 1] ELSE NoRow)]
    /\ lastId = 1
    /\ offered = Variants
    /\ orders = << >>
    /\ serving = [c \in Clients |-> Quiet]

\* The route that receives the request; a quantity of zero deletes the line.
FirstStep(op, q) ==
    CASE op = "ADD"                -> "add"
      [] op = "SET" /\ q > 0       -> "find"
      [] op = "CHECKOUT"           -> "cart"
      [] OTHER                     -> "delete"

Received(op, vs, q) ==
    [Quiet EXCEPT !.op = op, !.variants = vs, !.qty = q, !.pc = FirstStep(op, q),
                  !.attempt = IF op = "CHECKOUT" THEN 1 ELSE 0]

At(c, label)    == serving[c].pc = label
Goto(c, label)  == serving' = [serving EXCEPT ![c].pc = label]
Over(c, r)      == [Quiet EXCEPT !.op = serving[c].op, !.pc = "over", !.reply = r]
Reply(c, r)     == serving' = [serving EXCEPT ![c] = Over(c, r)]
\* A statement outside a transaction writes the committed row.
Write(v, row)   == rows' = [rows EXCEPT ![v] = Cell(row)]

-----------------------------------------------------------------------------
\* The operations of CartService.

\* addItem refuses an inactive variant, not one that is only out of stock; it
\* may have read the variant long before the upsert, an INSERT ... ON CONFLICT
\* DO UPDATE that waits for a row being deleted.
AddItem(c, v) ==
    LET row == rows[v].com
    IN  /\ At(c, "add") /\ v \in serving[c].variants
        /\ Free(rows[v], c)
        /\ Write(v, IF row = NoRow THEN [id |-> lastId + 1, qty |-> serving[c].qty]
                    ELSE [row EXCEPT !.qty = @ + serving[c].qty])
        /\ lastId' = IF row = NoRow THEN lastId + 1 ELSE lastId
        /\ Goto(c, "get")
        /\ UNCHANGED <<offered, orders>>

RefuseItem(c) ==
    /\ At(c, "add") /\ ~(serving[c].variants \subseteq offered)
    /\ Reply(c, "refused")
    /\ UNCHANGED <<rows, lastId, offered, orders>>

\* setItemQuantity finds the row, then updates it by its id.
FindItem(c, v) ==
    /\ At(c, "find") /\ v \in serving[c].variants
    /\ IF v \in Held
       THEN serving' = [serving EXCEPT ![c].item = rows[v].com.id, ![c].pc = "update"]
       ELSE Reply(c, "refused")
    /\ UNCHANGED <<rows, lastId, offered, orders>>

UpdateItem(c, v) ==
    /\ At(c, "update") /\ v \in serving[c].variants
    /\ \/ /\ rows[v].com.id = serving[c].item /\ Free(rows[v], c)
          /\ Write(v, [rows[v].com EXCEPT !.qty = serving[c].qty])
          /\ Goto(c, "get")
       \/ /\ rows[v].com.id # serving[c].item
          /\ Reply(c, "refused")
          /\ UNCHANGED rows
    /\ UNCHANGED <<lastId, offered, orders>>

\* removeItem, clear and setItemQuantity with nothing.
DeleteItems(c) ==
    LET found == serving[c].variants \cap Held
    IN  /\ At(c, "delete")
        /\ \A v \in found : Free(rows[v], c)
        /\ rows' = [v \in Variants |-> IF v \in found THEN Cell(NoRow) ELSE rows[v]]
        /\ Goto(c, "get")
        /\ UNCHANGED <<lastId, offered, orders>>

\* Every operation answers with the cart as it is then.
Get(c) ==
    /\ At(c, "get")
    /\ serving' = [serving EXCEPT ![c] = [Over(c, "done") EXCEPT !.view = View]]
    /\ UNCHANGED <<rows, lastId, offered, orders>>

-----------------------------------------------------------------------------
\* CustomerOrderService.create with fromCart.

ReadCart(c) ==
    /\ At(c, "cart")
    /\ IF Held = {} THEN Reply(c, "refused")
       ELSE serving' = [serving EXCEPT ![c].read = Snapshot(rows), ![c].pc = "order"]
    /\ UNCHANGED <<rows, lastId, offered, orders>>

Bought(c) == {v \in Variants : serving[c].read[v] # NoRow}

\* createOrderInTx: the whole order, or a refusal that undoes everything.
CreateOrder(c) ==
    /\ At(c, "order")
    /\ IF Bought(c) \subseteq offered THEN Goto(c, "empty") ELSE Reply(c, "refused")
    /\ UNCHANGED <<rows, lastId, offered, orders>>

\* Bug: the rows are deleted outside the transaction.
EmptyCartAtOnce(c) ==
    /\ At(c, "empty")
    /\ rows' = [v \in Variants |-> Cell(NoRow)]
    /\ Goto(c, "commit")
    /\ UNCHANGED <<lastId, offered, orders>>

\* deleteMany takes whatever is in the cart by now.
EmptyCart(c) ==
    /\ At(c, "empty")
    /\ \A v \in Held : Free(rows[v], c)
    /\ rows' = [v \in Variants |-> IF v \in Held THEN Written(rows[v], c, NoRow) ELSE rows[v]]
    /\ Goto(c, "commit")
    /\ UNCHANGED <<lastId, offered, orders>>

\* The audit entry is written after the commit: the call may fail although
\* the order stands.
CommitOrder(c) ==
    /\ At(c, "commit")
    /\ rows' = Committed(rows, c)
    /\ orders' = Append(orders, serving[c].read)
    /\ Reply(c, "done") \/ Reply(c, "failed")
    /\ UNCHANGED <<lastId, offered>>

\* A deadlock, a timeout or a lost connection: the transaction is undone, and
\* run again unless it was the last attempt.
Abort(c) ==
    /\ serving[c].pc \in {"cart", "order", "empty", "commit"}
    /\ rows' = RolledBack(rows, c)
    /\ IF serving[c].attempt < MaxAttempts
       THEN serving' = [serving EXCEPT ![c] = [Received("CHECKOUT", {}, 0) EXCEPT
                                                 !.attempt = serving[c].attempt + 1]]
       ELSE Reply(c, "failed")
    /\ UNCHANGED <<lastId, offered, orders>>

\* Others buy, and the shop restocks and withdraws.
Trade ==
    /\ \E v \in Traded : offered' \in {offered \cup {v}, offered \ {v}}
    /\ offered' # offered
    /\ UNCHANGED <<rows, lastId, orders, serving>>

\* One step of the server for a call, other than a failure.
Serve(c) ==
    \/ \E v \in Variants : AddItem(c, v)
    \/ RefuseItem(c)
    \/ \E v \in Variants : FindItem(c, v)
    \/ \E v \in Variants : UpdateItem(c, v)
    \/ DeleteItems(c) \/ Get(c)
    \/ ReadCart(c) \/ CreateOrder(c) \/ EmptyCart(c) \/ CommitOrder(c)
=============================================================================
