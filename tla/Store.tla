------------------------------- MODULE Store -------------------------------
(***************************************************************************)
(* The services that move stock, each request taken as one atomic step:    *)
(* orders (POS tickets, POS sales, online checkouts, status changes,       *)
(* cancellations), returns, purchases and manual adjustments.  This is the *)
(* behaviour the code has when transactions do not overlap, and what a     *)
(* caller expects of it when they do.                                      *)
(*                                                                         *)
(* A request the code refuses changes nothing, so it is no step here.      *)
(* Refusals that depend on the caller or the clock (ownership, the         *)
(* cancellation and return windows) are covered by the step not being      *)
(* taken.                                                                  *)
(***************************************************************************)
EXTENDS StockLedger, FiniteSets, Functions

CONSTANTS
    Baskets,                     \* the line items a request may carry
    Amounts,                     \* quantities and targets of manual adjustments
    MaxAdjustments               \* bound on the number of manual adjustments

ASSUME BasketsAssumption ==
    /\ Baskets \subseteq [Variants -> Nat]
    /\ \A b \in Baskets : \E v \in Variants : b[v] > 0

ASSUME AmountsAssumption == Amounts \subseteq Nat /\ MaxAdjustments \in Nat

VARIABLES orders, returns, purchases, adjustments

vars == <<inventory, orders, returns, purchases, adjustments>>

-----------------------------------------------------------------------------
Init ==
    /\ LedgerInit
    /\ orders = [o \in Orders |-> NoOrder]
    /\ returns = [r \in Returns |-> NoReturn]
    /\ purchases = [p \in Purchases |-> NoPurchase]
    /\ adjustments = 0

-----------------------------------------------------------------------------
\* Stock.

\* applyChange for every line; one line refused rolls the request back.
Move(lines, type, ref) ==
    /\ \A v \in Variants : lines[v] > 0 => Accepts(inventory[v], type, lines[v])
    /\ inventory' = [v \in Variants |->
                        IF lines[v] > 0
                        THEN Applied(inventory[v], type, lines[v], ref)
                        ELSE inventory[v]]

CommitStock(o) ==
    IF orders[o].committed THEN UNCHANGED inventory
                           ELSE Move(orders[o].items, "SALE", OrderRef(o))

\* Bug: puts the lines back without asking whether they were taken.
ReleaseUnasked(o) == Move(orders[o].items, "ADJUSTMENT_IN", CancelRef(o))

ReleaseStock(o) ==
    IF orders[o].committed THEN Move(orders[o].items, "ADJUSTMENT_IN", CancelRef(o))
                           ELSE UNCHANGED inventory

-----------------------------------------------------------------------------
\* Orders.

Insert(o, source, status, pay, committed, items) ==
    /\ orders[o].status = "NONE"
    /\ orders' = [orders EXCEPT ![o] =
                    [status |-> status, pay |-> pay, committed |-> committed,
                     source |-> source, items |-> items]]
    /\ UNCHANGED <<returns, purchases, adjustments>>

\* PosService.createOrder without completeNow: a ticket holds no stock.
OpenTicket(o, items) ==
    /\ Insert(o, "POS", "PENDING", "UNPAID", FALSE, items)
    /\ UNCHANGED inventory

\* PosService.createOrder with completeNow.
SellNow(o, items) ==
    /\ Insert(o, "POS", "COMPLETED", "PAID", TRUE, items)
    /\ Move(items, "SALE", OrderRef(o))

\* CustomerOrderService.create.
CheckOut(o, items) ==
    /\ Insert(o, "ONLINE", "PENDING", "UNPAID", TRUE, items)
    /\ Move(items, "SALE", OrderRef(o))

Write(o, status, pay, committed) ==
    /\ orders' = [orders EXCEPT ![o] = [@ EXCEPT !.status = status, !.pay = pay,
                                                 !.committed = committed]]
    /\ UNCHANGED <<returns, purchases, adjustments>>

\* Bug: the transition is not asserted.
CompleteAnything(o) ==
    /\ orders[o].source = "POS"
    /\ orders[o].status \notin {"NONE", "COMPLETED"}
    /\ CommitStock(o)
    /\ Write(o, "COMPLETED", "PAID", TRUE)

\* PosService.complete.
Complete(o) ==
    /\ orders[o].source = "POS"
    /\ orders[o].status \notin {"NONE", "COMPLETED"}
    /\ MayMove(orders[o].status, "COMPLETED")
    /\ CommitStock(o)
    /\ Write(o, "COMPLETED", "PAID", TRUE)

\* Bug: completing an unpaid order forgets the payment.
PayOnlyWhenPaid(pay, next) == IF next = "PAID" THEN "PAID" ELSE pay

\* updateStatus to CONFIRMED, PAID or COMPLETED: each commits the stock.
PayAfter(pay, next) ==
    CASE next = "PAID"      -> "PAID"
      [] next = "COMPLETED" -> (IF pay = "UNPAID" THEN "PAID" ELSE pay)
      [] next = "CONFIRMED" -> pay

Advance(o, next) ==
    /\ orders[o].status # "NONE"
    /\ next \in Transitions[orders[o].status]
    /\ CommitStock(o)
    /\ Write(o, next, PayAfter(orders[o].pay, next), TRUE)

\* updateStatus to REFUNDED: money only.
Refund(o) ==
    /\ orders[o].status # "NONE"
    /\ "REFUNDED" \in Transitions[orders[o].status]
    /\ Write(o, "REFUNDED", "REFUNDED", orders[o].committed)
    /\ UNCHANGED inventory

\* Bug: a pending return does not stand in the way of a cancellation.
HasAcceptedReturns(o) == \E r \in Returns : /\ returns[r].order = o
                                            /\ returns[r].status = "ACCEPTED"

HasOpenReturns(o) == \E r \in Returns : /\ returns[r].order = o
                                        /\ returns[r].status \in OpenReturn

\* OrderService.cancel, which the POS and the customer reach as well, and
\* updateStatus to CANCELLED.
Cancel(o) ==
    /\ orders[o].status \in Cancellable
    /\ MayMove(orders[o].status, "CANCELLED")
    /\ ~HasOpenReturns(o)
    /\ ReleaseStock(o)
    /\ Write(o, "CANCELLED",
             IF orders[o].pay = "PAID" THEN "REFUNDED" ELSE orders[o].pay, FALSE)

-----------------------------------------------------------------------------
\* Returns.

\* Bug: only accepted returns count against the line.
AlreadyAccepted(o, v) ==
    LET prior == {r \in Returns : /\ returns[r].order = o
                                  /\ returns[r].variant = v
                                  /\ returns[r].status = "ACCEPTED"}
    IN  SumFunctionOnSet([r \in Returns |-> returns[r].qty], prior)

AlreadyReturned(o, v) ==
    LET prior == {r \in Returns : /\ returns[r].order = o
                                  /\ returns[r].variant = v
                                  /\ returns[r].status \in OpenReturn}
    IN  SumFunctionOnSet([r \in Returns |-> returns[r].qty], prior)

Eligible(o, v) == orders[o].items[v] - AlreadyReturned(o, v)

\* ReturnService.create: a row per variant asked for, all of them or none;
\* row picks the fresh id of each.  With accept the units come back at once.
CreateReturn(o, lines, accept) ==
    LET asked == {v \in Variants : lines[v] > 0}
        free  == {r \in Returns : returns[r].status = "NONE"}
    IN  /\ orders[o].status \in Returnable
        /\ \A v \in asked : orders[o].items[v] > 0 /\ lines[v] <= Eligible(o, v)
        /\ \E row \in [asked -> free] :
             /\ \A v, w \in asked : row[v] = row[w] => v = w
             /\ returns' = [r \in Returns |->
                  IF \E v \in asked : row[v] = r
                  THEN LET v == CHOOSE v \in asked : row[v] = r
                       IN  [status |-> IF accept THEN "ACCEPTED" ELSE "REQUESTED",
                            order |-> o, variant |-> v, qty |-> lines[v]]
                  ELSE returns[r]]
             /\ inventory' = [v \in Variants |->
                  IF accept /\ v \in asked
                  THEN Applied(inventory[v], "RETURN", lines[v], ReturnRef(row[v]))
                  ELSE inventory[v]]
        /\ UNCHANGED <<orders, purchases, adjustments>>

\* Bug: the units of the order line come back, not those of the return.
AcceptWholeLine(r) ==
    /\ returns[r].status = "REQUESTED"
    /\ returns' = [returns EXCEPT ![r].status = "ACCEPTED"]
    /\ LET v == returns[r].variant
       IN  inventory' = [inventory EXCEPT ![v] =
               Applied(@, "RETURN", orders[returns[r].order].items[v], ReturnRef(r))]
    /\ UNCHANGED <<orders, purchases, adjustments>>

\* Bug: the status is not asked for, so a second acceptance goes through.
AcceptAgain(r) ==
    /\ returns[r].status \in OpenReturn
    /\ returns' = [returns EXCEPT ![r].status = "ACCEPTED"]
    /\ inventory' = [inventory EXCEPT ![returns[r].variant] =
                       Applied(@, "RETURN", returns[r].qty, ReturnRef(r))]
    /\ UNCHANGED <<orders, purchases, adjustments>>

\* ReturnService.accept: it reads the return's status, never the order's.
AcceptReturn(r) ==
    /\ returns[r].status = "REQUESTED"
    /\ returns' = [returns EXCEPT ![r].status = "ACCEPTED"]
    /\ inventory' = [inventory EXCEPT ![returns[r].variant] =
                       Applied(@, "RETURN", returns[r].qty, ReturnRef(r))]
    /\ UNCHANGED <<orders, purchases, adjustments>>

RejectReturn(r) ==
    /\ returns[r].status = "REQUESTED"
    /\ returns' = [returns EXCEPT ![r].status = "REJECTED"]
    /\ UNCHANGED <<inventory, orders, purchases, adjustments>>

-----------------------------------------------------------------------------
\* Purchases.

\* PurchaseService.create; receiveNow takes the goods in at once.
CreatePurchase(p, items, receiveNow) ==
    /\ purchases[p].status = "NONE"
    /\ purchases' = [purchases EXCEPT ![p] =
                       [status |-> IF receiveNow THEN "RECEIVED" ELSE "DRAFT",
                        items |-> items]]
    /\ IF receiveNow THEN Move(items, "PURCHASE", PurchaseRef(p))
                     ELSE UNCHANGED inventory
    /\ UNCHANGED <<orders, returns, adjustments>>

ReceivePurchase(p) ==
    /\ purchases[p].status = "DRAFT"
    /\ Move(purchases[p].items, "PURCHASE", PurchaseRef(p))
    /\ purchases' = [purchases EXCEPT ![p].status = "RECEIVED"]
    /\ UNCHANGED <<orders, returns, adjustments>>

\* Bug: a received purchase can be cancelled.
CancelAnyPurchase(p) ==
    /\ purchases[p].status \in {"DRAFT", "RECEIVED"}
    /\ purchases' = [purchases EXCEPT ![p].status = "CANCELLED"]
    /\ UNCHANGED <<inventory, orders, returns, adjustments>>

CancelPurchase(p) ==
    /\ purchases[p].status = "DRAFT"
    /\ purchases' = [purchases EXCEPT ![p].status = "CANCELLED"]
    /\ UNCHANGED <<inventory, orders, returns, adjustments>>

-----------------------------------------------------------------------------
\* Manual adjustments.

ManualMove(v, type, q) ==
    /\ adjustments < MaxAdjustments
    /\ adjustments' = adjustments + 1
    /\ Accepts(inventory[v], type, q)
    /\ inventory' = [inventory EXCEPT ![v] = Applied(@, type, q, Manual)]
    /\ UNCHANGED <<orders, returns, purchases>>

\* InventoryService.adjust with a relative quantity.
Adjust(v, type, q) == ManualMove(v, type, q)

\* Bug: the quantity is written directly, past the ledger.
OverwriteQuantity(v, target) ==
    /\ target # inventory[v].qty
    /\ adjustments < MaxAdjustments
    /\ adjustments' = adjustments + 1
    /\ inventory' = [inventory EXCEPT ![v].qty = target]
    /\ UNCHANGED <<orders, returns, purchases>>

\* InventoryService.adjust with an absolute target; the target the row
\* already has writes nothing.
SetAbsolute(v, target) ==
    /\ target # inventory[v].qty
    /\ ManualMove(v, IF target > inventory[v].qty THEN "ADJUSTMENT_IN"
                                                  ELSE "ADJUSTMENT_OUT",
                  Magnitude(target - inventory[v].qty))

-----------------------------------------------------------------------------
OrderStep(o) ==
    \/ \E items \in Baskets : OpenTicket(o, items)
    \/ \E items \in Baskets : SellNow(o, items)
    \/ \E items \in Baskets : CheckOut(o, items)
    \/ Complete(o)
    \/ \E next \in {"CONFIRMED", "PAID", "COMPLETED"} : Advance(o, next)
    \/ Refund(o)
    \/ Cancel(o)
    \/ \E lines \in Baskets, accept \in BOOLEAN : CreateReturn(o, lines, accept)

ReturnStep(r) == AcceptReturn(r) \/ RejectReturn(r)

PurchaseStep(p) ==
    \/ \E items \in Baskets, now \in BOOLEAN : CreatePurchase(p, items, now)
    \/ ReceivePurchase(p)
    \/ CancelPurchase(p)

ManualStep(v) ==
    \/ \E type \in {"ADJUSTMENT_IN", "ADJUSTMENT_OUT", "DAMAGE"}, q \in Amounts :
          Adjust(v, type, q)
    \/ \E target \in Amounts : SetAbsolute(v, target)

Next ==
    \/ \E o \in Orders : OrderStep(o)
    \/ \E r \in Returns : ReturnStep(r)
    \/ \E p \in Purchases : PurchaseStep(p)
    \/ \E v \in Variants : ManualStep(v)

Spec == Init /\ [][Next]_vars

-----------------------------------------------------------------------------
\* Properties.

Cites(e, type, ref) == e.type = type /\ e.ref = ref

\* Some movement of variant v is of this type and cites this document.
Moved(v, type, ref) ==
    \E i \in DOMAIN inventory[v].log : Cites(inventory[v].log[i], type, ref)

\* Every row has the shape of its table.
TypeOK ==
    /\ inventory \in [Variants -> [qty : Nat, log : Seq(Entries)]]
    /\ orders \in [Orders -> OrderRows]
    /\ returns \in [Returns -> ReturnRows]
    /\ purchases \in [Purchases -> PurchaseRows]
    /\ adjustments \in 0..MaxAdjustments

\* The ledger accounts for the stock: the entries of a variant start from
\* zero, each continues where the one before it stopped, and the last one
\* ends at the quantity the inventory row holds.
LedgerAccountsForStock ==
    \A v \in Variants :
        LET log == inventory[v].log
        IN  /\ inventory[v].qty = IF log = << >> THEN 0 ELSE log[Len(log)].new
            /\ \A i \in DOMAIN log :
                  /\ log[i].prev = IF i = 1 THEN 0 ELSE log[i - 1].new
                  /\ log[i].new = log[i].prev + log[i].delta

\* A document moves the stock of a variant at most once in each direction,
\* however often it is completed, cancelled, accepted or received.
MovedAtMostOnce ==
    \A v \in Variants : \A i, j \in DOMAIN inventory[v].log :
        LET e == inventory[v].log[i]
            f == inventory[v].log[j]
        IN  e.ref # Manual /\ Cites(f, e.type, e.ref) => i = j

\* The entry e of variant v says what the document it cites says.
Matches(v, e) ==
    /\ \A o \in Orders :
          /\ e.ref = OrderRef(o)  => e.type = "SALE" /\ e.delta = -orders[o].items[v]
          /\ e.ref = CancelRef(o) => e.type = "ADJUSTMENT_IN" /\ e.delta = orders[o].items[v]
    /\ \A r \in Returns :
          e.ref = ReturnRef(r) => e.type = "RETURN" /\ e.delta = returns[r].qty
    /\ \A p \in Purchases :
          e.ref = PurchaseRef(p) => e.type = "PURCHASE" /\ e.delta = purchases[p].items[v]

\* Every entry matches its document as the document stands now, however long
\* ago it was booked: what was sold, put back, returned and received is what
\* the order, the return and the purchase list.
EntriesMatchDocuments ==
    \A v \in Variants : \A i \in DOMAIN inventory[v].log : Matches(v, inventory[v].log[i])

\* The stockCommitted flag tells the truth about the ledger: an order holds
\* stock exactly when its lines were sold and have not been put back.
CommittedMeansSold ==
    \A o \in Orders, v \in Variants :
        LET sold     == Moved(v, "SALE", OrderRef(o))
            restored == Moved(v, "ADJUSTMENT_IN", CancelRef(o))
        IN  /\ restored => sold /\ orders[o].status = "CANCELLED"
            /\ orders[o].items[v] > 0 =>
                  (orders[o].committed <=> sold /\ ~restored)

\* Status, payment and stock agree: what has been confirmed, paid, completed
\* or refunded holds stock, what is cancelled holds none and keeps no money.
RowAgrees(row) ==
    /\ row.status \in {"CONFIRMED", "PAID", "COMPLETED", "REFUNDED"} => row.committed
    /\ row.status \in {"NONE", "CANCELLED"} => ~row.committed
    /\ row.status \in {"NONE", "PENDING", "CONFIRMED"} => row.pay = "UNPAID"
    /\ row.status \in {"PAID", "COMPLETED"} => row.pay = "PAID"
    /\ row.status = "REFUNDED" => row.pay = "REFUNDED"
    /\ row.status = "CANCELLED" => row.pay \in {"UNPAID", "REFUNDED"}

\* For every order its row agrees with itself in that way.
StatusPaymentStockAgree == \A o \in Orders : RowAgrees(orders[o])

\* Nobody gets back more units than the order sold: accepted and pending
\* returns together stay within the line, and the ledger agrees.
ReturnsWithinOrder ==
    \A o \in Orders, v \in Variants : AlreadyReturned(o, v) <= orders[o].items[v]

\* The same units are never credited twice: an order with an accepted or a
\* pending return is not cancelled, and a return has moved the stock of the
\* variant it names exactly when it is accepted.
NoDoubleCredit ==
    /\ \A o \in Orders : HasOpenReturns(o) =>
            orders[o].committed /\ orders[o].status \in {"PAID", "COMPLETED", "REFUNDED"}
    /\ \A r \in Returns, v \in Variants :
            Moved(v, "RETURN", ReturnRef(r))
                <=> returns[r].status = "ACCEPTED" /\ returns[r].variant = v

\* Goods are taken in exactly when their purchase says so.
ReceivedMeansStocked ==
    \A p \in Purchases, v \in Variants :
        Moved(v, "PURCHASE", PurchaseRef(p))
            <=> purchases[p].status = "RECEIVED" /\ purchases[p].items[v] > 0

\* The inductive invariant: the rows of unmade documents are blank, returns
\* name a line, and what was sold is on the order.
RowsAreLinked ==
    /\ \A o \in Orders : orders[o].status = "NONE" => orders[o].items = Nothing
    /\ \A o \in Orders, v \in Variants :
          Moved(v, "SALE", OrderRef(o)) => orders[o].items[v] > 0
    /\ \A r \in Returns : returns[r].status # "NONE" =>
          /\ returns[r].order \in Orders
          /\ returns[r].variant \in Variants
          /\ returns[r].qty > 0

IInv ==
    /\ TypeOK
    /\ LedgerAccountsForStock
    /\ MovedAtMostOnce
    /\ EntriesMatchDocuments
    /\ CommittedMeansSold
    /\ StatusPaymentStockAgree
    /\ NoDoubleCredit
    /\ ReceivedMeansStocked
    /\ RowsAreLinked

\* A step leaves decided documents and the lines of every order alone.
DecidedRowsKept ==
    /\ \A o \in Orders :
          /\ orders[o].status \in Terminal => orders'[o] = orders[o]
          /\ orders[o].status # "NONE" => orders'[o].items = orders[o].items
    /\ \A r \in Returns :
          returns[r].status \in {"ACCEPTED", "REJECTED"} => returns'[r] = returns[r]
    /\ \A p \in Purchases :
          purchases[p].status \in {"RECEIVED", "CANCELLED"} => purchases'[p] = purchases[p]

\* A cancelled or refunded order and a decided return or purchase are never
\* written again, and the line items of an order never change.
TerminalRowsAreFinal == [][DecidedRowsKept]_vars

\* The services implement the promise of InventoryService.
StockIsLedgered == LedgerSpec

-----------------------------------------------------------------------------
\* Two comments of config/constants.ts that the services do not keep (README,
\* section 8).

\* "Statuses after which no further stock movement or mutation is possible":
\* an order in a terminal status moves no stock any more, by itself or by a
\* return against it.
TerminalOrdersMoveNoStock ==
    [][\A o \in Orders : orders[o].status \in Terminal =>
          \A v \in Variants : \A i \in DOMAIN inventory'[v].log :
              \/ i \in DOMAIN inventory[v].log
              \/ /\ inventory'[v].log[i].ref \notin {OrderRef(o), CancelRef(o)}
                 /\ \A r \in Returns : returns'[r].order = o =>
                       inventory'[v].log[i].ref # ReturnRef(r)
      ]_vars

\* "Orders in these states still hold committed stock and may be cancelled".
CancellableOrdersHoldStock ==
    \A o \in Orders : orders[o].status \in Cancellable => orders[o].committed
=============================================================================
