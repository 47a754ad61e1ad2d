----------------------------- MODULE PurchaseTx -----------------------------
(***************************************************************************)
(* Purchases and manual adjustments statement by statement, in the         *)
(* conventions of OrderTx: a label stands before the next statement, a     *)
(* refusal, a transient failure and a crash are all Rollback.              *)
(*                                                                         *)
(* Suppliers and costs are left out: they only refuse.                     *)
(***************************************************************************)
EXTENDS Tables, ReadCommitted, FiniteSets, Naturals

CONSTANTS
    Baskets,      \* the line items of a purchase
    Amounts,      \* quantities and targets of adjustments
    MaxRequests   \* bound on the number of requests

ASSUME BasketsAssumption == Baskets \subseteq [Variants -> Nat]

ASSUME AmountsAssumption == Amounts \subseteq Nat /\ MaxRequests \in Nat

VARIABLES
    inventory, purchases,  \* the tables
    sequence,              \* who holds the row of the purchase sequence
    client,                \* what each client is doing
    made                   \* the number of requests made

vars == <<inventory, purchases, sequence, client, made>>

-----------------------------------------------------------------------------
AdjustmentTypes == {"ADJUSTMENT_IN", "ADJUSTMENT_OUT", "DAMAGE"}

\* now is receiveNow, amount the quantity or the target of an adjustment.
Blank == [op |-> "NONE", purchase |-> "NONE", items |-> Nothing, now |-> FALSE,
          variant |-> "NONE", type |-> "NONE", amount |-> 0]

Requests ==
    [op : {"CREATE"}, purchase : Purchases, items : Baskets, now : BOOLEAN,
     variant : {"NONE"}, type : {"NONE"}, amount : {0}]
    \cup [op : {"RECEIVE", "CANCEL"}, purchase : Purchases, items : {Nothing}, now : {FALSE},
          variant : {"NONE"}, type : {"NONE"}, amount : {0}]
    \cup [op : {"ADJUST"}, purchase : {"NONE"}, items : {Nothing}, now : {FALSE},
          variant : Variants, type : AdjustmentTypes, amount : Amounts]
    \cup [op : {"SET"}, purchase : {"NONE"}, items : {Nothing}, now : {FALSE},
          variant : Variants, type : {"NONE"}, amount : Amounts]

\* before is the quantity as adjust first read it, type and qty the movement
\* it has decided on, todo the lines still to be taken in.
Idle == [pc |-> "idle", req |-> Blank, before |-> 0, type |-> "NONE", qty |-> 0,
         todo |-> {}]

Init ==
    /\ inventory = [v \in Variants |-> Cell(Opened(v))]
    /\ purchases = [d \in Purchases |-> Cell(NoPurchase)]
    /\ sequence = Nobody
    /\ client = [p \in Clients |-> Idle]
    /\ made = 0

At(p, label) == client[p].pc = label
Op(p)        == client[p].req.op
Purchase(p)  == See(purchases[client[p].req.purchase], p)

Goto(p, label) == client' = [client EXCEPT ![p].pc = label]
Reads == UNCHANGED <<inventory, purchases, sequence, made>>

\* UPDATE of the client's purchase, once it is free.
WritePurchase(p, status) ==
    /\ Free(purchases[client[p].req.purchase], p)
    /\ purchases' = [purchases EXCEPT ![client[p].req.purchase] =
                        Written(@, p, [See(@, p) EXCEPT !.status = status])]
    /\ UNCHANGED <<inventory, sequence, made>>

-----------------------------------------------------------------------------
Commit(p) ==
    /\ At(p, "commit")
    /\ inventory' = Committed(inventory, p)
    /\ purchases' = Committed(purchases, p)
    /\ sequence' = IF sequence = p THEN Nobody ELSE sequence
    /\ client' = [client EXCEPT ![p] = Idle]
    /\ UNCHANGED made

Rollback(p) ==
    /\ ~At(p, "idle")
    /\ inventory' = RolledBack(inventory, p)
    /\ purchases' = RolledBack(purchases, p)
    /\ sequence' = IF sequence = p THEN Nobody ELSE sequence
    /\ client' = [client EXCEPT ![p] = Idle]
    /\ UNCHANGED made

Begin(p, req) ==
    /\ At(p, "idle")
    /\ made < MaxRequests
    /\ made' = made + 1
    /\ client' = [client EXCEPT ![p].req = req,
                                ![p].pc = IF req.op = "CREATE" THEN "insert" ELSE "read"]
    /\ UNCHANGED <<inventory, purchases, sequence>>

-----------------------------------------------------------------------------
\* Purchases.

\* create: the number locks its sequence, then the DRAFT; receiveNow goes on
\* as receive does, on the row just written.
InsertPurchase(p) ==
    LET req == client[p].req
    IN  /\ At(p, "insert")
        /\ sequence \in {Nobody, p}
        /\ sequence' = p
        /\ purchases[req.purchase] = Cell(NoPurchase)
        /\ purchases' = [purchases EXCEPT ![req.purchase] =
                            Written(@, p, [status |-> "DRAFT", items |-> req.items])]
        /\ Goto(p, IF req.now THEN "read" ELSE "commit")
        /\ UNCHANGED <<inventory, made>>

\* The SELECT of receiveInTx, which refuses all but a DRAFT with items.
ReadForReceipt(p) ==
    /\ At(p, "read") /\ Op(p) \in {"CREATE", "RECEIVE"}
    /\ Purchase(p).status = "DRAFT"
    /\ \E v \in Variants : Purchase(p).items[v] > 0
    /\ client' = [client EXCEPT ![p].pc = "goods",
                                ![p].todo = {v \in Variants : Purchase(p).items[v] > 0}]
    /\ Reads

\* applyChange of one line.
TakeIn(p, v) ==
    LET qty  == Purchase(p).items[v]
        left == client[p].todo \ {v}
    IN  /\ At(p, "goods") /\ v \in client[p].todo
        /\ Free(inventory[v], p)
        /\ Accepts(See(inventory[v], p), "PURCHASE", qty)
        /\ inventory' = [inventory EXCEPT ![v] =
              Written(@, p, Applied(See(@, p), "PURCHASE", qty, PurchaseRef(client[p].req.purchase)))]
        /\ client' = [client EXCEPT ![p].todo = left,
                                    ![p].pc = IF left = {} THEN "flip" ELSE "goods"]
        /\ UNCHANGED <<purchases, sequence, made>>

\* Bug: the flip does not ask for a DRAFT.
FlipUnasked(p) ==
    /\ At(p, "flip")
    /\ WritePurchase(p, "RECEIVED")
    /\ Goto(p, "commit")

\* The guarded flip; on zero rows the receipt is refused and undone.
FlipReceived(p) ==
    /\ At(p, "flip")
    /\ Purchase(p).status = "DRAFT"
    /\ WritePurchase(p, "RECEIVED")
    /\ Goto(p, "commit")

\* cancel: the SELECT refuses all but a DRAFT, the UPDATE writes regardless.
ReadForCancel(p) ==
    /\ At(p, "read") /\ Op(p) = "CANCEL"
    /\ Purchase(p).status = "DRAFT"
    /\ Goto(p, "void")
    /\ Reads

WriteCancelled(p) ==
    /\ At(p, "void")
    /\ WritePurchase(p, "CANCELLED")
    /\ Goto(p, "commit")

-----------------------------------------------------------------------------
\* Adjustments.

\* adjust reads the quantity it will report and audit as the old one.
ReadForAdjust(p) ==
    LET req == client[p].req
    IN  /\ At(p, "read") /\ req.op \in {"ADJUST", "SET"}
        /\ client' = [client EXCEPT
                ![p].before = See(inventory[req.variant], p).qty,
                ![p].type   = req.type,
                ![p].qty    = req.amount,
                ![p].pc     = IF req.op = "SET" THEN "target" ELSE "adjust"]
        /\ Reads

\* setAbsolute reads it once more and asks for the difference; the quantity
\* already there needs no movement.
Difference(now, target) ==
    IF target > now THEN [type |-> "ADJUSTMENT_IN", qty |-> target - now]
                    ELSE [type |-> "ADJUSTMENT_OUT", qty |-> now - target]

SetTarget(p) ==
    LET req == client[p].req
        now == See(inventory[req.variant], p).qty
    IN  /\ At(p, "target")
        /\ client' = [client EXCEPT
                ![p].type = Difference(now, req.amount).type,
                ![p].qty  = Difference(now, req.amount).qty,
                ![p].pc   = IF now = req.amount THEN "commit" ELSE "adjust"]
        /\ Reads

\* Bug: the UPDATE is not guarded against a negative quantity.
AdjustUnguarded(p) ==
    LET c == client[p]
        v == c.req.variant
    IN  /\ At(p, "adjust")
        /\ Free(inventory[v], p)
        /\ inventory' = [inventory EXCEPT ![v] =
              Written(@, p, Applied(See(@, p), c.type, c.qty, Manual))]
        /\ Goto(p, "commit")
        /\ UNCHANGED <<purchases, sequence, made>>

\* applyChange of the adjustment.
AdjustStock(p) ==
    LET c == client[p]
        v == c.req.variant
    IN  /\ At(p, "adjust")
        /\ Free(inventory[v], p)
        /\ Accepts(See(inventory[v], p), c.type, c.qty)
        /\ inventory' = [inventory EXCEPT ![v] =
              Written(@, p, Applied(See(@, p), c.type, c.qty, Manual))]
        /\ Goto(p, "commit")
        /\ UNCHANGED <<purchases, sequence, made>>

-----------------------------------------------------------------------------
Step(p) ==
    \/ \E req \in Requests : Begin(p, req)
    \/ InsertPurchase(p)
    \/ ReadForReceipt(p)
    \/ \E v \in Variants : TakeIn(p, v)
    \/ FlipReceived(p)
    \/ ReadForCancel(p)
    \/ WriteCancelled(p)
    \/ ReadForAdjust(p)
    \/ SetTarget(p)
    \/ AdjustStock(p)
    \/ Commit(p)
    \/ Rollback(p)

Next == \E p \in Clients : Step(p)

Spec == Init /\ [][Next]_vars

-----------------------------------------------------------------------------
\* Properties.

Ledger == INSTANCE StockLedger WITH inventory <- Snapshot(inventory)

Rows == [qty : Nat, log : Seq(Entries)]

Labels == {"idle", "insert", "read", "goods", "flip", "void", "target", "adjust", "commit"}

\* Every cell holds rows of its table, and every client is at a label.
TypeOK ==
    /\ inventory \in [Variants -> Cells(Rows)]
    /\ purchases \in [Purchases -> Cells(PurchaseRows)]
    /\ sequence \in Clients \cup {Nobody}
    /\ client \in [Clients -> [pc : Labels, req : Requests \cup {Blank}, before : Nat,
                               type : AdjustmentTypes \cup {"NONE"}, qty : Nat,
                               todo : SUBSET Variants]]
    /\ made \in 0..MaxRequests

\* The entries of a row that cite a purchase.
Receipts(row, d) == {i \in DOMAIN row.log : row.log[i].ref = PurchaseRef(d)}

\* However receipts interleave with each other and with cancellations, the
\* goods of a purchase are taken in at most once: a RECEIVED one has exactly
\* its lines in the ledger, a DRAFT and an unmade one nothing.
GoodsTakenInOnce ==
    \A d \in Purchases, v \in Variants :
        LET row      == inventory[v].com
            receipts == Receipts(row, d)
            status   == purchases[d].com.status
        IN  /\ \A i, j \in receipts : i = j
            /\ status \in {"NONE", "DRAFT"} => receipts = {}
            /\ status = "RECEIVED" =>
                  (receipts # {} <=> purchases[d].com.items[v] > 0)
            /\ \A i \in receipts : row.log[i].delta = purchases[d].com.items[v]

\* Whatever interleaves, stock changes by ledgered movements only.
StockIsLedgered == Ledger!LedgerSpec

-----------------------------------------------------------------------------
\* The inductive invariant.

\* A client that takes in, or has taken in, the goods of its purchase, and
\* the variants it has done.
Receiving(p) ==
    /\ client[p].pc \in {"goods", "flip", "commit"}
    /\ \/ Op(p) = "CREATE" /\ client[p].req.now
       \/ Op(p) = "RECEIVE"

Taken(p) == {v \in Variants : Purchase(p).items[v] > 0} \ client[p].todo

\* A client stands at a statement of its request.
Placed(p) ==
    LET c == client[p]
    IN  /\ c.req.op = "NONE" <=> c.pc = "idle"
        /\ c.pc = "insert" => c.req.op = "CREATE"
        /\ c.pc \in {"goods", "flip"} => Op(p) \in {"CREATE", "RECEIVE"}
        /\ c.req.op = "CREATE" /\ c.pc \in {"read", "goods", "flip"} => c.req.now
        /\ c.pc = "void" => c.req.op = "CANCEL"
        /\ c.pc \in {"target", "adjust"} => c.req.op \in {"ADJUST", "SET"}
        /\ c.pc = "adjust" => c.type \in AdjustmentTypes
        /\ c.pc # "goods" => c.todo = {}

\* The variants a client holds are those it has taken in, each moved once, or
\* the one it has adjusted.
HoldsItsGoods(p) ==
    /\ Receiving(p) => \A v \in Taken(p) : inventory[v].by = p
    /\ \A v \in Variants : inventory[v].by = p =>
          LET cell == inventory[v]
          IN  /\ Ledger!OneMovement(cell.com, cell.live)
              /\ \/ /\ Receiving(p) /\ v \in Taken(p)
                    /\ cell.live = Applied(cell.com, "PURCHASE", Purchase(p).items[v],
                                           PurchaseRef(client[p].req.purchase))
                 \/ /\ At(p, "commit") /\ Op(p) \in {"ADJUST", "SET"}
                    /\ cell.live = Applied(cell.com, client[p].type, client[p].qty, Manual)

\* A client holds no purchase but its own, in the version its request writes.
HoldsItsPurchase(p) ==
    \A d \in Purchases : purchases[d].by = p =>
        LET c    == client[p]
            cell == purchases[d]
        IN  /\ c.req.purchase = d
            /\ \/ /\ Op(p) = "CREATE" /\ c.pc # "insert"
                  /\ cell.com = NoPurchase
                  /\ cell.live = [status |-> IF c.pc = "commit" /\ c.req.now
                                             THEN "RECEIVED" ELSE "DRAFT",
                                  items  |-> c.req.items]
               \/ /\ Op(p) = "RECEIVE" /\ c.pc = "commit"
                  /\ cell.com.status = "DRAFT"
                  /\ cell.live = [cell.com EXCEPT !.status = "RECEIVED"]
               \/ /\ Op(p) = "CANCEL" /\ c.pc = "commit"
                  /\ cell.com.status # "NONE"
                  /\ cell.live = [cell.com EXCEPT !.status = "CANCELLED"]

\* A client past its INSERT or its last UPDATE holds its purchase; one past
\* its SELECT has one that is there to stay.
KnowsItsPurchase(p) ==
    LET c == client[p]
        d == c.req.purchase
    IN  /\ Op(p) = "CREATE" /\ c.pc # "insert" => purchases[d].by = p
        /\ Op(p) \in {"RECEIVE", "CANCEL"} /\ c.pc # "read" => purchases[d].com.status # "NONE"
        /\ Op(p) \in {"RECEIVE", "CANCEL"} /\ c.pc = "commit" => purchases[d].by = p

Sound(p) == Placed(p) /\ HoldsItsGoods(p) /\ HoldsItsPurchase(p) /\ KnowsItsPurchase(p)

FreeRowsAreCommitted ==
    /\ \A v \in Variants : inventory[v].by = Nobody => inventory[v].live = inventory[v].com
    /\ \A d \in Purchases : purchases[d].by = Nobody => purchases[d].live = purchases[d].com

IInv ==
    /\ TypeOK
    /\ \A p \in Clients : Sound(p)
    /\ FreeRowsAreCommitted
    /\ GoodsTakenInOnce

-----------------------------------------------------------------------------
\* Promises that overlapping requests break (README, section 8).

\* A received purchase cannot be cancelled: what is CANCELLED took in nothing.
CancelledTookNothingIn ==
    \A d \in Purchases, v \in Variants :
        purchases[d].com.status = "CANCELLED" => Receipts(inventory[v].com, d) = {}

\* An adjustment to an absolute value leaves that value.
SetHitsTarget ==
    \A p \in Clients : Op(p) = "SET" /\ inventory[client[p].req.variant].by = p
        => inventory[client[p].req.variant].live.qty = client[p].req.amount

\* The old quantity an adjustment reports and audits is the one it replaced.
ReportedBeforeIsReplaced ==
    \A p \in Clients : Op(p) \in {"ADJUST", "SET"} /\ inventory[client[p].req.variant].by = p
        => inventory[client[p].req.variant].com.qty = client[p].before
=============================================================================
