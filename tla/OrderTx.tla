------------------------------ MODULE OrderTx ------------------------------
(***************************************************************************)
(* The order, POS and return services statement by statement: clients run  *)
(* their transactions against the database of ReadCommitted, and their     *)
(* statements interleave.  A label of pc stands before the statement the   *)
(* transaction issues next; what the service decides from the answer is    *)
(* part of the step.  A transaction may be rolled back before any          *)
(* statement (deadlock victim, timeout, crash of the server); the retry    *)
(* of runInTransaction is a new request here.  A refusal leaves no trace   *)
(* either, so it is the same step: Rollback.                               *)
(*                                                                         *)
(* Prices, customers and the clock are left out: they only refuse.         *)
(***************************************************************************)
EXTENDS Tables, ReadCommitted, FiniteSets, Functions, Naturals

CONSTANTS
    Baskets,      \* the line items a request may carry
    Ops,          \* the operations the clients use
    MaxRequests,  \* bound on the number of requests
    Serialised    \* TRUE: a transaction starts only when no other is under way

Sales == {"OPEN", "SELL", "CHECKOUT"}

ASSUME RequestsAssumption ==
    /\ Baskets \subseteq [Variants -> Nat]
    /\ \A b \in Baskets : \E v \in Variants : b[v] > 0
    /\ Ops \subseteq Sales \cup {"COMPLETE", "STATUS", "CANCEL", "RETURN", "ACCEPT", "REJECT"}
    /\ MaxRequests \in Nat
    /\ Serialised \in BOOLEAN

VARIABLES
    inventory, orders, returns,  \* the tables
    sequences,                   \* who holds the row of each number sequence
    client,                      \* what each client is doing
    made                         \* the number of requests made

vars == <<inventory, orders, returns, sequences, client, made>>

-----------------------------------------------------------------------------
\* Requests and clients.

Blank == [op |-> "NONE", order |-> "NONE", ret |-> "NONE", lines |-> Nothing,
          next |-> "NONE", accept |-> FALSE]

Targets == {"CONFIRMED", "PAID", "COMPLETED", "CANCELLED", "REFUNDED"}

Requests ==
    {r \in [op : Sales, order : Orders, ret : {"NONE"}, lines : Baskets,
            next : {"NONE"}, accept : {FALSE}]
      \cup [op : {"COMPLETE", "CANCEL"}, order : Orders, ret : {"NONE"}, lines : {Nothing},
            next : {"NONE"}, accept : {FALSE}]
      \cup [op : {"STATUS"}, order : Orders, ret : {"NONE"}, lines : {Nothing},
            next : Targets, accept : {FALSE}]
      \cup [op : {"RETURN"}, order : Orders, ret : {"NONE"}, lines : Baskets,
            next : {"NONE"}, accept : BOOLEAN]
      \cup [op : {"ACCEPT", "REJECT"}, order : {"NONE"}, ret : Returns, lines : {Nothing},
            next : {"NONE"}, accept : {FALSE}] :
     r.op \in Ops}

\* seen is the order as first read, todo the lines still to be moved, line
\* and ret the return line in hand.
Idle == [pc |-> "idle", req |-> Blank, seen |-> NoOrder, todo |-> {},
         line |-> "NONE", ret |-> "NONE"]

Asked(lines) == {v \in Variants : lines[v] > 0}

Sequence(op) == CASE op \in {"OPEN", "SELL"} -> "order_pos"
                  [] op = "CHECKOUT"         -> "order_online"
                  [] op = "RETURN"           -> "return"

SequenceKeys == {"order_pos", "order_online", "return"}

Init ==
    /\ inventory = [v \in Variants |-> Cell(Opened(v))]
    /\ orders = [o \in Orders |-> Cell(NoOrder)]
    /\ returns = [r \in Returns |-> Cell(NoReturn)]
    /\ sequences = [k \in SequenceKeys |-> Nobody]
    /\ client = [p \in Clients |-> Idle]
    /\ made = 0

At(p, label) == client[p].pc = label
Op(p)        == client[p].req.op
Order(p)     == See(orders[client[p].req.order], p)
Return(r, p) == See(returns[r], p)

Goto(p, label) == client' = [client EXCEPT ![p].pc = label]

\* UPDATE of the client's order, once it is free.
WriteOrder(p, row) ==
    /\ Free(orders[client[p].req.order], p)
    /\ orders' = [orders EXCEPT ![client[p].req.order] = Written(@, p, row)]
    /\ UNCHANGED <<inventory, returns, sequences, made>>

Reads == UNCHANGED <<inventory, orders, returns, sequences, made>>

-----------------------------------------------------------------------------
\* The ends of a transaction.

Released(p) == [k \in SequenceKeys |-> IF sequences[k] = p THEN Nobody ELSE sequences[k]]

Commit(p) ==
    /\ At(p, "commit")
    /\ inventory' = Committed(inventory, p)
    /\ orders' = Committed(orders, p)
    /\ returns' = Committed(returns, p)
    /\ sequences' = Released(p)
    /\ client' = [client EXCEPT ![p] = Idle]
    /\ UNCHANGED made

\* A refusal, a transient failure and a crash all undo the transaction.
Rollback(p) ==
    /\ ~At(p, "idle")
    /\ inventory' = RolledBack(inventory, p)
    /\ orders' = RolledBack(orders, p)
    /\ returns' = RolledBack(returns, p)
    /\ sequences' = Released(p)
    /\ client' = [client EXCEPT ![p] = Idle]
    /\ UNCHANGED made

-----------------------------------------------------------------------------
\* The beginnings.

Begin(p, req) ==
    /\ At(p, "idle")
    /\ Serialised => \A q \in Clients : At(q, "idle")
    /\ made < MaxRequests
    /\ made' = made + 1
    /\ client' = [client EXCEPT ![p].req = req,
                                ![p].pc = IF req.op \in Sales THEN "insert" ELSE "read"]
    /\ UNCHANGED <<inventory, orders, returns, sequences>>

\* createOrderInTx: the document number locks its sequence, then the row.
InsertOrder(p) ==
    LET req == client[p].req
        key == Sequence(req.op)
        now == req.op # "OPEN"
    IN  /\ At(p, "insert") /\ req.op \in Sales
        /\ sequences[key] \in {Nobody, p}
        /\ sequences' = [sequences EXCEPT ![key] = p]
        /\ orders[req.order] = Cell(NoOrder)
        /\ orders' = [orders EXCEPT ![req.order] = Written(@, p,
                [status    |-> IF req.op = "SELL" THEN "COMPLETED" ELSE "PENDING",
                 pay       |-> IF req.op = "SELL" THEN "PAID" ELSE "UNPAID",
                 committed |-> now,
                 source    |-> IF req.op = "CHECKOUT" THEN "ONLINE" ELSE "POS",
                 items     |-> req.lines])]
        /\ client' = [client EXCEPT
                ![p].pc   = IF now THEN "sell" ELSE "commit",
                ![p].todo = IF now THEN Asked(req.lines) ELSE {}]
        /\ UNCHANGED <<inventory, returns, made>>

\* The first SELECT of complete, updateStatus, cancel and return create.
Legal(req, row) ==
    CASE req.op = "COMPLETE" -> /\ row.source = "POS"
                                /\ row.status \notin {"NONE", "COMPLETED"}
                                /\ MayMove(row.status, "COMPLETED")
      [] req.op = "CANCEL"   -> /\ row.status \in Cancellable
                                /\ MayMove(row.status, "CANCELLED")
      [] req.op = "STATUS"   -> row.status # "NONE" /\ req.next \in Transitions[row.status]
      [] req.op = "RETURN"   -> row.status \in Returnable

\* Bug: a cancellation by status does not ask for returns.
AfterReadHasty(req) ==
    CASE req.op = "COMPLETE" -> "complete"
      [] req.op = "RETURN"   -> "eligible"
      [] req.op = "CANCEL"   -> "returns"
      [] req.next = "CANCELLED" -> "releaseStock"
      [] req.next = "REFUNDED" -> "write"
      [] OTHER -> "commitStock"

AfterRead(req) ==
    CASE req.op = "COMPLETE" -> "complete"
      [] req.op = "RETURN"   -> "eligible"
      [] req.op = "CANCEL" \/ req.next = "CANCELLED" -> "returns"
      [] req.next = "REFUNDED" -> "write"
      [] OTHER -> "commitStock"

ReadOrder(p) ==
    LET req == client[p].req
    IN  /\ At(p, "read") /\ req.op \in {"COMPLETE", "CANCEL", "STATUS", "RETURN"}
        /\ Legal(req, Order(p))
        /\ client' = [client EXCEPT ![p].pc = AfterRead(req), ![p].seen = Order(p),
                                    ![p].todo = Asked(req.lines)]
        /\ Reads

-----------------------------------------------------------------------------
\* Orders.

\* Bug: the UPDATE does not ask for the status it is to change.
ClaimUnasked(p) ==
    /\ At(p, "complete")
    /\ WriteOrder(p, [Order(p) EXCEPT !.status = "COMPLETED", !.pay = "PAID"])
    /\ Goto(p, "commitStock")

\* PosService.complete claims the ticket; whoever finds it COMPLETED is refused.
ClaimTicket(p) ==
    /\ At(p, "complete")
    /\ Order(p).status # "COMPLETED"
    /\ WriteOrder(p, [Order(p) EXCEPT !.status = "COMPLETED", !.pay = "PAID"])
    /\ Goto(p, "commitStock")

\* Cancelling counts the open returns it can see.
CountReturns(p) ==
    /\ At(p, "returns")
    /\ \A r \in Returns : Return(r, p).order = client[p].req.order
                             => Return(r, p).status \notin OpenReturn
    /\ Goto(p, "releaseStock")
    /\ Reads

AfterStock(p) == IF Op(p) = "COMPLETE" THEN "commit" ELSE "write"

\* The SELECT of commitStock and releaseStock.
ReadFlag(p) ==
    /\ \/ At(p, "commitStock")  /\ Goto(p, IF Order(p).committed THEN AfterStock(p) ELSE "take")
       \/ At(p, "releaseStock") /\ Goto(p, IF Order(p).committed THEN "give" ELSE AfterStock(p))
    /\ Reads

\* Bug: the flag is set whatever it was, and the lines move every time.
FlagUnasked(p) ==
    /\ At(p, "take") \/ At(p, "give")
    /\ WriteOrder(p, [Order(p) EXCEPT !.committed = At(p, "take")])
    /\ client' = [client EXCEPT ![p].pc = IF At(p, "take") THEN "sell" ELSE "restore",
                                ![p].todo = Asked(Order(p).items)]

\* Their guarded UPDATE of the flag; on zero rows nothing is moved.
ClaimFlag(p) ==
    /\ At(p, "take") \/ At(p, "give")
    /\ \/ /\ Order(p).committed # At(p, "take")
          /\ WriteOrder(p, [Order(p) EXCEPT !.committed = At(p, "take")])
          /\ client' = [client EXCEPT ![p].pc = IF At(p, "take") THEN "sell" ELSE "restore",
                                      ![p].todo = Asked(Order(p).items)]
       \/ /\ Order(p).committed = At(p, "take")
          /\ Goto(p, AfterStock(p))
          /\ Reads

\* The last UPDATE of updateStatus and cancel has no guard: it writes what
\* follows from the row as it was first read.
Decided(p) ==
    LET req  == client[p].req
        seen == client[p].seen
        now  == Order(p)
    IN  CASE req.op = "CANCEL" ->
               [now EXCEPT !.status = "CANCELLED",
                           !.pay = IF seen.pay = "PAID" THEN "REFUNDED" ELSE seen.pay]
          [] req.next = "CANCELLED" ->
               [now EXCEPT !.status = "CANCELLED",
                           !.pay = IF seen.pay = "PAID" THEN "REFUNDED" ELSE @]
          [] req.next = "PAID"      -> [now EXCEPT !.status = "PAID", !.pay = "PAID"]
          [] req.next = "COMPLETED" ->
               [now EXCEPT !.status = "COMPLETED",
                           !.pay = IF seen.pay = "UNPAID" THEN "PAID" ELSE @]
          [] req.next = "REFUNDED"  -> [now EXCEPT !.status = "REFUNDED", !.pay = "REFUNDED"]
          [] OTHER                  -> [now EXCEPT !.status = req.next]

Decide(p) ==
    /\ At(p, "write")
    /\ WriteOrder(p, Decided(p))
    /\ Goto(p, "commit")

-----------------------------------------------------------------------------
\* Stock: applyChange for one line.  The UPDATE, the re-read and the ledger
\* insert all happen under the row lock.

Movement(p, v) ==
    CASE At(p, "sell")    -> [type |-> "SALE", qty |-> Order(p).items[v],
                              ref |-> OrderRef(client[p].req.order)]
      [] At(p, "restore") -> [type |-> "ADJUSTMENT_IN", qty |-> Order(p).items[v],
                              ref |-> CancelRef(client[p].req.order)]
      [] At(p, "credit")  -> [type |-> "RETURN", qty |-> Return(client[p].ret, p).qty,
                              ref |-> ReturnRef(client[p].ret)]

AfterMove(p, left) ==
    CASE At(p, "sell") /\ Op(p) \in Sales -> (IF left = {} THEN "commit" ELSE "sell")
      [] At(p, "credit") -> (IF Op(p) = "ACCEPT" \/ left = {} THEN "commit" ELSE "eligible")
      [] OTHER -> (IF left = {} THEN AfterStock(p) ELSE client[p].pc)

\* Bug: the UPDATE is not guarded against a negative quantity.
MoveUnguarded(p, v) ==
    /\ At(p, "sell") \/ At(p, "restore") \/ At(p, "credit")
    /\ v \in client[p].todo /\ (At(p, "credit") => v = client[p].line)
    /\ LET m == Movement(p, v)
       IN  /\ Free(inventory[v], p)
           /\ inventory' = [inventory EXCEPT
                 ![v] = Written(@, p, Applied(See(@, p), m.type, m.qty, m.ref))]
    /\ client' = [client EXCEPT ![p].todo = @ \ {v},
                                ![p].pc = AfterMove(p, client[p].todo \ {v})]
    /\ UNCHANGED <<orders, returns, sequences, made>>

MoveLine(p, v) ==
    /\ At(p, "sell") \/ At(p, "restore") \/ At(p, "credit")
    /\ v \in client[p].todo /\ (At(p, "credit") => v = client[p].line)
    /\ LET m == Movement(p, v)
       IN  /\ Free(inventory[v], p)
           /\ Accepts(See(inventory[v], p), m.type, m.qty)
           /\ inventory' = [inventory EXCEPT
                 ![v] = Written(@, p, Applied(See(@, p), m.type, m.qty, m.ref))]
    /\ client' = [client EXCEPT ![p].todo = @ \ {v},
                                ![p].pc = AfterMove(p, client[p].todo \ {v})]
    /\ UNCHANGED <<orders, returns, sequences, made>>

-----------------------------------------------------------------------------
\* Returns.

\* The units of variant v of order o that the client sees returned.
AlreadyReturned(p, o, v) ==
    LET prior == {r \in Returns : /\ Return(r, p).order = o
                                  /\ Return(r, p).variant = v
                                  /\ Return(r, p).status \in OpenReturn}
    IN  SumFunctionOnSet([r \in Returns |-> Return(r, p).qty], prior)

\* ReturnService.create takes its lines one by one: eligibleQuantity ...
CheckEligible(p, v) ==
    LET req == client[p].req
    IN  /\ At(p, "eligible") /\ v \in client[p].todo
        /\ Order(p).items[v] > 0
        /\ req.lines[v] <= Order(p).items[v] - AlreadyReturned(p, req.order, v)
        /\ client' = [client EXCEPT ![p].pc = "enter", ![p].line = v]
        /\ Reads

\* ... then the number and the row, on which the check is not repeated.
InsertReturn(p, r) ==
    LET req  == client[p].req
        v    == client[p].line
        left == client[p].todo \ {v}
    IN  /\ At(p, "enter") /\ req.op = "RETURN"
        /\ sequences["return"] \in {Nobody, p}
        /\ sequences' = [sequences EXCEPT !["return"] = p]
        /\ returns[r] = Cell(NoReturn)
        /\ returns' = [returns EXCEPT ![r] = Written(@, p,
                [status  |-> IF req.accept THEN "ACCEPTED" ELSE "REQUESTED",
                 order   |-> req.order, variant |-> v, qty |-> req.lines[v]])]
        /\ client' = [client EXCEPT
                ![p].ret  = r,
                ![p].todo = IF req.accept THEN @ ELSE left,
                ![p].pc   = IF req.accept THEN "credit"
                            ELSE IF left = {} THEN "commit" ELSE "eligible"]
        /\ UNCHANGED <<inventory, orders, made>>

ReadReturn(p) ==
    /\ At(p, "read") /\ Op(p) \in {"ACCEPT", "REJECT"}
    /\ Return(client[p].req.ret, p).status = "REQUESTED"
    /\ Goto(p, "decide")
    /\ Reads

WriteReturn(p, status) ==
    LET r == client[p].req.ret
    IN  /\ Free(returns[r], p)
        /\ returns' = [returns EXCEPT ![r] = Written(@, p, [See(@, p) EXCEPT !.status = status])]
        /\ UNCHANGED <<inventory, orders, sequences, made>>

\* Bug: the acceptance is not guarded by the status it read.
AcceptUnasked(p) ==
    LET r == client[p].req.ret
    IN  /\ At(p, "decide") /\ Op(p) = "ACCEPT"
        /\ WriteReturn(p, "ACCEPTED")
        /\ client' = [client EXCEPT ![p].pc = "credit", ![p].ret = r,
                                    ![p].line = Return(r, p).variant,
                                    ![p].todo = {Return(r, p).variant}]

\* accept: the guarded flip; on zero rows the request is refused.
AcceptReturn(p) ==
    LET r == client[p].req.ret
    IN  /\ At(p, "decide") /\ Op(p) = "ACCEPT"
        /\ Return(r, p).status = "REQUESTED"
        /\ WriteReturn(p, "ACCEPTED")
        /\ client' = [client EXCEPT ![p].pc = "credit", ![p].ret = r,
                                    ![p].line = Return(r, p).variant,
                                    ![p].todo = {Return(r, p).variant}]

\* reject: the guarded flip; zero rows go unnoticed.
RejectReturn(p) ==
    LET r == client[p].req.ret
    IN  /\ At(p, "decide") /\ Op(p) = "REJECT"
        /\ \/ Return(r, p).status = "REQUESTED" /\ WriteReturn(p, "REJECTED")
           \/ Return(r, p).status # "REQUESTED" /\ Reads
        /\ Goto(p, "commit")

-----------------------------------------------------------------------------
Step(p) ==
    \/ \E req \in Requests : Begin(p, req)
    \/ InsertOrder(p)
    \/ ReadOrder(p)
    \/ ClaimTicket(p)
    \/ CountReturns(p)
    \/ ReadFlag(p)
    \/ ClaimFlag(p)
    \/ Decide(p)
    \/ \E v \in Variants : MoveLine(p, v)
    \/ \E v \in Variants : CheckEligible(p, v)
    \/ \E r \in Returns : InsertReturn(p, r)
    \/ ReadReturn(p)
    \/ AcceptReturn(p)
    \/ RejectReturn(p)
    \/ Commit(p)
    \/ Rollback(p)

Next == \E p \in Clients : Step(p)

Spec == Init /\ [][Next]_vars

-----------------------------------------------------------------------------
\* Properties.  The committed state is what everybody else sees.

Ledger == INSTANCE StockLedger WITH inventory <- Snapshot(inventory)

Serial == INSTANCE Store WITH
            inventory <- Snapshot(inventory), orders <- Snapshot(orders),
            returns <- Snapshot(returns), purchases <- [p \in Purchases |-> NoPurchase],
            adjustments <- 0, Amounts <- {}, MaxAdjustments <- 0

Labels == {"idle", "insert", "enter", "read", "complete", "returns", "commitStock", "releaseStock",
           "take", "give", "sell", "restore", "write", "eligible", "credit", "decide",
           "commit"}

\* Every cell holds rows of its table, and every client is at a label.
TypeOK ==
    /\ inventory \in [Variants -> Cells([qty : Nat, log : Seq(Entries)])]
    /\ orders \in [Orders -> Cells(OrderRows)]
    /\ returns \in [Returns -> Cells(ReturnRows)]
    /\ sequences \in [SequenceKeys -> Clients \cup {Nobody}]
    /\ client \in [Clients -> [pc : Labels, req : Requests \cup {Blank}, seen : OrderRows,
                               todo : SUBSET Variants, line : Variants \cup {"NONE"},
                               ret : Returns \cup {"NONE"}]]
    /\ made \in 0..MaxRequests

OrderLabels == {"complete", "returns", "commitStock", "releaseStock", "take", "give",
                "sell", "restore", "write", "eligible", "enter"}

\* A client at a label has what its statement needs.
Placed ==
    \A p \in Clients :
        /\ client[p].pc \in OrderLabels => client[p].req.order \in Orders
        /\ At(p, "enter") => client[p].line \in Variants
        /\ At(p, "credit") => /\ client[p].ret \in Returns
                              /\ Op(p) # "ACCEPT" => client[p].req.order \in Orders

\* A return on file names a variant.
ReturnsAreLinked ==
    \A r \in Returns : \A row \in {returns[r].com, returns[r].live} :
        row.status # "NONE" => row.variant \in Variants

\* Labels before the first write to an order.
Unwritten == {"idle", "insert", "read", "complete"}

\* Only a transaction under way holds versions of its own; of a variant it
\* has made one movement at most, which it will not repeat.
VersionsAreHeld ==
    /\ \A o \in Orders :
          /\ orders[o].by = Nobody => orders[o].live = orders[o].com
          /\ orders[o].by # Nobody => client[orders[o].by].pc \notin Unwritten
    /\ \A r \in Returns : returns[r].by = Nobody => returns[r].live = returns[r].com
    /\ \A v \in Variants :
          /\ inventory[v].by = Nobody => inventory[v].live = inventory[v].com
          /\ inventory[v].by # Nobody =>
                /\ Ledger!OneMovement(inventory[v].com, inventory[v].live)
                /\ LET c == client[inventory[v].by]
                   IN  /\ c.pc \in {"sell", "restore", "credit", "eligible", "enter",
                                    "write", "commit"}
                       /\ v \notin c.todo

\* A completion past its claim holds the ticket, which was not completed.
TicketIsClaimed ==
    \A p \in Clients : Op(p) = "COMPLETE" =>
        /\ client[p].pc \in {"read", "complete", "commitStock", "take", "sell", "commit"}
        /\ client[p].pc \notin {"read", "complete"} =>
              /\ client[p].req.order \in Orders
              /\ orders[client[p].req.order].by = p
              /\ orders[client[p].req.order].com.status # "COMPLETED"

\* The inductive invariant.
IInv == TypeOK /\ Placed /\ ReturnsAreLinked /\ VersionsAreHeld /\ TicketIsClaimed

\* Whatever interleaves, stock changes by ledgered movements only, and never
\* below zero: the guarded UPDATE of applyChange is all it takes.
StockIsLedgered == Ledger!LedgerSpec

\* Transactions that do not overlap are the atomic requests of Store.
SerialRunsAreAtomic == Serial!Spec

Committing(v, refs) == {i \in DOMAIN inventory[v].com.log : inventory[v].com.log[i].ref \in refs}
Net(v, refs) ==
    SumFunctionOnSet([i \in DOMAIN inventory[v].com.log |-> inventory[v].com.log[i].delta],
                     Committing(v, refs))

\* The claims on stockCommitted pair every restock with a sale: what the
\* ledger has booked on an order, sales and cancellations together, is its
\* lines when the flag is set and nothing when it is not.
StockFollowsFlag ==
    \A o \in Orders, v \in Variants :
        Net(v, {OrderRef(o), CancelRef(o)}) =
            IF orders[o].com.committed THEN -orders[o].com.items[v] ELSE 0

\* However its acceptance and rejection interleave, a return is credited once
\* when it ends up ACCEPTED and never otherwise.
ReturnCreditedOnce ==
    \A r \in Returns, v \in Variants :
        Cardinality(Committing(v, {ReturnRef(r)})) =
            IF returns[r].com.status = "ACCEPTED" /\ returns[r].com.variant = v THEN 1 ELSE 0

LastRef(row) == row.log[Len(row.log)].ref
Crediting(p, r) == At(p, "credit") /\ client[p].ret = r

\* A client that has accepted a return which was not accepted before holds the
\* row it has credited it to, unless it is about to do so; and it holds no row
\* it has credited to any other return.
InHand(p) ==
    /\ At(p, "credit") =>
          LET cell == returns[client[p].ret]
          IN  /\ cell.by = p /\ cell.live.status = "ACCEPTED"
              /\ cell.live.variant = client[p].line
    /\ \A r \in Returns : returns[r].by = p =>
          /\ returns[r].com.status # "ACCEPTED"
          /\ returns[r].live.status = "ACCEPTED" /\ ~Crediting(p, r) =>
                LET cell == inventory[returns[r].live.variant]
                IN  cell.by = p /\ LastRef(cell.live) = ReturnRef(r)
    /\ \A v \in Variants, r \in Returns :
          inventory[v].by = p /\ LastRef(inventory[v].live) = ReturnRef(r) =>
              /\ returns[r].by = p /\ returns[r].live.status = "ACCEPTED"
              /\ returns[r].live.variant = v /\ ~Crediting(p, r)

\* What ReturnCreditedOnce needs on top of IInv to be inductive.
Credits == ReturnCreditedOnce /\ \A p \in Clients : InHand(p)

\* Of several attempts to complete a ticket, none succeeds on one that has
\* already been completed.
CompletedOnce ==
    [][\A p \in Clients :
          Commit(p) /\ Op(p) = "COMPLETE"
              => orders[client[p].req.order].com.status # "COMPLETED"]_vars

-----------------------------------------------------------------------------
\* Promises of the services that overlapping requests break (README, sections
\* 7 and 8).

\* Nobody gets back more units than the order sold.
ReturnsWithinOrder == Serial!ReturnsWithinOrder

\* A cancellation and the returns of an order never credit the same units.
UnitsCreditedOnce ==
    \A o \in Orders, v \in Variants :
        Net(v, {CancelRef(o)} \cup {ReturnRef(r) : r \in {x \in Returns : returns[x].com.order = o}})
            <= -Net(v, {OrderRef(o)})

\* A cancelled order has given its stock back.
CancelledHoldsNoStock ==
    \A o \in Orders : orders[o].com.status = "CANCELLED" => ~orders[o].com.committed

\* No further mutation is possible after a terminal status.
TerminalStatusIsFinal ==
    [][\A o \in Orders : orders[o].com.status \in Terminal
                            => orders'[o].com.status = orders[o].com.status]_vars

\* A return whose rejection was answered is rejected.
RejectionsHold ==
    [][\A p \in Clients :
          Commit(p) /\ Op(p) = "REJECT"
              => returns'[client[p].req.ret].com.status = "REJECTED"]_vars
=============================================================================
