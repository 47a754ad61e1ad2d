--------------------------- MODULE OrderTx_proofs ---------------------------
(***************************************************************************)
(* Proofs about OrderTx, for any number of clients, orders, returns and    *)
(* requests, whatever their statements' order.                             *)
(***************************************************************************)
EXTENDS OrderTx, Shared_proofs, FiniteSetTheorems

Rows == [qty : Nat, log : Seq(Entries)]
Client == [pc : Labels, req : Requests \cup {Blank}, seen : OrderRows,
           todo : SUBSET Variants, line : Variants \cup {"NONE"},
           ret : Returns \cup {"NONE"}]

-----------------------------------------------------------------------------
\* What a request for an operation carries.
LEMMA RequestLemma ==
    ASSUME NEW req \in Requests \cup {Blank}
    PROVE  /\ req.lines \in [Variants -> Nat]
           /\ req.op \in Sales \cup {"COMPLETE", "CANCEL", "STATUS", "RETURN"}
                => req.order \in Orders
           /\ req.op \in {"ACCEPT", "REJECT"} => req.ret \in Returns
           /\ req.op = "STATUS" => req.next \in Targets
           /\ req.op # "STATUS" => req.next = "NONE"
<1>1. CASE req = Blank
  BY <1>1 DEF Blank, Nothing, Sales
<1>2. CASE req \in [op : Sales, order : Orders, ret : {"NONE"}, lines : Baskets,
                    next : {"NONE"}, accept : {FALSE}]
  BY <1>2, RequestsAssumption DEF Sales
<1>3. CASE req \in [op : {"COMPLETE", "CANCEL"}, order : Orders, ret : {"NONE"},
                    lines : {Nothing}, next : {"NONE"}, accept : {FALSE}]
  BY <1>3 DEF Nothing
<1>4. CASE req \in [op : {"STATUS"}, order : Orders, ret : {"NONE"}, lines : {Nothing},
                    next : Targets, accept : {FALSE}]
  BY <1>4 DEF Nothing, Sales
<1>5. CASE req \in [op : {"RETURN"}, order : Orders, ret : {"NONE"}, lines : Baskets,
                    next : {"NONE"}, accept : BOOLEAN]
  BY <1>5, RequestsAssumption DEF Sales
<1>6. CASE req \in [op : {"ACCEPT", "REJECT"}, order : {"NONE"}, ret : Returns,
                    lines : {Nothing}, next : {"NONE"}, accept : {FALSE}]
  BY <1>6 DEF Nothing, Sales
<1> QED BY <1>1, <1>2, <1>3, <1>4, <1>5, <1>6 DEF Requests

\* Idle clients are well formed.
LEMMA IdleLemma == Idle \in Client /\ NoOrder \in OrderRows /\ NoReturn \in ReturnRows
BY DEF Idle, Client, Labels, NoOrder, OrderRows, Nothing, PaymentStatuses, Blank,
       NoReturn, ReturnRows

\* A movement the guard accepts turns a row into a row, by one movement.
LEMMA MovementLemma ==
    ASSUME NEW row \in Rows, NEW type \in MovementTypes, NEW q \in Nat,
           NEW ref \in References, Accepts(row, type, q)
    PROVE  /\ Applied(row, type, q, ref) \in Rows
           /\ Ledger!OneMovement(row, Applied(row, type, q, ref))
<1> DEFINE d == Signed(type, q)
           e == [type |-> type, delta |-> d, prev |-> (row.qty + d) - d,
                 new |-> row.qty + d, ref |-> ref]
<1>1. d \in Int /\ row.qty \in Nat /\ row.log \in Seq(Entries)
  BY DEF Rows, Signed
<1>2. row.qty + d \in Nat /\ (row.qty + d) - d = row.qty
  BY <1>1 DEF Accepts
<1>3. e \in Entries
  BY <1>1, <1>2 DEF Entries
<1>4. Applied(row, type, q, ref) = [qty |-> row.qty + d, log |-> Append(row.log, e)]
  BY DEF Applied
<1>5. Magnitude(d) = q
  BY DEF Magnitude, Signed, Accepts
<1>6. e.type = type /\ e.delta = d /\ e.ref = ref
  OBVIOUS
<1> HIDE DEF d, e
<1>7. /\ Append(row.log, e) \in Seq(Entries)
      /\ Len(Append(row.log, e)) = Len(row.log) + 1
      /\ Append(row.log, e)[Len(row.log) + 1] = e
  BY <1>1, <1>3
<1>8. Applied(row, type, q, ref) \in Rows
  BY <1>2, <1>4, <1>7 DEF Rows
<1>9. Ledger!OneMovement(row, Applied(row, type, q, ref))
  <2>1. Ledger!Accepts(row, type, q) /\ Ledger!Magnitude(d) = q
    BY <1>5 DEF Ledger!Accepts, Accepts, Ledger!Signed, Signed, Ledger!Inbound, Inbound,
                Ledger!Magnitude, Magnitude
  <2>2. Ledger!Applied(row, type, q, ref) = Applied(row, type, q, ref)
    BY DEF Ledger!Applied, Applied, Ledger!Signed, Signed, Ledger!Inbound, Inbound
  <2> DEFINE new == Applied(row, type, q, ref)
  <2>3. /\ new.log = Append(row.log, e)
        /\ Len(new.log) = Len(row.log) + 1
        /\ new.log[Len(new.log)] = e
    BY <1>4, <1>7
  <2> HIDE DEF new
  <2>4. Ledger!Accepts(row, e.type, Ledger!Magnitude(e.delta))
    BY <1>6, <2>1
  <2>5. new = Ledger!Applied(row, e.type, Ledger!Magnitude(e.delta), e.ref)
    BY <1>6, <2>1, <2>2 DEF new
  <2>6. Ledger!OneMovement(row, new)
    BY <2>3, <2>4, <2>5 DEF Ledger!OneMovement
  <2> QED BY <2>6 DEF new
<1> QED BY <1>8, <1>9

-----------------------------------------------------------------------------
\* Where a client may hold a movement of a variant.
Moving == {"sell", "restore", "credit", "eligible", "enter", "write", "commit"}

\* The state a step leaves its client in has what the next statement needs,
\* and a completion past its claim holds its ticket.
Fit(p, c) ==
    /\ c \in Client
    /\ c.pc \in OrderLabels => c.req.order \in Orders
    /\ c.pc = "enter" => c.line \in Variants
    /\ c.pc = "credit" => /\ c.ret \in Returns
                          /\ c.req.op # "ACCEPT" => c.req.order \in Orders
    /\ \A v \in Variants : inventory'[v].by = p => c.pc \in Moving /\ v \notin c.todo
    /\ \A o \in Orders : orders'[o].by = p => c.pc \notin Unwritten
    /\ c.req.op = "COMPLETE" =>
          /\ c.pc \in {"read", "complete", "commitStock", "take", "sell", "commit"}
          /\ c.pc \notin {"read", "complete"} =>
                /\ c.req.order \in Orders
                /\ orders'[c.req.order].by = p
                /\ orders'[c.req.order].com.status # "COMPLETED"

\* A client that writes only free rows, and moves a variant once, keeps the
\* invariant when it is fit to go on.
LEMMA StepLemma ==
    ASSUME IInv, NEW p \in Clients, NEW c,
           client' = [client EXCEPT ![p] = c], Fit(p, c),
           orders' \in [Orders -> Cells(OrderRows)],
           \A o \in Orders : \/ orders'[o] = orders[o]
                             \/ Free(orders[o], p) /\ orders'[o].by = p,
           returns' \in [Returns -> Cells(ReturnRows)],
           \A r \in Returns : \/ returns'[r] = returns[r]
                              \/ returns'[r].by = p,
           ReturnsAreLinked',
           inventory' \in [Variants -> Cells(Rows)],
           \A v \in Variants : \/ inventory'[v] = inventory[v]
                               \/ /\ inventory'[v].by = p
                                  /\ Ledger!OneMovement(inventory'[v].com, inventory'[v].live),
           sequences' \in [SequenceKeys -> Clients \cup {Nobody}],
           made' \in 0..MaxRequests
    PROVE  IInv'
<1>1. /\ client' \in [Clients -> Client] /\ client'[p] = c
      /\ \A q \in Clients : q # p => client'[q] = client[q]
  BY DEF IInv, TypeOK, Client, Fit
<1>2. TypeOK'
  BY <1>1 DEF TypeOK, Client, Rows
<1>3. Placed'
  BY <1>1 DEF IInv, Placed, At, Op, Fit
<1>4. p # Nobody
  BY NobodyAssumption
<1>5. VersionsAreHeld'
  <2>1. ASSUME NEW v \in Variants, inventory'[v].by # Nobody
        PROVE  /\ Ledger!OneMovement(inventory'[v].com, inventory'[v].live)
               /\ LET d == client'[inventory'[v].by]
                  IN  d.pc \in Moving /\ v \notin d.todo
    <3>1. CASE inventory'[v].by = p
      <4>1. inventory'[v] = inventory[v] => Ledger!OneMovement(inventory'[v].com, inventory'[v].live)
        BY <2>1 DEF IInv, VersionsAreHeld
      <4> QED BY <3>1, <4>1, <1>1 DEF Fit
    <3>2. CASE inventory'[v].by # p
      <4>1. inventory'[v] = inventory[v] /\ inventory[v].by \in Clients
        BY <2>1, <3>2 DEF IInv, TypeOK, Cells
      <4> QED BY <2>1, <3>2, <4>1, <1>1 DEF IInv, VersionsAreHeld, Moving
    <3> QED BY <3>1, <3>2
  <2>2. \A v \in Variants : inventory'[v].by = Nobody => inventory'[v].live = inventory'[v].com
    BY <1>4 DEF IInv, VersionsAreHeld
  <2>3. ASSUME NEW o \in Orders
        PROVE  /\ orders'[o].by = Nobody => orders'[o].live = orders'[o].com
               /\ orders'[o].by # Nobody => client'[orders'[o].by].pc \notin Unwritten
    <3>1. CASE orders'[o].by = p
      BY <3>1, <1>1, <1>4 DEF Fit
    <3>2. CASE orders'[o].by # p
      <4>1. orders'[o] = orders[o] /\ orders[o].by \in Clients \cup {Nobody}
        BY <3>2 DEF IInv, TypeOK, Cells
      <4> QED BY <3>2, <4>1, <1>1 DEF IInv, VersionsAreHeld
    <3> QED BY <3>1, <3>2
  <2>4. \A r \in Returns : returns'[r].by = Nobody => returns'[r].live = returns'[r].com
    BY <1>4 DEF IInv, VersionsAreHeld
  <2> QED BY <2>1, <2>2, <2>3, <2>4 DEF VersionsAreHeld, Moving
<1>6. TicketIsClaimed'
  <2> SUFFICES ASSUME NEW q \in Clients, Op(q)' = "COMPLETE"
               PROVE  /\ client'[q].pc \in {"read", "complete", "commitStock", "take", "sell", "commit"}
                      /\ client'[q].pc \notin {"read", "complete"} =>
                            /\ client'[q].req.order \in Orders
                            /\ orders'[client'[q].req.order].by = q
                            /\ orders'[client'[q].req.order].com.status # "COMPLETED"
    BY DEF TicketIsClaimed
  <2>1. CASE q = p
    BY <2>1, <1>1 DEF Fit, Op
  <2>2. CASE q # p
    <3>1. client'[q] = client[q] /\ Op(q) = "COMPLETE"
      BY <2>2, <1>1 DEF Op
    <3>2. ASSUME client[q].pc \notin {"read", "complete"}
          PROVE  orders'[client[q].req.order] = orders[client[q].req.order]
      <4>1. client[q].req.order \in Orders /\ orders[client[q].req.order].by = q
        BY <3>1, <3>2 DEF IInv, TicketIsClaimed
      <4>2. q # Nobody
        BY NobodyAssumption
      <4> QED BY <4>1, <4>2, <2>2 DEF Free
    <3> QED BY <3>1, <3>2 DEF IInv, TicketIsClaimed
  <2> QED BY <2>1, <2>2
<1> QED BY <1>2, <1>3, <1>5, <1>6 DEF IInv

-----------------------------------------------------------------------------
\* Writing one row of a table that is a table of cells keeps it one.
LEMMA OrderWritten ==
    ASSUME orders \in [Orders -> Cells(OrderRows)], NEW p \in Clients, NEW o \in Orders,
           NEW row \in OrderRows, orders' = [orders EXCEPT ![o] = Written(@, p, row)]
    PROVE  /\ orders' \in [Orders -> Cells(OrderRows)]
           /\ \A x \in Orders : x # o => orders'[x] = orders[x]
           /\ orders'[o].by = p /\ orders'[o].live = row /\ orders'[o].com = orders[o].com
BY WriteLemma

\* The actions.

\* What a client reads of its order and of a return has the shape of the table.
LEMMA SeeLemma ==
    ASSUME IInv, NEW p \in Clients
    PROVE  /\ client[p] \in Client
           /\ client[p].req.order \in Orders => Order(p) \in OrderRows
           /\ \A r \in Returns : Return(r, p) \in ReturnRows
           /\ \A v \in Variants : See(inventory[v], p) \in Rows
BY DEF IInv, TypeOK, Client, Cells, See, Order, Return, Rows

\* A client at a label where nothing has moved yet holds no variant.
LEMMA EmptyHanded ==
    ASSUME IInv, NEW p \in Clients, client[p].pc \notin Moving
    PROVE  \A v \in Variants : inventory[v].by # p
BY NobodyAssumption DEF IInv, VersionsAreHeld, Moving

\* Before its first write a client holds no order.
LEMMA UnwrittenLemma ==
    ASSUME IInv, NEW p \in Clients, client[p].pc \in Unwritten
    PROVE  \A o \in Orders : orders[o].by # p
BY NobodyAssumption DEF IInv, VersionsAreHeld

\* A step that only looks keeps the invariant when its client is fit.
LEMMA LookLemma ==
    ASSUME IInv, NEW p \in Clients, NEW c, Reads,
           client' = [client EXCEPT ![p] = c], Fit(p, c)
    PROVE  IInv'
<1>1. ReturnsAreLinked'
  BY DEF IInv, ReturnsAreLinked, Reads
<1> QED BY <1>1, StepLemma DEF IInv, TypeOK, Reads, Rows

\* A request begins.
LEMMA BeginLemma ==
    ASSUME IInv, NEW p \in Clients, NEW req \in Requests, Begin(p, req)
    PROVE  IInv'
<1> DEFINE c == [client[p] EXCEPT !.req = req,
                                  !.pc = IF req.op \in Sales THEN "insert" ELSE "read"]
<1>1. client' = [client EXCEPT ![p] = c]
  BY DEF Begin, IInv, TypeOK, Client
<1>2. client[p] \in Client
  BY SeeLemma
<1>3. /\ c \in Client /\ c.req = req
      /\ c.pc = IF req.op \in Sales THEN "insert" ELSE "read"
  BY <1>2 DEF Client, Labels
<1>4. \A v \in Variants : inventory'[v].by # p
  BY EmptyHanded DEF Begin, At, Moving
<1>8. \A o \in Orders : orders'[o].by # p
  BY UnwrittenLemma DEF Begin, At, Unwritten
<1> HIDE DEF c
<1>5. Fit(p, c)
  BY <1>3, <1>4, <1>8 DEF Fit, OrderLabels, Sales
<1>6. made' \in 0..MaxRequests
  BY RequestsAssumption DEF Begin, IInv, TypeOK
<1>7. ReturnsAreLinked'
  BY DEF IInv, ReturnsAreLinked, Begin
<1> QED BY <1>1, <1>5, <1>6, <1>7, StepLemma DEF Begin, IInv, TypeOK, Rows

\* An order is written as a new row.
LEMMA InsertOrderLemma ==
    ASSUME IInv, NEW p \in Clients, InsertOrder(p)
    PROVE  IInv'
<1> DEFINE req == client[p].req
           o   == req.order
           now == req.op # "OPEN"
           row == [status    |-> IF req.op = "SELL" THEN "COMPLETED" ELSE "PENDING",
                   pay       |-> IF req.op = "SELL" THEN "PAID" ELSE "UNPAID",
                   committed |-> now,
                   source    |-> IF req.op = "CHECKOUT" THEN "ONLINE" ELSE "POS",
                   items     |-> req.lines]
           c   == [client[p] EXCEPT !.pc = IF now THEN "sell" ELSE "commit",
                                    !.todo = IF now THEN Asked(req.lines) ELSE {}]
<1>1. client' = [client EXCEPT ![p] = c]
  BY DEF InsertOrder, IInv, TypeOK, Client
<1>2. client[p] \in Client /\ req \in Requests \cup {Blank}
  BY SeeLemma DEF Client
<1>3. req.op \in Sales /\ o \in Orders /\ req.lines \in [Variants -> Nat]
  BY <1>2, RequestLemma DEF InsertOrder
<1>4. /\ c \in Client /\ c.req = req /\ c.pc \in {"sell", "commit"}
  BY <1>2 DEF Client, Labels, Asked
<1>5. \A v \in Variants : inventory'[v].by # p
  BY EmptyHanded DEF InsertOrder, At, Moving
<1>6. row \in OrderRows
  BY <1>3 DEF OrderRows, OrderStatuses, PaymentStatuses
<1>7. orders' = [orders EXCEPT ![o] = Written(@, p, row)]
  BY DEF InsertOrder
<1>8. orders[o].by = Nobody
  BY DEF InsertOrder, Cell
<1> HIDE DEF c, row
<1>9. /\ orders' \in [Orders -> Cells(OrderRows)]
      /\ \A x \in Orders : \/ orders'[x] = orders[x]
                           \/ Free(orders[x], p) /\ orders'[x].by = p
  <2>1. orders \in [Orders -> Cells(OrderRows)]
    BY DEF IInv, TypeOK
  <2> HIDE DEF o
  <2>2. o \in Orders
    BY <1>3
  <2>3. /\ orders' \in [Orders -> Cells(OrderRows)]
        /\ \A x \in Orders : x # o => orders'[x] = orders[x]
        /\ orders'[o].by = p
    BY <2>1, <2>2, <1>6, <1>7, OrderWritten
  <2>4. Free(orders[o], p)
    BY <1>8 DEF Free
  <2>5. ASSUME NEW x \in Orders
        PROVE  orders'[x] = orders[x] \/ (Free(orders[x], p) /\ orders'[x].by = p)
    <3>1. CASE x = o
      BY <3>1, <2>3, <2>4
    <3>2. CASE x # o
      BY <3>2, <2>3
    <3> QED BY <3>1, <3>2
  <2> QED BY <2>3, <2>5
<1>10. Fit(p, c)
  BY <1>3, <1>4, <1>5 DEF Fit, Sales, Unwritten
<1>11. sequences' \in [SequenceKeys -> Clients \cup {Nobody}]
  BY DEF InsertOrder, IInv, TypeOK
<1>12. ReturnsAreLinked'
  BY DEF IInv, ReturnsAreLinked, InsertOrder
<1> QED BY <1>1, <1>9, <1>10, <1>11, <1>12, StepLemma DEF InsertOrder, IInv, TypeOK, Rows

\* Where the first read leads.
LEMMA AfterReadLemma ==
    ASSUME NEW req, req.op \in {"COMPLETE", "CANCEL", "STATUS", "RETURN"},
           req.op # "STATUS" => req.next = "NONE"
    PROVE  /\ AfterRead(req) \in {"complete", "eligible", "returns", "write", "commitStock"}
           /\ req.op = "COMPLETE" => AfterRead(req) = "complete"
<1>1. CASE req.op = "COMPLETE"
  BY <1>1 DEF AfterRead
<1>2. CASE req.op = "RETURN"
  BY <1>2 DEF AfterRead
<1>3. CASE req.op = "CANCEL" \/ (req.op = "STATUS" /\ req.next = "CANCELLED")
  BY <1>3 DEF AfterRead
<1>4. CASE req.op = "STATUS" /\ req.next = "REFUNDED"
  BY <1>4 DEF AfterRead
<1>5. CASE req.op = "STATUS" /\ req.next \notin {"CANCELLED", "REFUNDED"}
  BY <1>5 DEF AfterRead
<1> QED BY <1>1, <1>2, <1>3, <1>4, <1>5

\* The order is read.
LEMMA ReadOrderLemma ==
    ASSUME IInv, NEW p \in Clients, ReadOrder(p)
    PROVE  IInv'
<1> DEFINE req == client[p].req
           c == [client[p] EXCEPT !.pc = AfterRead(req), !.seen = Order(p),
                                  !.todo = Asked(req.lines)]
<1>1. client' = [client EXCEPT ![p] = c]
  BY DEF ReadOrder, IInv, TypeOK, Client
<1>2. client[p] \in Client /\ req \in Requests \cup {Blank}
  BY SeeLemma DEF Client
<1>3. /\ req.op \in {"COMPLETE", "CANCEL", "STATUS", "RETURN"}
      /\ req.order \in Orders /\ Order(p) \in OrderRows
      /\ req.op # "STATUS" => req.next = "NONE"
  BY <1>2, RequestLemma, SeeLemma DEF ReadOrder
<1>4. /\ AfterRead(req) \in {"complete", "eligible", "returns", "write", "commitStock"}
      /\ req.op = "COMPLETE" => AfterRead(req) = "complete"
  BY <1>3, AfterReadLemma
<1>5. /\ c \in Client /\ c.req = req /\ c.pc = AfterRead(req)
  BY <1>2, <1>3, <1>4 DEF Client, Labels, Asked
<1>6. \A v \in Variants : inventory'[v].by # p
  BY EmptyHanded DEF ReadOrder, At, Moving, Reads
<1>8. \A o \in Orders : orders'[o].by # p
  BY UnwrittenLemma DEF ReadOrder, At, Unwritten, Reads
<1> HIDE DEF c
<1>7. Fit(p, c)
  BY <1>3, <1>4, <1>5, <1>6, <1>8 DEF Fit
<1> QED BY <1>1, <1>7, LookLemma DEF ReadOrder

\* The client writes its order and goes on to a label where it is fit.
LEMMA WriteOrderLemma ==
    ASSUME IInv, NEW p \in Clients, NEW row \in OrderRows, WriteOrder(p, row),
           client[p].req.order \in Orders,
           NEW c, client' = [client EXCEPT ![p] = c], Fit(p, c)
    PROVE  IInv'
<1>1. /\ orders' \in [Orders -> Cells(OrderRows)]
      /\ \A x \in Orders : \/ orders'[x] = orders[x]
                           \/ Free(orders[x], p) /\ orders'[x].by = p
  <2> DEFINE o == client[p].req.order
  <2>1. /\ orders \in [Orders -> Cells(OrderRows)] /\ o \in Orders
        /\ orders' = [orders EXCEPT ![o] = Written(@, p, row)]
        /\ Free(orders[o], p)
    BY DEF WriteOrder, IInv, TypeOK
  <2> HIDE DEF o
  <2>2. /\ orders' \in [Orders -> Cells(OrderRows)]
        /\ \A x \in Orders : x # o => orders'[x] = orders[x]
        /\ orders'[o].by = p
    BY <2>1, OrderWritten
  <2>3. ASSUME NEW x \in Orders
        PROVE  orders'[x] = orders[x] \/ (Free(orders[x], p) /\ orders'[x].by = p)
    <3>1. CASE x = o
      BY <3>1, <2>1, <2>2
    <3>2. CASE x # o
      BY <3>2, <2>2
    <3> QED BY <3>1, <3>2
  <2> QED BY <2>2, <2>3
<1>2. ReturnsAreLinked'
  BY DEF IInv, ReturnsAreLinked, WriteOrder
<1> QED BY <1>1, <1>2, StepLemma DEF WriteOrder, IInv, TypeOK, Rows

\* Going on to another label and nothing else.
LEMMA GotoLemma ==
    ASSUME IInv, NEW p \in Clients, NEW label \in Labels, Goto(p, label)
    PROVE  LET c == [client[p] EXCEPT !.pc = label]
           IN  /\ client' = [client EXCEPT ![p] = c]
               /\ c \in Client /\ c.pc = label
               /\ c.req = client[p].req /\ c.todo = client[p].todo
               /\ c.line = client[p].line /\ c.ret = client[p].ret
<1>1. client[p] \in Client
  BY SeeLemma
<1> QED BY <1>1 DEF Goto, Client

\* A ticket is claimed.
LEMMA ClaimTicketLemma ==
    ASSUME IInv, NEW p \in Clients, ClaimTicket(p)
    PROVE  IInv'
<1> DEFINE o   == client[p].req.order
           row == [Order(p) EXCEPT !.status = "COMPLETED", !.pay = "PAID"]
           c   == [client[p] EXCEPT !.pc = "commitStock"]
<1>1. o \in Orders
  BY DEF ClaimTicket, At, IInv, Placed, OrderLabels
<1>2. Order(p) \in OrderRows
  BY <1>1, SeeLemma
<1>3. row \in OrderRows
  BY <1>2 DEF OrderRows, OrderStatuses, PaymentStatuses
<1>4. /\ client' = [client EXCEPT ![p] = c]
      /\ c \in Client /\ c.pc = "commitStock" /\ c.req = client[p].req
  BY GotoLemma DEF ClaimTicket, Labels
<1>5. /\ \A v \in Variants : inventory'[v].by # p
      /\ orders[o].by # p
  BY <1>1, EmptyHanded, UnwrittenLemma DEF ClaimTicket, WriteOrder, At, Moving, Unwritten
<1>6. orders[o].com.status # "COMPLETED"
  BY <1>5 DEF ClaimTicket, Order, See
<1>7. orders' = [orders EXCEPT ![o] = Written(@, p, row)]
  BY DEF ClaimTicket, WriteOrder
<1>8. orders'[o].by = p /\ orders'[o].com = orders[o].com
  <2>1. orders \in [Orders -> Cells(OrderRows)]
    BY DEF IInv, TypeOK
  <2> HIDE DEF o, row
  <2> QED BY <1>1, <1>3, <1>7, <2>1, OrderWritten
<1> HIDE DEF c, row
<1>9. Fit(p, c)
  BY <1>1, <1>4, <1>5, <1>6, <1>8 DEF Fit, Unwritten
<1>10. WriteOrder(p, row)
  BY DEF ClaimTicket, row
<1> QED BY <1>1, <1>3, <1>4, <1>9, <1>10, WriteOrderLemma

\* The returns are counted.
LEMMA CountReturnsLemma ==
    ASSUME IInv, NEW p \in Clients, CountReturns(p)
    PROVE  IInv'
<1> DEFINE c == [client[p] EXCEPT !.pc = "releaseStock"]
<1>1. /\ client' = [client EXCEPT ![p] = c]
      /\ c \in Client /\ c.pc = "releaseStock" /\ c.req = client[p].req
  BY GotoLemma DEF CountReturns, Labels
<1>2. c.req.order \in Orders /\ c.req.op # "COMPLETE"
  BY <1>1 DEF CountReturns, At, Op, IInv, Placed, TicketIsClaimed, OrderLabels
<1>3. \A v \in Variants : inventory'[v].by # p
  BY EmptyHanded DEF CountReturns, At, Moving, Reads
<1> HIDE DEF c
<1>4. Fit(p, c)
  BY <1>1, <1>2, <1>3 DEF Fit, Unwritten
<1> QED BY <1>1, <1>4, LookLemma DEF CountReturns

\* The facts of a completion past its claim.
LEMMA TicketLemma ==
    ASSUME IInv, NEW p \in Clients, client[p].req.op = "COMPLETE",
           client[p].pc \notin {"read", "complete"}
    PROVE  /\ client[p].pc \in {"commitStock", "take", "sell", "commit"}
           /\ client[p].req.order \in Orders
           /\ orders[client[p].req.order].by = p
           /\ orders[client[p].req.order].com.status # "COMPLETED"
BY DEF IInv, TicketIsClaimed, Op

\* The flag is read.
LEMMA ReadFlagLemma ==
    ASSUME IInv, NEW p \in Clients, ReadFlag(p)
    PROVE  IInv'
<1>1. client[p].pc \in {"commitStock", "releaseStock"}
  BY DEF ReadFlag, At
<1>2. client[p].req.order \in Orders
  BY <1>1 DEF IInv, Placed, OrderLabels
<1>3. \A v \in Variants : inventory'[v].by # p
  BY <1>1, EmptyHanded DEF ReadFlag, Moving, Reads
<1>4. PICK label \in {"take", "give", "write", "commit"} :
          /\ Goto(p, label)
          /\ client[p].req.op = "COMPLETE" => label \in {"take", "commit"}
  BY <1>1, TicketLemma DEF ReadFlag, At, AfterStock, Op
<1> DEFINE c == [client[p] EXCEPT !.pc = label]
<1>5. /\ client' = [client EXCEPT ![p] = c]
      /\ c \in Client /\ c.pc = label /\ c.req = client[p].req
  <2>1. label \in Labels /\ Goto(p, label)
    BY <1>4 DEF Labels
  <2> QED BY <2>1, GotoLemma
<1> HIDE DEF c
<1>6. Fit(p, c)
  BY <1>1, <1>2, <1>3, <1>4, <1>5, TicketLemma DEF Fit, Unwritten, Reads, ReadFlag
<1> QED BY <1>5, <1>6, LookLemma DEF ReadFlag

\* The flag is claimed, or found claimed.
LEMMA ClaimFlagLemma ==
    ASSUME IInv, NEW p \in Clients, ClaimFlag(p)
    PROVE  IInv'
<1> DEFINE o == client[p].req.order
<1>1. client[p].pc \in {"take", "give"}
  BY DEF ClaimFlag, At
<1>2. o \in Orders /\ Order(p) \in OrderRows /\ client[p] \in Client
  BY <1>1, SeeLemma DEF IInv, Placed, OrderLabels
<1>3. \A v \in Variants : inventory[v].by # p
  BY <1>1, EmptyHanded DEF Moving
<1>4. client[p].req.op = "COMPLETE" => client[p].pc = "take"
  BY <1>1, TicketLemma
<1>5. CASE Order(p).committed # At(p, "take")
  <2> DEFINE row == [Order(p) EXCEPT !.committed = At(p, "take")]
             c == [client[p] EXCEPT !.pc = IF At(p, "take") THEN "sell" ELSE "restore",
                                    !.todo = Asked(Order(p).items)]
  <2>1. client' = [client EXCEPT ![p] = c] /\ WriteOrder(p, row)
    BY <1>5 DEF ClaimFlag, IInv, TypeOK, Client
  <2>2. row \in OrderRows
    BY <1>2 DEF OrderRows, At
  <2>3. /\ c \in Client /\ c.pc \in {"sell", "restore"} /\ c.req = client[p].req
        /\ client[p].pc = "take" => c.pc = "sell"
    BY <1>2 DEF Client, Labels, Asked, At
  <2>4. orders'[o].by = p /\ orders'[o].com = orders[o].com
    <3>1. orders \in [Orders -> Cells(OrderRows)]
      BY DEF IInv, TypeOK
    <3>2. orders' = [orders EXCEPT ![o] = Written(@, p, row)]
      BY <2>1 DEF WriteOrder
    <3> HIDE DEF o, row
    <3> QED BY <1>2, <2>2, <3>1, <3>2, OrderWritten
  <2>5. \A v \in Variants : inventory'[v].by # p
    BY <1>3, <2>1 DEF WriteOrder
  <2> HIDE DEF c, row
  <2>6. Fit(p, c)
    BY <1>1, <1>2, <1>4, <2>3, <2>4, <2>5, TicketLemma DEF Fit, Unwritten
  <2> QED BY <1>2, <2>1, <2>2, <2>6, WriteOrderLemma
<1>6. CASE Order(p).committed = At(p, "take")
  <2>1. PICK label \in {"write", "commit"} :
            /\ Goto(p, label)
            /\ client[p].req.op = "COMPLETE" => label = "commit"
    BY <1>6 DEF ClaimFlag, AfterStock, Op
  <2> DEFINE c == [client[p] EXCEPT !.pc = label]
  <2>2. /\ client' = [client EXCEPT ![p] = c]
        /\ c \in Client /\ c.pc = label /\ c.req = client[p].req
    <3>1. label \in Labels /\ Goto(p, label)
      BY <2>1 DEF Labels
    <3> QED BY <3>1, GotoLemma
  <2>3. Reads
    BY <1>6 DEF ClaimFlag
  <2> HIDE DEF c
  <2>4. Fit(p, c)
    BY <1>1, <1>2, <1>3, <1>4, <2>1, <2>2, <2>3, TicketLemma DEF Fit, Unwritten, Reads
  <2> QED BY <2>2, <2>3, <2>4, LookLemma
<1> QED BY <1>5, <1>6 DEF ClaimFlag

\* What the last UPDATE writes is a row.
LEMMA DecidedLemma ==
    ASSUME IInv, NEW p \in Clients, client[p].req.order \in Orders
    PROVE  Decided(p) \in OrderRows
<1> DEFINE req == client[p].req
<1>1. /\ Order(p) \in OrderRows /\ client[p].seen \in OrderRows
      /\ req.next \in Targets \cup {"NONE"}
  BY SeeLemma, RequestLemma DEF Client
<1>2. ASSUME NEW row \in OrderRows, NEW s \in OrderStatuses \cup {"NONE"},
             NEW y \in PaymentStatuses
      PROVE  /\ [row EXCEPT !.status = s, !.pay = y] \in OrderRows
             /\ [row EXCEPT !.status = s] \in OrderRows
  BY DEF OrderRows
<1>3. /\ {"CANCELLED", "PAID", "COMPLETED", "REFUNDED", "CONFIRMED"} \subseteq OrderStatuses
      /\ {"REFUNDED", "PAID"} \subseteq PaymentStatuses
      /\ client[p].seen.pay \in PaymentStatuses /\ Order(p).pay \in PaymentStatuses
  BY <1>1 DEF OrderStatuses, PaymentStatuses, OrderRows
<1>4. CASE req.op = "CANCEL"
  BY <1>1, <1>2, <1>3, <1>4 DEF Decided
<1>5. CASE req.op # "CANCEL" /\ req.next = "CANCELLED"
  BY <1>1, <1>2, <1>3, <1>5 DEF Decided
<1>6. CASE req.op # "CANCEL" /\ req.next = "PAID"
  BY <1>1, <1>2, <1>3, <1>6 DEF Decided
<1>7. CASE req.op # "CANCEL" /\ req.next = "COMPLETED"
  BY <1>1, <1>2, <1>3, <1>7 DEF Decided
<1>8. CASE req.op # "CANCEL" /\ req.next = "REFUNDED"
  BY <1>1, <1>2, <1>3, <1>8 DEF Decided
<1>9. CASE req.op # "CANCEL" /\ req.next \in {"CONFIRMED", "NONE"}
  BY <1>1, <1>2, <1>3, <1>9 DEF Decided
<1> QED BY <1>1, <1>4, <1>5, <1>6, <1>7, <1>8, <1>9 DEF Targets

\* The order's new status is written.
LEMMA DecideLemma ==
    ASSUME IInv, NEW p \in Clients, Decide(p)
    PROVE  IInv'
<1> DEFINE o == client[p].req.order
           c == [client[p] EXCEPT !.pc = "commit"]
<1>1. /\ client' = [client EXCEPT ![p] = c]
      /\ c \in Client /\ c.pc = "commit" /\ c.req = client[p].req /\ c.todo = client[p].todo
  BY GotoLemma DEF Decide, Labels
<1>2. o \in Orders
  BY DEF Decide, At, IInv, Placed, OrderLabels
<1>3. client[p].req.op # "COMPLETE"
  BY TicketLemma DEF Decide, At
<1>4. \A v \in Variants : inventory'[v].by = p => v \notin c.todo
  BY <1>1, NobodyAssumption DEF Decide, WriteOrder, IInv, VersionsAreHeld
<1> HIDE DEF c
<1>5. Fit(p, c)
  BY <1>1, <1>3, <1>4 DEF Fit, Unwritten, Moving, OrderLabels
<1>6. Decided(p) \in OrderRows /\ WriteOrder(p, Decided(p))
  BY <1>2, DecidedLemma DEF Decide
<1> QED BY <1>1, <1>2, <1>5, <1>6, WriteOrderLemma

\* A client where it may hold a movement will not repeat it.
LEMMA TodoLemma ==
    ASSUME IInv, NEW p \in Clients
    PROVE  \A v \in Variants : inventory[v].by = p => v \notin client[p].todo
BY NobodyAssumption DEF IInv, VersionsAreHeld

\* The documents an order or a return is cited as.
LEMMA CitedLemma ==
    /\ \A o \in Orders : OrderRef(o) \in References /\ CancelRef(o) \in References
    /\ \A r \in Returns : ReturnRef(r) \in References
BY DocumentsAssumption DEF OrderRef, CancelRef, ReturnRef, References, ReferenceTypes

\* The movement a client is about to make.
LEMMA AboutToMove ==
    ASSUME IInv, NEW p \in Clients, NEW v \in Variants,
           At(p, "sell") \/ At(p, "restore") \/ At(p, "credit")
    PROVE  /\ Movement(p, v).type \in MovementTypes
           /\ Movement(p, v).qty \in Nat
           /\ Movement(p, v).ref \in References
<1>1. At(p, "credit") => /\ client[p].ret \in Returns
                         /\ Return(client[p].ret, p) \in ReturnRows
  BY SeeLemma DEF IInv, Placed
<1>2. ~At(p, "credit") => client[p].req.order \in Orders /\ Order(p) \in OrderRows
  BY SeeLemma DEF IInv, Placed, At, OrderLabels
<1>3. CASE At(p, "sell")
  BY <1>2, <1>3, CitedLemma DEF Movement, MovementTypes, OrderRows, At
<1>4. CASE At(p, "restore")
  BY <1>2, <1>4, CitedLemma DEF Movement, MovementTypes, OrderRows, At
<1>5. CASE At(p, "credit")
  BY <1>1, <1>5, CitedLemma DEF Movement, MovementTypes, ReturnRows, At
<1> QED BY <1>3, <1>4, <1>5

\* Where a movement leads.
LEMMA AfterMoveLemma ==
    ASSUME IInv, NEW p \in Clients, NEW left,
           At(p, "sell") \/ At(p, "restore") \/ At(p, "credit")
    PROVE  LET label == AfterMove(p, left)
           IN  /\ label \in {"sell", "restore", "eligible", "write", "commit", "credit"}
               /\ label = "credit" => client[p].pc = "credit"
               /\ label \in {"sell", "restore", "eligible", "write"} =>
                      client[p].req.order \in Orders
               /\ client[p].req.op = "COMPLETE" => label \in {"sell", "commit"}
<1>1. client[p].pc \in {"sell", "restore"} => client[p].req.order \in Orders
  BY DEF IInv, Placed, OrderLabels
<1>2. client[p].pc = "credit" /\ Op(p) # "ACCEPT" => client[p].req.order \in Orders
  BY DEF IInv, Placed, At
<1>3. client[p].req.op = "COMPLETE" => client[p].pc \notin {"restore", "credit"}
  BY TicketLemma
<1>4. CASE At(p, "sell")
  BY <1>1, <1>4 DEF AfterMove, AfterStock, At, Op, Sales
<1>5. CASE At(p, "restore")
  BY <1>1, <1>3, <1>5 DEF AfterMove, AfterStock, At, Op, Sales
<1>6. CASE At(p, "credit")
  BY <1>2, <1>3, <1>6 DEF AfterMove, AfterStock, At, Op, Sales
<1> QED BY <1>4, <1>5, <1>6

\* Writing one row of the inventory.
LEMMA StockWritten ==
    ASSUME inventory \in [Variants -> Cells(Rows)], NEW p \in Clients, NEW v \in Variants,
           NEW row \in Rows, inventory' = [inventory EXCEPT ![v] = Written(@, p, row)]
    PROVE  /\ inventory' \in [Variants -> Cells(Rows)]
           /\ \A x \in Variants : x # v => inventory'[x] = inventory[x]
           /\ inventory'[v].by = p /\ inventory'[v].live = row
           /\ inventory'[v].com = inventory[v].com
BY WriteLemma

\* One line is moved.
LEMMA MoveLineLemma ==
    ASSUME IInv, NEW p \in Clients, NEW v \in Variants, MoveLine(p, v)
    PROVE  IInv'
<1> DEFINE m   == Movement(p, v)
           row == Applied(inventory[v].com, m.type, m.qty, m.ref)
           left == client[p].todo \ {v}
           c   == [client[p] EXCEPT !.todo = left, !.pc = AfterMove(p, left)]
<1>1. At(p, "sell") \/ At(p, "restore") \/ At(p, "credit")
  BY DEF MoveLine
<1>2. inventory[v].by # p
  BY TodoLemma DEF MoveLine
<1>3. See(inventory[v], p) = inventory[v].com
  BY <1>2 DEF See
<1>4. inventory[v].com \in Rows
  BY <1>3, SeeLemma
<1>5. /\ row \in Rows
      /\ Ledger!OneMovement(inventory[v].com, row)
  BY <1>1, <1>3, <1>4, AboutToMove, MovementLemma DEF MoveLine
<1>6. inventory' = [inventory EXCEPT ![v] = Written(@, p, row)]
  BY <1>3 DEF MoveLine
<1>7. client' = [client EXCEPT ![p] = c]
  BY DEF MoveLine, IInv, TypeOK, Client
<1>8. client[p] \in Client
  BY SeeLemma
<1>9. /\ c \in Client /\ c.pc = AfterMove(p, left) /\ c.req = client[p].req
      /\ c.todo = left /\ c.ret = client[p].ret
  <2>1. AfterMove(p, left) \in Labels
    BY <1>1, AfterMoveLemma DEF Labels
  <2> QED BY <1>8, <2>1 DEF Client
<1> HIDE DEF row, c, m
<1>10. /\ inventory' \in [Variants -> Cells(Rows)]
       /\ \A x \in Variants : x # v => inventory'[x] = inventory[x]
       /\ inventory'[v].by = p
       /\ Ledger!OneMovement(inventory'[v].com, inventory'[v].live)
  <2>1. inventory \in [Variants -> Cells(Rows)]
    BY DEF IInv, TypeOK, Rows
  <2> QED BY <1>5, <1>6, <2>1, StockWritten
<1>11. \A x \in Variants : inventory'[x].by = p => x \notin c.todo
  BY <1>9, <1>10, TodoLemma
<1>12. Fit(p, c)
  <2>1. client[p].pc \notin Unwritten /\ client[p].pc \in {"sell", "restore", "credit"}
    BY <1>1 DEF At, Unwritten
  <2>2. /\ c.pc \in {"sell", "restore", "eligible", "write", "commit", "credit"}
        /\ c.pc = "credit" => client[p].pc = "credit"
        /\ c.pc \in {"sell", "restore", "eligible", "write"} => c.req.order \in Orders
        /\ c.req.op = "COMPLETE" => c.pc \in {"sell", "commit"}
    BY <1>1, <1>9, AfterMoveLemma
  <2>3. c.pc = "credit" => /\ c.ret \in Returns
                           /\ c.req.op # "ACCEPT" => c.req.order \in Orders
    BY <2>2, <1>9 DEF IInv, Placed, At, Op
  <2>4. c.req.op = "COMPLETE" => /\ c.req.order \in Orders
                                 /\ orders'[c.req.order].by = p
                                 /\ orders'[c.req.order].com.status # "COMPLETED"
    BY <2>1, <1>9, TicketLemma DEF MoveLine
  <2> QED BY <1>9, <1>11, <2>2, <2>3, <2>4 DEF Fit, OrderLabels, Moving, Unwritten
<1>13. ReturnsAreLinked'
  BY DEF IInv, ReturnsAreLinked, MoveLine
<1>14. \A x \in Variants : \/ inventory'[x] = inventory[x]
                           \/ /\ inventory'[x].by = p
                              /\ Ledger!OneMovement(inventory'[x].com, inventory'[x].live)
  BY <1>10
<1> QED BY <1>7, <1>10, <1>12, <1>13, <1>14, StepLemma DEF MoveLine, IInv, TypeOK

\* A line is found eligible.
LEMMA CheckEligibleLemma ==
    ASSUME IInv, NEW p \in Clients, NEW v \in Variants, CheckEligible(p, v)
    PROVE  IInv'
<1> DEFINE c == [client[p] EXCEPT !.pc = "enter", !.line = v]
<1>1. client' = [client EXCEPT ![p] = c]
  BY DEF CheckEligible, IInv, TypeOK, Client
<1>2. /\ c \in Client /\ c.pc = "enter" /\ c.line = v /\ c.req = client[p].req
      /\ c.todo = client[p].todo
  BY SeeLemma DEF Client, Labels
<1>3. client[p].req.order \in Orders /\ client[p].req.op # "COMPLETE"
  BY TicketLemma DEF CheckEligible, At, IInv, Placed, OrderLabels
<1>4. \A x \in Variants : inventory'[x].by = p => x \notin c.todo
  BY <1>2, TodoLemma DEF CheckEligible, Reads
<1> HIDE DEF c
<1>5. Fit(p, c)
  BY <1>2, <1>3, <1>4 DEF Fit, Unwritten, Moving
<1> QED BY <1>1, <1>5, LookLemma DEF CheckEligible

\* Writing one row of the returns.
LEMMA ReturnWritten ==
    ASSUME returns \in [Returns -> Cells(ReturnRows)], NEW p \in Clients, NEW r \in Returns,
           NEW row \in ReturnRows, returns' = [returns EXCEPT ![r] = Written(@, p, row)]
    PROVE  /\ returns' \in [Returns -> Cells(ReturnRows)]
           /\ \A x \in Returns : x # r => returns'[x] = returns[x]
           /\ returns'[r].by = p /\ returns'[r].live = row /\ returns'[r].com = returns[r].com
BY WriteLemma

\* The client writes a return that names a variant.
LEMMA WriteReturnLemma ==
    ASSUME IInv, NEW p \in Clients, NEW r \in Returns, NEW row \in ReturnRows,
           row.status # "NONE" => row.variant \in Variants,
           returns' = [returns EXCEPT ![r] = Written(@, p, row)],
           UNCHANGED <<inventory, orders, made>>,
           sequences' \in [SequenceKeys -> Clients \cup {Nobody}],
           NEW c, client' = [client EXCEPT ![p] = c], Fit(p, c)
    PROVE  IInv'
<1>1. /\ returns' \in [Returns -> Cells(ReturnRows)]
      /\ \A x \in Returns : x # r => returns'[x] = returns[x]
      /\ returns'[r].by = p /\ returns'[r].live = row /\ returns'[r].com = returns[r].com
  BY ReturnWritten DEF IInv, TypeOK
<1>2. ReturnsAreLinked'
  BY <1>1 DEF IInv, ReturnsAreLinked
<1>3. \A x \in Returns : returns'[x] = returns[x] \/ returns'[x].by = p
  BY <1>1
<1> QED BY <1>1, <1>2, <1>3, StepLemma DEF IInv, TypeOK, Rows

\* A return is written as a new row.
LEMMA InsertReturnLemma ==
    ASSUME IInv, NEW p \in Clients, NEW r \in Returns, InsertReturn(p, r)
    PROVE  IInv'
<1> DEFINE req  == client[p].req
           v    == client[p].line
           left == client[p].todo \ {v}
           row  == [status  |-> IF req.accept THEN "ACCEPTED" ELSE "REQUESTED",
                    order   |-> req.order, variant |-> v, qty |-> req.lines[v]]
           label == IF req.accept THEN "credit" ELSE IF left = {} THEN "commit" ELSE "eligible"
           c    == [client[p] EXCEPT !.ret = r,
                                     !.todo = IF req.accept THEN @ ELSE left,
                                     !.pc = label]
<1>1. client' = [client EXCEPT ![p] = c]
  BY DEF InsertReturn, IInv, TypeOK, Client
<1>2. client[p] \in Client
  BY SeeLemma
<1>3. v \in Variants /\ req.order \in Orders
  BY DEF InsertReturn, IInv, Placed, At, OrderLabels
<1>4. req.lines \in [Variants -> Nat]
  BY <1>2, RequestLemma DEF Client
<1>5. row \in ReturnRows
  BY <1>3, <1>4 DEF ReturnRows, ReturnStatuses
<1>6. /\ c \in Client /\ c.pc \in {"credit", "commit", "eligible"}
      /\ c.ret = r /\ c.req = req /\ c.todo \subseteq client[p].todo
  BY <1>2 DEF Client, Labels
<1>7. \A x \in Variants : inventory'[x].by = p => x \notin c.todo
  BY <1>6, TodoLemma DEF InsertReturn
<1>8. req.op # "COMPLETE"
  BY DEF InsertReturn
<1>9. returns' = [returns EXCEPT ![r] = Written(@, p, row)]
  BY DEF InsertReturn
<1>10. row.variant \in Variants
  BY <1>3
<1> HIDE DEF c, row
<1>11. Fit(p, c)
  BY <1>3, <1>6, <1>7, <1>8 DEF Fit, Unwritten, Moving, OrderLabels
<1>12. sequences' \in [SequenceKeys -> Clients \cup {Nobody}]
  BY DEF InsertReturn, IInv, TypeOK
<1> QED BY <1>1, <1>5, <1>9, <1>10, <1>11, <1>12, WriteReturnLemma DEF InsertReturn

\* A return is read.
LEMMA ReadReturnLemma ==
    ASSUME IInv, NEW p \in Clients, ReadReturn(p)
    PROVE  IInv'
<1> DEFINE c == [client[p] EXCEPT !.pc = "decide"]
<1>1. /\ client' = [client EXCEPT ![p] = c]
      /\ c \in Client /\ c.pc = "decide" /\ c.req = client[p].req
  BY GotoLemma DEF ReadReturn, Labels
<1>2. \A v \in Variants : inventory'[v].by # p
  BY EmptyHanded DEF ReadReturn, At, Moving, Reads
<1> HIDE DEF c
<1>3. Fit(p, c)
  BY <1>1, <1>2 DEF Fit, Unwritten, OrderLabels, ReadReturn, Op
<1> QED BY <1>1, <1>3, LookLemma DEF ReadReturn

\* A new status of a return on file.
LEMMA StatusLemma ==
    ASSUME IInv, NEW p \in Clients, NEW r \in Returns, NEW status \in ReturnStatuses,
           Return(r, p).status = "REQUESTED"
    PROVE  LET row == [See(returns[r], p) EXCEPT !.status = status]
           IN  row \in ReturnRows /\ row.variant \in Variants
<1>1. See(returns[r], p) \in ReturnRows /\ See(returns[r], p).variant \in Variants
  BY SeeLemma DEF Return, See, IInv, ReturnsAreLinked
<1> QED BY <1>1 DEF ReturnRows

\* A return is accepted.
LEMMA AcceptReturnLemma ==
    ASSUME IInv, NEW p \in Clients, AcceptReturn(p)
    PROVE  IInv'
<1> DEFINE r   == client[p].req.ret
           row == [See(returns[r], p) EXCEPT !.status = "ACCEPTED"]
           c   == [client[p] EXCEPT !.pc = "credit", !.ret = r, !.line = Return(r, p).variant,
                                    !.todo = {Return(r, p).variant}]
<1>1. client' = [client EXCEPT ![p] = c]
  BY DEF AcceptReturn, IInv, TypeOK, Client
<1>2. client[p] \in Client
  BY SeeLemma
<1>3. r \in Returns
  BY <1>2, RequestLemma DEF Client, AcceptReturn, Op
<1>4. row \in ReturnRows /\ row.variant \in Variants
  BY <1>3, StatusLemma DEF AcceptReturn, ReturnStatuses
<1>5. Return(r, p).variant \in Variants
  BY <1>3 DEF AcceptReturn, Return, See, IInv, ReturnsAreLinked
<1>6. /\ c \in Client /\ c.pc = "credit" /\ c.ret = r /\ c.req = client[p].req
  BY <1>2, <1>3, <1>5 DEF Client, Labels
<1>7. \A x \in Variants : inventory'[x].by # p
  BY EmptyHanded DEF AcceptReturn, At, Moving, WriteReturn
<1>8. returns' = [returns EXCEPT ![r] = Written(@, p, row)]
  BY DEF AcceptReturn, WriteReturn
<1> HIDE DEF c, row
<1>9. Fit(p, c)
  BY <1>3, <1>6, <1>7 DEF Fit, Unwritten, OrderLabels, AcceptReturn, Op
<1>10. sequences' \in [SequenceKeys -> Clients \cup {Nobody}]
  BY DEF AcceptReturn, WriteReturn, IInv, TypeOK
<1> QED BY <1>1, <1>3, <1>4, <1>8, <1>9, <1>10, WriteReturnLemma DEF AcceptReturn, WriteReturn

\* A return is rejected, or the rejection comes too late.
LEMMA RejectReturnLemma ==
    ASSUME IInv, NEW p \in Clients, RejectReturn(p)
    PROVE  IInv'
<1> DEFINE r   == client[p].req.ret
           row == [See(returns[r], p) EXCEPT !.status = "REJECTED"]
           c   == [client[p] EXCEPT !.pc = "commit"]
<1>1. /\ client' = [client EXCEPT ![p] = c]
      /\ c \in Client /\ c.pc = "commit" /\ c.req = client[p].req
  BY GotoLemma DEF RejectReturn, Labels
<1>2. r \in Returns
  BY SeeLemma, RequestLemma DEF Client, RejectReturn, Op
<1>3. \A x \in Variants : inventory'[x].by # p
  BY EmptyHanded DEF RejectReturn, At, Moving, WriteReturn, Reads
<1> HIDE DEF c
<1>4. Fit(p, c)
  BY <1>1, <1>3 DEF Fit, Unwritten, OrderLabels, RejectReturn, Op
<1>5. CASE Return(r, p).status = "REQUESTED" /\ WriteReturn(p, "REJECTED")
  <2>1. row \in ReturnRows /\ row.variant \in Variants
    BY <1>2, <1>5, StatusLemma DEF ReturnStatuses
  <2>2. returns' = [returns EXCEPT ![r] = Written(@, p, row)]
    BY <1>5 DEF WriteReturn
  <2>3. sequences' \in [SequenceKeys -> Clients \cup {Nobody}]
    BY <1>5 DEF WriteReturn, IInv, TypeOK
  <2> HIDE DEF row
  <2> QED BY <1>1, <1>2, <1>4, <1>5, <2>1, <2>2, <2>3, WriteReturnLemma DEF WriteReturn
<1>6. CASE Reads
  BY <1>1, <1>4, <1>6, LookLemma
<1> QED BY <1>5, <1>6 DEF RejectReturn

\* The locks on sequences are released.
LEMMA ReleasedLemma ==
    ASSUME IInv, NEW p \in Clients
    PROVE  Released(p) \in [SequenceKeys -> Clients \cup {Nobody}]
BY DEF Released, IInv, TypeOK

\* A transaction ends.
LEMMA EndStepLemma ==
    ASSUME IInv, NEW p \in Clients, client' = [client EXCEPT ![p] = Idle],
           inventory' \in [Variants -> Cells(Rows)], Ended(inventory, inventory', p),
           orders' \in [Orders -> Cells(OrderRows)], Ended(orders, orders', p),
           returns' \in [Returns -> Cells(ReturnRows)], Ended(returns, returns', p),
           sequences' = Released(p), UNCHANGED made
    PROVE  IInv'
<1>1. /\ client' \in [Clients -> Client] /\ client'[p] = Idle
      /\ \A q \in Clients : q # p => client'[q] = client[q]
  BY IdleLemma DEF IInv, TypeOK, Client
<1>2. TypeOK'
  BY <1>1, ReleasedLemma DEF IInv, TypeOK, Client, Rows
<1>3. Placed'
  BY <1>1 DEF IInv, Placed, At, Op, Idle, OrderLabels
<1>4. /\ DOMAIN inventory = Variants /\ DOMAIN orders = Orders /\ DOMAIN returns = Returns
      /\ p # Nobody
  BY NobodyAssumption DEF IInv, TypeOK
<1>5. ReturnsAreLinked'
  BY <1>4 DEF IInv, ReturnsAreLinked, Ended, Cell
<1>6. VersionsAreHeld'
  <2>1. ASSUME NEW v \in Variants
        PROVE  /\ inventory'[v].by = Nobody => inventory'[v].live = inventory'[v].com
               /\ inventory'[v].by # Nobody =>
                     /\ Ledger!OneMovement(inventory'[v].com, inventory'[v].live)
                     /\ LET d == client'[inventory'[v].by]
                        IN  d.pc \in Moving /\ v \notin d.todo
    <3>1. CASE inventory[v].by = p
      BY <3>1, <1>4 DEF Ended, Cell
    <3>2. CASE inventory[v].by # p
      <4>1. inventory'[v] = inventory[v]
        BY <3>2, <1>4 DEF Ended
      <4>2. inventory[v].by # Nobody => client'[inventory[v].by] = client[inventory[v].by]
        BY <3>2, <1>1 DEF IInv, TypeOK, Cells
      <4> QED BY <4>1, <4>2 DEF IInv, VersionsAreHeld, Moving
    <3> QED BY <3>1, <3>2
  <2>2. ASSUME NEW o \in Orders
        PROVE  /\ orders'[o].by = Nobody => orders'[o].live = orders'[o].com
               /\ orders'[o].by # Nobody => client'[orders'[o].by].pc \notin Unwritten
    <3>1. CASE orders[o].by = p
      BY <3>1, <1>4 DEF Ended, Cell
    <3>2. CASE orders[o].by # p
      <4>1. orders'[o] = orders[o]
        BY <3>2, <1>4 DEF Ended
      <4>2. orders[o].by # Nobody => client'[orders[o].by] = client[orders[o].by]
        BY <3>2, <1>1 DEF IInv, TypeOK, Cells
      <4> QED BY <4>1, <4>2 DEF IInv, VersionsAreHeld
    <3> QED BY <3>1, <3>2
  <2>3. \A r \in Returns : returns'[r].by = Nobody => returns'[r].live = returns'[r].com
    BY <1>4 DEF IInv, VersionsAreHeld, Ended, Cell
  <2> QED BY <2>1, <2>2, <2>3 DEF VersionsAreHeld, Moving
<1>7. TicketIsClaimed'
  <2> SUFFICES ASSUME NEW q \in Clients, Op(q)' = "COMPLETE"
               PROVE  /\ client'[q].pc \in {"read", "complete", "commitStock", "take", "sell", "commit"}
                      /\ client'[q].pc \notin {"read", "complete"} =>
                            /\ client'[q].req.order \in Orders
                            /\ orders'[client'[q].req.order].by = q
                            /\ orders'[client'[q].req.order].com.status # "COMPLETED"
    BY DEF TicketIsClaimed
  <2>1. q # p
    BY <1>1 DEF Op, Idle, Blank
  <2>2. client'[q] = client[q] /\ Op(q) = "COMPLETE"
    BY <2>1, <1>1 DEF Op
  <2>3. ASSUME client[q].pc \notin {"read", "complete"}
        PROVE  orders'[client[q].req.order] = orders[client[q].req.order]
    <3>1. client[q].req.order \in Orders /\ orders[client[q].req.order].by = q
      BY <2>2, <2>3 DEF IInv, TicketIsClaimed
    <3> QED BY <3>1, <2>1, <1>4 DEF Ended
  <2> QED BY <2>2, <2>3 DEF IInv, TicketIsClaimed
<1> QED BY <1>2, <1>3, <1>5, <1>6, <1>7 DEF IInv

\* A commit and a rollback.
LEMMA EndsLemma ==
    ASSUME IInv, NEW p \in Clients, Commit(p) \/ Rollback(p)
    PROVE  IInv'
<1>1. /\ inventory \in [Variants -> Cells(Rows)]
      /\ orders \in [Orders -> Cells(OrderRows)]
      /\ returns \in [Returns -> Cells(ReturnRows)]
  BY DEF IInv, TypeOK, Rows
<1>2. /\ inventory' \in [Variants -> Cells(Rows)] /\ Ended(inventory, inventory', p)
  BY <1>1, EndLemma, ClosedLemma DEF Commit, Rollback
<1>3. /\ orders' \in [Orders -> Cells(OrderRows)] /\ Ended(orders, orders', p)
  BY <1>1, EndLemma, ClosedLemma DEF Commit, Rollback
<1>4. /\ returns' \in [Returns -> Cells(ReturnRows)] /\ Ended(returns, returns', p)
  <2>1. returns' = Committed(returns, p) \/ returns' = RolledBack(returns, p)
    BY DEF Commit, Rollback
  <2>2. /\ Committed(returns, p) \in [Returns -> Cells(ReturnRows)]
        /\ RolledBack(returns, p) \in [Returns -> Cells(ReturnRows)]
    BY <1>1, EndLemma
  <2>3. Ended(returns, Committed(returns, p), p) /\ Ended(returns, RolledBack(returns, p), p)
    BY <1>1, ClosedLemma
  <2> QED BY <2>1, <2>2, <2>3
<1> QED BY <1>2, <1>3, <1>4, EndStepLemma DEF Commit, Rollback

-----------------------------------------------------------------------------
\* The shelf as it is first opened.
LEMMA OpenedLemma == \A v \in Variants : Opened(v) \in Rows
<1> SUFFICES ASSUME NEW v \in Variants
             PROVE  Opened(v) \in Rows
  OBVIOUS
<1>1. Opening[v] \in Nat /\ EmptyRow \in Rows
  BY OpeningAssumption DEF EmptyRow, Rows
<1>2. ASSUME Opening[v] > 0
      PROVE  Applied(EmptyRow, "ADJUSTMENT_IN", Opening[v], Manual) \in Rows
  <2>1. Accepts(EmptyRow, "ADJUSTMENT_IN", Opening[v])
    BY <1>1, <1>2 DEF Accepts, EmptyRow, Signed, Inbound
  <2>2. "ADJUSTMENT_IN" \in MovementTypes /\ Manual \in References
    BY DEF MovementTypes, Manual, References, ReferenceTypes
  <2> QED BY <1>1, <2>1, <2>2, MovementLemma
<1> QED BY <1>1, <1>2 DEF Opened

\* The invariant holds at first.
LEMMA InitIInv == Init => IInv
<1> SUFFICES ASSUME Init
             PROVE  IInv
  OBVIOUS
<1>1. /\ \A v \in Variants : inventory[v] = Cell(Opened(v))
      /\ \A o \in Orders : orders[o] = Cell(NoOrder)
      /\ \A r \in Returns : returns[r] = Cell(NoReturn)
      /\ \A p \in Clients : client[p] = Idle
  BY DEF Init
<1>2. TypeOK
  <2>1. \A R : \A row \in R : Cell(row) \in Cells(R)
    BY DEF Cell, Cells
  <2>2. inventory \in [Variants -> Cells(Rows)]
    BY <2>1, OpenedLemma DEF Init
  <2>3. /\ orders \in [Orders -> Cells(OrderRows)]
        /\ returns \in [Returns -> Cells(ReturnRows)]
    BY <2>1, IdleLemma DEF Init
  <2>4. sequences \in [SequenceKeys -> Clients \cup {Nobody}]
    BY DEF Init
  <2>5. client \in [Clients -> Client]
    BY IdleLemma DEF Init
  <2>6. made \in 0..MaxRequests
    BY RequestsAssumption DEF Init
  <2> QED BY <2>2, <2>3, <2>4, <2>5, <2>6 DEF TypeOK, Client, Rows
<1>3. Placed
  BY <1>1 DEF Placed, At, Op, Idle, OrderLabels
<1>4. ReturnsAreLinked
  BY <1>1 DEF ReturnsAreLinked, Cell, NoReturn
<1>5. VersionsAreHeld
  <2>1. \A row : Cell(row).by = Nobody /\ Cell(row).live = Cell(row).com
    BY DEF Cell
  <2>2. \A v \in Variants : inventory[v].by = Nobody /\ inventory[v].live = inventory[v].com
    BY <1>1, <2>1
  <2>3. \A o \in Orders : orders[o].by = Nobody /\ orders[o].live = orders[o].com
    BY <1>1, <2>1
  <2>4. \A r \in Returns : returns[r].by = Nobody /\ returns[r].live = returns[r].com
    BY <1>1, <2>1
  <2> QED BY <2>2, <2>3, <2>4 DEF VersionsAreHeld
<1>6. TicketIsClaimed
  BY <1>1 DEF TicketIsClaimed, Op, Idle, Blank
<1> QED BY <1>2, <1>3, <1>4, <1>5, <1>6 DEF IInv

\* Every step keeps it.
LEMMA StepIInv == IInv /\ [Next]_vars => IInv'
<1> SUFFICES ASSUME IInv, [Next]_vars
             PROVE  IInv'
  OBVIOUS
<1>1. CASE UNCHANGED vars
  BY <1>1 DEF vars, IInv, TypeOK, Placed, ReturnsAreLinked, VersionsAreHeld, TicketIsClaimed,
              At, Op
<1>2. ASSUME NEW p \in Clients, Step(p)
      PROVE  IInv'
  BY <1>2, BeginLemma, InsertOrderLemma, ReadOrderLemma, ClaimTicketLemma, CountReturnsLemma,
     ReadFlagLemma, ClaimFlagLemma, DecideLemma, MoveLineLemma, CheckEligibleLemma,
     InsertReturnLemma, ReadReturnLemma, AcceptReturnLemma, RejectReturnLemma, EndsLemma DEF Step
<1> QED BY <1>1, <1>2 DEF Next

\* The inductive invariant holds, whatever order the statements of however
\* many clients come in.
THEOREM Invariant == Spec => []IInv
BY InitIInv, StepIInv, PTL DEF Spec

\* Every row keeps the shape of its table while transactions interleave; in
\* particular no committed or pending quantity is negative.
THEOREM TypeCorrect == Spec => []TypeOK
<1>1. IInv => TypeOK
  BY DEF IInv
<1> QED BY <1>1, Invariant, PTL

-----------------------------------------------------------------------------
\* What a commit makes of a row of the inventory.
LEMMA CommitMoves ==
    ASSUME IInv, NEW p \in Clients, Commit(p)
    PROVE  Ledger!LedgerNext
<1>1. inventory \in [Variants -> Cells(Rows)] /\ DOMAIN inventory = Variants
  BY DEF IInv, TypeOK, Rows
<1>2. inventory' \in [Variants -> Cells(Rows)] /\ DOMAIN inventory' = Variants
  BY <1>1, EndLemma DEF Commit
<1>3. ASSUME NEW v \in Variants
      PROVE  \/ Snapshot(inventory')[v] = Snapshot(inventory)[v]
             \/ Ledger!OneMovement(Snapshot(inventory)[v], Snapshot(inventory')[v])
  <2>1. /\ Snapshot(inventory)[v] = inventory[v].com
        /\ Snapshot(inventory')[v] = inventory'[v].com
    BY <1>1, <1>2 DEF Snapshot
  <2>2. inventory'[v] = IF inventory[v].by = p THEN Cell(inventory[v].live) ELSE inventory[v]
    BY <1>1, EndLemma DEF Commit
  <2>3. inventory[v].by = p => Ledger!OneMovement(inventory[v].com, inventory[v].live)
    BY NobodyAssumption DEF IInv, VersionsAreHeld
  <2> QED BY <2>1, <2>2, <2>3 DEF Cell
<1>4. Snapshot(inventory') = [v \in Variants |-> Snapshot(inventory')[v]]
  BY <1>2 DEF Snapshot
<1> QED BY <1>3, <1>4 DEF Ledger!LedgerNext

\* Every other step leaves the committed stock alone.
LEMMA OthersMoveNothing ==
    ASSUME IInv, NEW p \in Clients, Step(p), ~Commit(p)
    PROVE  Snapshot(inventory') = Snapshot(inventory)
<1>1. inventory \in [Variants -> Cells(Rows)] /\ DOMAIN inventory = Variants
  BY DEF IInv, TypeOK, Rows
<1>2. CASE UNCHANGED inventory
  BY <1>2
<1>3. ASSUME NEW v \in Variants, MoveLine(p, v)
      PROVE  Snapshot(inventory') = Snapshot(inventory)
  <2>1. PICK row : inventory' = [inventory EXCEPT ![v] = Written(@, p, row)]
    BY <1>3 DEF MoveLine
  <2>2. inventory[v] \in Cells(Rows)
    BY <1>1
  <2>3. Written(inventory[v], p, row).com = inventory[v].com
    BY <2>2 DEF Written, Cells
  <2>4. inventory'[v] = Written(inventory[v], p, row)
    BY <2>1, <1>1
  <2>5. \A x \in Variants : inventory'[x].com = inventory[x].com
    BY <2>1, <2>3, <2>4, <1>1
  <2> QED BY <2>1, <2>5, <1>1 DEF Snapshot
<1>4. CASE Rollback(p)
  <2>1. inventory' \in [Variants -> Cells(Rows)]
    BY <1>1, <1>4, EndLemma DEF Rollback
  <2>3. ASSUME NEW x \in Variants
        PROVE  RolledBack(inventory, p)[x].com = inventory[x].com
    <3>1. RolledBack(inventory, p)[x] =
             IF inventory[x].by = p THEN Cell(inventory[x].com) ELSE inventory[x]
      BY <1>1, EndLemma
    <3>2. Cell(inventory[x].com).com = inventory[x].com
      BY DEF Cell
    <3> QED BY <3>1, <3>2
  <2>2. \A x \in Variants : inventory'[x].com = inventory[x].com
    BY <1>4, <2>3 DEF Rollback
  <2> QED BY <2>1, <2>2, <1>1 DEF Snapshot
<1> QED BY <1>2, <1>3, <1>4 DEF Step, Begin, InsertOrder, ReadOrder, ClaimTicket, CountReturns,
           ReadFlag, ClaimFlag, Decide, CheckEligible, InsertReturn, ReadReturn, AcceptReturn,
           RejectReturn, WriteOrder, WriteReturn, Reads

\* The statements of interleaving transactions implement the promise of
\* InventoryService: the committed stock changes by ledgered movements only
\* and never falls below zero.
THEOREM StockIsSafe == Spec => StockIsLedgered
<1>1. Init => Ledger!LedgerInit
  <2> SUFFICES ASSUME Init
               PROVE  Ledger!LedgerInit
    OBVIOUS
  <2>1. inventory = [v \in Variants |-> Cell(Opened(v))]
    BY DEF Init
  <2>2. Snapshot(inventory) = [v \in Variants |-> Opened(v)]
    BY <2>1 DEF Snapshot, Cell
  <2>3. \A v \in Variants : Ledger!Opened(v) = Opened(v)
    BY DEF Ledger!Opened, Opened, Ledger!Applied, Applied, Ledger!Signed, Signed,
           Ledger!Inbound, Inbound, Ledger!EmptyRow, EmptyRow, Ledger!Manual, Manual
  <2> QED BY <2>2, <2>3 DEF Ledger!LedgerInit
<1>2. IInv /\ [Next]_vars => [Ledger!LedgerNext]_(Snapshot(inventory))
  <2> SUFFICES ASSUME IInv, [Next]_vars
               PROVE  Ledger!LedgerNext \/ Snapshot(inventory)' = Snapshot(inventory)
    OBVIOUS
  <2>1. CASE UNCHANGED vars
    BY <2>1 DEF vars, Snapshot
  <2>2. ASSUME NEW p \in Clients, Step(p)
        PROVE  Ledger!LedgerNext \/ Snapshot(inventory)' = Snapshot(inventory)
    BY <2>2, CommitMoves, OthersMoveNothing DEF Snapshot
  <2> QED BY <2>1, <2>2 DEF Next
<1> QED BY <1>1, <1>2, Invariant, PTL DEF Spec, StockIsLedgered, Ledger!LedgerSpec

\* No attempt to complete a ticket commits on one that is completed already:
\* the guarded UPDATE is waited for under the row lock and matched again.
THEOREM TicketsCompleteOnce == Spec => CompletedOnce
<1>1. IInv => \A p \in Clients : Commit(p) /\ Op(p) = "COMPLETE"
                  => orders[client[p].req.order].com.status # "COMPLETED"
  BY TicketLemma DEF Commit, At, Op
<1> QED BY <1>1, Invariant, PTL DEF CompletedOnce

-----------------------------------------------------------------------------
\* Returns are credited once.

\* The movement a client is about to make cites a return only when it credits it.
LEMMA CreditingLemma ==
    ASSUME IInv, NEW p \in Clients, NEW v \in Variants, NEW r \in Returns,
           At(p, "sell") \/ At(p, "restore") \/ At(p, "credit")
    PROVE  Movement(p, v).ref = ReturnRef(r) <=> Crediting(p, r)
<1>1. CASE At(p, "credit")
  BY <1>1 DEF Movement, At, Crediting, ReturnRef
<1>2. CASE At(p, "sell")
  BY <1>2 DEF Movement, At, Crediting, ReturnRef, OrderRef
<1>3. CASE At(p, "restore")
  BY <1>3 DEF Movement, At, Crediting, ReturnRef, CancelRef
<1> QED BY <1>1, <1>2, <1>3

\* A step that writes free rows only leaves what the others have in hand.
LEMMA InHandLemma ==
    ASSUME IInv, \A q \in Clients : InHand(q), NEW p \in Clients,
           \A q \in Clients : q # p => client'[q] = client[q],
           \A r \in Returns : \/ returns'[r] = returns[r]
                              \/ /\ returns[r].by \in {Nobody, p}
                                 /\ returns'[r].by \in {Nobody, p},
           \A v \in Variants : \/ inventory'[v] = inventory[v]
                               \/ /\ inventory[v].by \in {Nobody, p}
                                  /\ inventory'[v].by \in {Nobody, p},
           InHand(p)'
    PROVE  (\A q \in Clients : InHand(q))'
<1> SUFFICES ASSUME NEW q \in Clients, q # p
             PROVE  InHand(q)'
  OBVIOUS
<1>1. client'[q] = client[q] /\ q # Nobody
  BY NobodyAssumption
<1>2. /\ \A r \in Returns : returns[r].by = q \/ returns'[r].by = q => returns'[r] = returns[r]
      /\ \A v \in Variants : inventory[v].by = q \/ inventory'[v].by = q =>
                               inventory'[v] = inventory[v]
  BY <1>1
<1>3. /\ At(q, "credit") => client[q].ret \in Returns
      /\ \A r \in Returns : returns[r].live.status = "ACCEPTED" => returns[r].live.variant \in Variants
  BY DEF IInv, Placed, ReturnsAreLinked
<1>4. \A r \in Returns : Crediting(q, r)' <=> Crediting(q, r)
  BY <1>1 DEF Crediting, At
<1>5. InHand(q)
  OBVIOUS
<1>6. At(q, "credit")' =>
          /\ returns'[client'[q].ret].by = q /\ returns'[client'[q].ret].live.status = "ACCEPTED"
          /\ returns'[client'[q].ret].live.variant = client'[q].line
  BY <1>1, <1>2, <1>3, <1>5 DEF InHand, At
<1>7. ASSUME NEW r \in Returns, returns'[r].by = q
      PROVE  /\ returns'[r].com.status # "ACCEPTED"
             /\ returns'[r].live.status = "ACCEPTED" /\ ~Crediting(q, r)' =>
                   /\ inventory'[returns'[r].live.variant].by = q
                   /\ LastRef(inventory'[returns'[r].live.variant].live) = ReturnRef(r)
  BY <1>2, <1>3, <1>4, <1>5, <1>7 DEF InHand
<1>8. ASSUME NEW v \in Variants, NEW r \in Returns,
             inventory'[v].by = q, LastRef(inventory'[v].live) = ReturnRef(r)
      PROVE  /\ returns'[r].by = q /\ returns'[r].live.status = "ACCEPTED"
             /\ returns'[r].live.variant = v /\ ~Crediting(q, r)'
  BY <1>2, <1>4, <1>5, <1>8 DEF InHand
<1> QED BY <1>6, <1>7, <1>8 DEF InHand

\* A statement about neither stock nor returns, before or after which nothing is
\* about to be credited, leaves what its client has in hand.
LEMMA QuietLemma ==
    ASSUME IInv, \A q \in Clients : InHand(q), NEW p \in Clients,
           UNCHANGED <<inventory, returns>>,
           \A q \in Clients : q # p => client'[q] = client[q],
           client[p].pc # "credit", client'[p].pc # "credit"
    PROVE  (\A q \in Clients : InHand(q))'
<1>1. \A r \in Returns : ~Crediting(p, r) /\ ~Crediting(p, r)'
  BY DEF Crediting, At
<1>2. InHand(p)
  OBVIOUS
<1>3. InHand(p)'
  BY <1>1, <1>2 DEF InHand, At
<1> QED BY <1>3, InHandLemma

\* The statements that are quiet.
LEMMA QuietStatements ==
    ASSUME IInv, \A q \in Clients : InHand(q), NEW p \in Clients,
           \/ \E req \in Requests : Begin(p, req)
           \/ InsertOrder(p) \/ ReadOrder(p) \/ ClaimTicket(p) \/ CountReturns(p)
           \/ ReadFlag(p) \/ ClaimFlag(p) \/ Decide(p) \/ ReadReturn(p)
           \/ \E v \in Variants : CheckEligible(p, v)
    PROVE  (\A q \in Clients : InHand(q))'
<1>1. client \in [Clients -> Client]
  BY DEF IInv, TypeOK, Client
<1>2. UNCHANGED <<inventory, returns>> /\ client[p].pc # "credit"
  BY DEF Begin, InsertOrder, ReadOrder, ClaimTicket, CountReturns, ReadFlag, ClaimFlag, Decide,
         ReadReturn, CheckEligible, WriteOrder, Reads, At
<1>3. ASSUME NEW c \in Client, client' = [client EXCEPT ![p] = c], c.pc # "credit"
      PROVE  client'[p].pc # "credit" /\ \A q \in Clients : q # p => client'[q] = client[q]
  BY <1>1, <1>3
<1>4. ASSUME NEW label, label # "credit", Goto(p, label)
      PROVE  client'[p].pc # "credit" /\ \A q \in Clients : q # p => client'[q] = client[q]
  BY <1>1, <1>4 DEF Goto, Client
<1>5. client'[p].pc # "credit" /\ \A q \in Clients : q # p => client'[q] = client[q]
  <2>1. CASE \E req \in Requests : Begin(p, req)
    BY <1>1, <2>1 DEF Begin, Client
  <2>2. CASE InsertOrder(p)
    BY <1>1, <2>2 DEF InsertOrder, Client
  <2>3. CASE ReadOrder(p)
    <3>1. AfterRead(client[p].req) # "credit"
      <4>1. client[p].req.op \in {"COMPLETE", "CANCEL", "STATUS", "RETURN"}
        BY <2>3 DEF ReadOrder
      <4>2. client[p].req.op # "STATUS" => client[p].req.next = "NONE"
        BY <1>1, RequestLemma DEF Client
      <4> QED BY <4>1, <4>2, AfterReadLemma
    <3> QED BY <1>1, <2>3, <3>1 DEF ReadOrder, Client
  <2>4. CASE ClaimTicket(p) \/ CountReturns(p) \/ ReadFlag(p) \/ Decide(p) \/ ReadReturn(p)
    <3>1. PICK label : label # "credit" /\ Goto(p, label)
      BY <2>4 DEF ClaimTicket, CountReturns, ReadFlag, Decide, ReadReturn, AfterStock
    <3> QED BY <1>4, <3>1
  <2>5. CASE ClaimFlag(p)
    <3>1. CASE Goto(p, AfterStock(p))
      BY <1>4, <3>1 DEF AfterStock
    <3>2. CASE client' = [client EXCEPT ![p].pc = IF At(p, "take") THEN "sell" ELSE "restore",
                                        ![p].todo = Asked(Order(p).items)]
      BY <1>1, <3>2 DEF Client
    <3> QED BY <2>5, <3>1, <3>2 DEF ClaimFlag
  <2>6. ASSUME NEW v \in Variants, CheckEligible(p, v)
        PROVE  client'[p].pc # "credit" /\ \A q \in Clients : q # p => client'[q] = client[q]
    <3> DEFINE c == [client[p] EXCEPT !.pc = "enter", !.line = v]
    <3>1. c \in Client /\ c.pc = "enter"
      BY <1>1 DEF Client, Labels
    <3>2. client' = [client EXCEPT ![p] = c]
      BY <1>1, <2>6 DEF CheckEligible, Client
    <3> HIDE DEF c
    <3> QED BY <1>3, <3>1, <3>2
  <2> QED BY <2>1, <2>2, <2>3, <2>4, <2>5, <2>6
<1> QED BY <1>2, <1>5, QuietLemma

\* A return that is entered as accepted is the one about to be credited.
LEMMA InsertReturnInHand ==
    ASSUME IInv, \A q \in Clients : InHand(q), NEW p \in Clients, NEW r \in Returns,
           InsertReturn(p, r)
    PROVE  (\A q \in Clients : InHand(q))'
<1> DEFINE req == client[p].req
           v   == client[p].line
           row == [status |-> IF req.accept THEN "ACCEPTED" ELSE "REQUESTED",
                   order |-> req.order, variant |-> v, qty |-> req.lines[v]]
<1>1. client \in [Clients -> Client] /\ returns \in [Returns -> Cells(ReturnRows)]
  BY DEF IInv, TypeOK, Client
<1>2. /\ \A q \in Clients : q # p => client'[q] = client[q]
      /\ client'[p].ret = r /\ client'[p].line = v
      /\ client'[p].pc = "credit" => req.accept
      /\ req.accept => client'[p].pc = "credit"
  BY <1>1 DEF InsertReturn, Client
<1>3. /\ UNCHANGED inventory /\ client[p].pc = "enter"
      /\ returns[r] = Cell(NoReturn) /\ returns' = [returns EXCEPT ![r] = Written(@, p, row)]
  BY DEF InsertReturn, At
<1>4. /\ returns[r].by = Nobody /\ returns[r].com.status = "NONE" /\ returns[r].by # p
  BY <1>3, NobodyAssumption DEF Cell, NoReturn
<1>5. row.status = "ACCEPTED" <=> req.accept
  OBVIOUS
<1>6. row.variant = v
  OBVIOUS
<1> HIDE DEF row
<1>7. /\ \A x \in Returns : x # r => returns'[x] = returns[x]
      /\ returns'[r].by = p /\ returns'[r].live = row /\ returns'[r].com = returns[r].com
  <2>1. returns[r] \in Cells(ReturnRows)
    BY <1>1
  <2> QED BY <1>1, <1>3, <2>1 DEF Written, Cells
<1>8. InHand(p)
  OBVIOUS
<1>9. /\ \A x \in Returns : ~Crediting(p, x)
      /\ \A x \in Returns : Crediting(p, x)' <=> x = r /\ req.accept
  BY <1>2, <1>3 DEF Crediting, At
<1>10. InHand(p)'
  <2>1. At(p, "credit")' =>
            /\ returns'[client'[p].ret].by = p /\ returns'[client'[p].ret].live.status = "ACCEPTED"
            /\ returns'[client'[p].ret].live.variant = client'[p].line
    BY <1>2, <1>5, <1>6, <1>7 DEF At
  <2>2. ASSUME NEW x \in Returns, returns'[x].by = p
        PROVE  /\ returns'[x].com.status # "ACCEPTED"
               /\ returns'[x].live.status = "ACCEPTED" /\ ~Crediting(p, x)' =>
                     /\ inventory'[returns'[x].live.variant].by = p
                     /\ LastRef(inventory'[returns'[x].live.variant].live) = ReturnRef(x)
    <3>1. CASE x = r
      BY <1>4, <1>5, <1>7, <1>9, <3>1
    <3>2. CASE x # r
      BY <1>3, <1>7, <1>8, <1>9, <2>2, <3>2 DEF InHand
    <3> QED BY <3>1, <3>2
  <2>3. ASSUME NEW w \in Variants, NEW x \in Returns,
               inventory'[w].by = p, LastRef(inventory'[w].live) = ReturnRef(x)
        PROVE  /\ returns'[x].by = p /\ returns'[x].live.status = "ACCEPTED"
               /\ returns'[x].live.variant = w /\ ~Crediting(p, x)'
    <3>1. returns[x].by = p /\ returns[x].live.status = "ACCEPTED" /\ returns[x].live.variant = w
      BY <1>3, <1>8, <2>3 DEF InHand
    <3>2. x # r
      BY <1>4, <3>1
    <3> QED BY <1>7, <1>9, <3>1, <3>2
  <2> QED BY <2>1, <2>2, <2>3 DEF InHand
<1>11. \A x \in Returns : \/ returns'[x] = returns[x]
                          \/ returns[x].by \in {Nobody, p} /\ returns'[x].by \in {Nobody, p}
  BY <1>4, <1>7
<1> QED BY <1>2, <1>3, <1>10, <1>11, InHandLemma

\* A return on file is accepted, or rejected, by one who finds it REQUESTED.
LEMMA DecideReturnInHand ==
    ASSUME IInv, \A q \in Clients : InHand(q), NEW p \in Clients,
           AcceptReturn(p) \/ RejectReturn(p)
    PROVE  (\A q \in Clients : InHand(q))'
<1>1. client \in [Clients -> Client] /\ returns \in [Returns -> Cells(ReturnRows)]
  BY DEF IInv, TypeOK, Client
<1>2. PICK r \in Returns : r = client[p].req.ret
  BY <1>1, RequestLemma DEF Client, AcceptReturn, RejectReturn, Op
<1>3. client[p].pc = "decide" /\ InHand(p) /\ \A x \in Returns : ~Crediting(p, x)
  BY DEF AcceptReturn, RejectReturn, At, Crediting
<1>4. \A q \in Clients : q # p => client'[q] = client[q]
  BY <1>1 DEF AcceptReturn, RejectReturn, Goto
<1>5. ASSUME NEW status \in {"ACCEPTED", "REJECTED"}, Return(r, p).status = "REQUESTED",
             Free(returns[r], p), UNCHANGED inventory,
             returns' = [returns EXCEPT ![r] = Written(@, p, [See(@, p) EXCEPT !.status = status])],
             status = "ACCEPTED" => /\ client'[p].pc = "credit" /\ client'[p].ret = r
                                    /\ client'[p].line = Return(r, p).variant,
             status = "REJECTED" => client'[p].pc = "commit"
      PROVE  (\A q \in Clients : InHand(q))'
  <2> DEFINE row == [See(returns[r], p) EXCEPT !.status = status]
  <2>1. returns[r] \in Cells(ReturnRows) /\ See(returns[r], p) \in ReturnRows
    BY <1>1, <1>2 DEF See, Cells
  <2>2. row.status = status /\ row.variant = Return(r, p).variant
    BY <2>1 DEF ReturnRows, Return
  <2> HIDE DEF row
  <2>3. returns' = [returns EXCEPT ![r] = Written(@, p, row)]
    BY <1>5 DEF row
  <2>4. /\ \A x \in Returns : x # r => returns'[x] = returns[x]
        /\ returns'[r].by = p /\ returns'[r].live = row /\ returns'[r].com = returns[r].com
    BY <1>1, <1>2, <2>1, <2>3 DEF Written, Cells
  <2>5. returns[r].com.status # "ACCEPTED"
    <3>1. CASE returns[r].by = p
      BY <1>2, <1>3, <3>1 DEF InHand
    <3>2. CASE returns[r].by # p
      BY <1>5, <3>2 DEF Return, See
    <3> QED BY <3>1, <3>2
  <2>6. /\ \A x \in Returns : x # r => ~Crediting(p, x)'
        /\ status = "ACCEPTED" => Crediting(p, r)'
    BY <1>5 DEF Crediting, At
  <2>7. At(p, "credit")' =>
            /\ returns'[client'[p].ret].by = p /\ returns'[client'[p].ret].live.status = "ACCEPTED"
            /\ returns'[client'[p].ret].live.variant = client'[p].line
    BY <1>5, <2>2, <2>4 DEF At
  <2>8. ASSUME NEW x \in Returns, returns'[x].by = p
        PROVE  /\ returns'[x].com.status # "ACCEPTED"
               /\ returns'[x].live.status = "ACCEPTED" /\ ~Crediting(p, x)' =>
                     /\ inventory'[returns'[x].live.variant].by = p
                     /\ LastRef(inventory'[returns'[x].live.variant].live) = ReturnRef(x)
    <3>1. CASE x = r
      BY <2>2, <2>4, <2>5, <2>6, <3>1
    <3>2. CASE x # r
      BY <1>3, <1>5, <2>4, <2>8, <3>2 DEF InHand
    <3> QED BY <3>1, <3>2
  <2>9. ASSUME NEW w \in Variants, NEW x \in Returns,
               inventory'[w].by = p, LastRef(inventory'[w].live) = ReturnRef(x)
        PROVE  /\ returns'[x].by = p /\ returns'[x].live.status = "ACCEPTED"
               /\ returns'[x].live.variant = w /\ ~Crediting(p, x)'
    <3>1. returns[x].by = p /\ returns[x].live.status = "ACCEPTED" /\ returns[x].live.variant = w
      BY <1>3, <1>5, <2>9 DEF InHand
    <3>2. x # r
      BY <1>5, <3>1 DEF Return, See
    <3> QED BY <2>4, <2>6, <3>1, <3>2
  <2>10. InHand(p)'
    BY <2>7, <2>8, <2>9 DEF InHand
  <2>11. \A x \in Returns : \/ returns'[x] = returns[x]
                            \/ returns[x].by \in {Nobody, p} /\ returns'[x].by \in {Nobody, p}
    BY <1>5, <2>4 DEF Free
  <2> QED BY <1>4, <1>5, <2>10, <2>11, InHandLemma
<1>6. CASE AcceptReturn(p)
  <2>1. /\ client'[p].pc = "credit" /\ client'[p].ret = r
        /\ client'[p].line = Return(r, p).variant
    BY <1>1, <1>2, <1>6 DEF AcceptReturn, Client
  <2> QED BY <1>2, <1>5, <1>6, <2>1 DEF AcceptReturn, WriteReturn
<1>7. CASE RejectReturn(p) /\ Return(r, p).status = "REQUESTED"
  <2>1. client'[p].pc = "commit"
    BY <1>1, <1>7 DEF RejectReturn, Goto, Client
  <2>2. WriteReturn(p, "REJECTED")
    BY <1>2, <1>7 DEF RejectReturn
  <2> QED BY <1>2, <1>5, <1>7, <2>1, <2>2 DEF WriteReturn
<1>8. CASE RejectReturn(p) /\ Return(r, p).status # "REQUESTED"
  <2>1. client'[p].pc = "commit"
    BY <1>1, <1>8 DEF RejectReturn, Goto, Client
  <2>2. UNCHANGED <<inventory, returns>>
    BY <1>2, <1>8 DEF RejectReturn, Reads
  <2> QED BY <1>3, <1>4, <2>1, <2>2, QuietLemma
<1> QED BY <1>6, <1>7, <1>8

\* What a movement that is applied cites.
LEMMA AppliedCites ==
    ASSUME NEW row \in Rows, NEW type, NEW q, NEW ref
    PROVE  LastRef(Applied(row, type, q, ref)) = ref
<1> DEFINE e == [type |-> type, delta |-> Signed(type, q),
                 prev |-> (row.qty + Signed(type, q)) - Signed(type, q),
                 new |-> row.qty + Signed(type, q), ref |-> ref]
<1>1. Applied(row, type, q, ref).log = Append(row.log, e)
  BY DEF Applied
<1>2. e.ref = ref
  OBVIOUS
<1> HIDE DEF e
<1>3. row.log \in Seq(Entries)
  BY DEF Rows
<1>4. /\ Len(Append(row.log, e)) = Len(row.log) + 1
      /\ Append(row.log, e)[Len(row.log) + 1] = e
  BY <1>3
<1> QED BY <1>1, <1>2, <1>4 DEF LastRef

\* The return about to be credited is credited to the row of its variant.
LEMMA MoveLineInHand ==
    ASSUME IInv, \A q \in Clients : InHand(q), NEW p \in Clients, NEW v \in Variants,
           MoveLine(p, v)
    PROVE  (\A q \in Clients : InHand(q))'
<1> DEFINE m   == Movement(p, v)
           row == Applied(inventory[v].com, m.type, m.qty, m.ref)
<1>1. client \in [Clients -> Client] /\ inventory \in [Variants -> Cells(Rows)]
  BY DEF IInv, TypeOK, Client, Rows
<1>2. /\ At(p, "sell") \/ At(p, "restore") \/ At(p, "credit")
      /\ At(p, "credit") => v = client[p].line
      /\ UNCHANGED returns
  BY DEF MoveLine
<1>3. inventory[v].by # p /\ inventory[v].by \in {Nobody, p}
  BY TodoLemma DEF MoveLine, Free
<1>4. inventory' = [inventory EXCEPT ![v] = Written(@, p, row)]
  BY <1>3 DEF MoveLine, See
<1>5. inventory[v] \in Cells(Rows) /\ inventory[v].com \in Rows
  BY <1>1 DEF Cells
<1>6. LastRef(row) = m.ref
  BY <1>5, AppliedCites
<1>7. \A r \in Returns : m.ref = ReturnRef(r) <=> Crediting(p, r)
  BY <1>2, CreditingLemma
<1> HIDE DEF row, m
<1>8. /\ \A w \in Variants : w # v => inventory'[w] = inventory[w]
      /\ inventory'[v].by = p /\ inventory'[v].live = row
  BY <1>1, <1>4, <1>5 DEF Written, Cells
<1>9. \A q \in Clients : q # p => client'[q] = client[q]
  BY <1>1 DEF MoveLine
<1>10. client'[p].pc # "credit" /\ \A r \in Returns : ~Crediting(p, r)'
  <2>1. client'[p].pc = AfterMove(p, client[p].todo \ {v})
    BY <1>1 DEF MoveLine, Client
  <2>2. AfterMove(p, client[p].todo \ {v}) # "credit"
    <3>1. CASE At(p, "credit")
      BY <3>1 DEF AfterMove, At
    <3>2. CASE ~At(p, "credit")
      BY <1>2, <3>2, AfterMoveLemma DEF At
    <3> QED BY <3>1, <3>2
  <2> QED BY <2>1, <2>2 DEF Crediting, At
<1>11. InHand(p)
  OBVIOUS
<1>12. \A r \in Returns : Crediting(p, r) =>
          /\ returns[r].by = p /\ returns[r].live.status = "ACCEPTED" /\ returns[r].live.variant = v
  BY <1>2, <1>11 DEF InHand, Crediting
<1>13. InHand(p)'
  <2>1. ASSUME NEW r \in Returns, returns[r].by = p
        PROVE  /\ returns[r].com.status # "ACCEPTED"
               /\ returns[r].live.status = "ACCEPTED" =>
                     /\ inventory'[returns[r].live.variant].by = p
                     /\ LastRef(inventory'[returns[r].live.variant].live) = ReturnRef(r)
    <3>1. CASE Crediting(p, r)
      <4>1. returns[r].com.status # "ACCEPTED"
        BY <1>11, <2>1 DEF InHand
      <4>2. returns[r].live.variant = v /\ LastRef(row) = ReturnRef(r)
        BY <1>6, <1>7, <1>12, <3>1
      <4> QED BY <1>8, <4>1, <4>2
    <3>2. CASE ~Crediting(p, r)
      <4>1. returns[r].live.status = "ACCEPTED" => returns[r].live.variant \in Variants
        BY DEF IInv, ReturnsAreLinked
      <4> QED BY <1>3, <1>8, <1>11, <2>1, <3>2, <4>1 DEF InHand
    <3> QED BY <3>1, <3>2
  <2>2. ASSUME NEW w \in Variants, NEW r \in Returns,
               inventory'[w].by = p, LastRef(inventory'[w].live) = ReturnRef(r)
        PROVE  /\ returns[r].by = p /\ returns[r].live.status = "ACCEPTED"
               /\ returns[r].live.variant = w
    <3>1. CASE w = v
      BY <1>6, <1>7, <1>8, <1>12, <2>2, <3>1
    <3>2. CASE w # v
      BY <1>8, <1>11, <2>2, <3>2 DEF InHand
    <3> QED BY <3>1, <3>2
  <2> QED BY <1>2, <1>10, <2>1, <2>2 DEF InHand, At
<1>14. \A w \in Variants : \/ inventory'[w] = inventory[w]
                           \/ inventory[w].by \in {Nobody, p} /\ inventory'[w].by \in {Nobody, p}
  BY <1>3, <1>8
<1> QED BY <1>2, <1>9, <1>13, <1>14, InHandLemma

\* Whoever has ended a transaction has nothing in hand.
LEMMA EndInHand ==
    ASSUME IInv, \A q \in Clients : InHand(q), NEW p \in Clients, Commit(p) \/ Rollback(p)
    PROVE  (\A q \in Clients : InHand(q))'
<1>1. /\ client \in [Clients -> Client] /\ p # Nobody
      /\ inventory \in [Variants -> Cells(Rows)] /\ returns \in [Returns -> Cells(ReturnRows)]
      /\ DOMAIN inventory = Variants /\ DOMAIN returns = Returns
      /\ \A row : Cell(row).by = Nobody
  BY NobodyAssumption DEF IInv, TypeOK, Client, Rows, Cell
<1>2. client'[p] = Idle /\ \A q \in Clients : q # p => client'[q] = client[q]
  BY <1>1 DEF Commit, Rollback
<1>3. \A v \in Variants : IF inventory[v].by = p THEN inventory'[v].by = Nobody
                                                ELSE inventory'[v] = inventory[v]
  <2>1. Ended(inventory, inventory', p)
    BY <1>1, ClosedLemma DEF Commit, Rollback
  <2> QED BY <1>1, <2>1 DEF Ended
<1>4. \A r \in Returns : IF returns[r].by = p THEN returns'[r].by = Nobody
                                             ELSE returns'[r] = returns[r]
  <2>1. Ended(returns, Committed(returns, p), p) /\ Ended(returns, RolledBack(returns, p), p)
    BY <1>1, ClosedLemma
  <2>2. Ended(returns, returns', p)
    BY <2>1 DEF Commit, Rollback
  <2> QED BY <1>1, <2>2 DEF Ended
<1>5. InHand(p)'
  BY <1>1, <1>2, <1>3, <1>4 DEF InHand, At, Idle
<1> QED BY <1>2, <1>3, <1>4, <1>5, InHandLemma

\* The entries of a row that cite a return.
Citing(row, r) == {i \in DOMAIN row.log : row.log[i].ref \in {ReturnRef(r)}}

LEMMA CitingLemma ==
    ASSUME NEW row \in Rows, NEW r
    PROVE  /\ IsFiniteSet(Citing(row, r))
           /\ Cardinality(Citing(row, r)) = 0 <=> Citing(row, r) = {}
<1>1. row.log \in Seq(Entries) /\ Len(row.log) \in Nat /\ DOMAIN row.log = 1..Len(row.log)
  BY DEF Rows
<1>2. IsFiniteSet(1..Len(row.log))
  BY <1>1, FS_Interval
<1>3. Citing(row, r) \subseteq 1..Len(row.log)
  BY <1>1 DEF Citing
<1>4. IsFiniteSet(Citing(row, r))
  BY <1>2, <1>3, FS_Subset
<1> QED BY <1>4, FS_EmptySet

\* One movement more cites what it cites.
LEMMA OneMoreCites ==
    ASSUME NEW old \in Rows, NEW new \in Rows, Ledger!OneMovement(old, new), NEW r
    PROVE  /\ LastRef(new) # ReturnRef(r) => Citing(new, r) = Citing(old, r)
           /\ LastRef(new) = ReturnRef(r) /\ Citing(old, r) = {} =>
                 Citing(new, r) = {Len(new.log)}
<1> DEFINE n == Len(old.log)
<1>1. PICK e : new.log = Append(old.log, e)
  BY DEF Ledger!OneMovement, Ledger!Applied
<1>2. old.log \in Seq(Entries) /\ new.log \in Seq(Entries) /\ Len(new.log) = n + 1
  BY DEF Rows, Ledger!OneMovement
<1>3. /\ n \in Nat /\ DOMAIN old.log = 1..n /\ DOMAIN new.log = 1..(n + 1)
      /\ \A i \in 1..n : new.log[i] = old.log[i]
  BY <1>1, <1>2
<1>4. LastRef(new) = new.log[n + 1].ref
  BY <1>2 DEF LastRef
<1> HIDE DEF n
<1>5. Citing(new, r) = Citing(old, r) \cup (IF LastRef(new) = ReturnRef(r) THEN {n + 1} ELSE {})
  BY <1>3, <1>4 DEF Citing
<1> QED BY <1>2, <1>5

\* A commit publishes the acceptance of a return and its movement together.
LEMMA CommitCredits ==
    ASSUME IInv, Credits, NEW p \in Clients, Commit(p)
    PROVE  ReturnCreditedOnce'
<1> SUFFICES ASSUME NEW r \in Returns, NEW v \in Variants
             PROVE  Cardinality(Citing(inventory'[v].com, r)) =
                        IF /\ returns'[r].com.status = "ACCEPTED"
                           /\ returns'[r].com.variant = v THEN 1 ELSE 0
  BY DEF ReturnCreditedOnce, Committing, Citing
<1>1. /\ inventory \in [Variants -> Cells(Rows)] /\ returns \in [Returns -> Cells(ReturnRows)]
      /\ p # Nobody
  BY NobodyAssumption DEF IInv, TypeOK, Rows
<1>2. inventory[v].com \in Rows /\ inventory[v].live \in Rows
  BY <1>1 DEF Cells
<1>3. /\ inventory'[v].com = IF inventory[v].by = p THEN inventory[v].live ELSE inventory[v].com
      /\ returns'[r].com = IF returns[r].by = p THEN returns[r].live ELSE returns[r].com
  <2>1. \A row : Cell(row).com = row
    BY DEF Cell
  <2>2. inventory' = Committed(inventory, p) /\ returns' = Committed(returns, p)
    BY DEF Commit
  <2>3. inventory'[v] = IF inventory[v].by = p THEN Cell(inventory[v].live) ELSE inventory[v]
    BY <1>1, <2>2, EndLemma
  <2>4. returns'[r] = IF returns[r].by = p THEN Cell(returns[r].live) ELSE returns[r]
    BY <1>1, <2>2, EndLemma
  <2> QED BY <2>1, <2>3, <2>4
<1>4. InHand(p) /\ ~Crediting(p, r)
  BY DEF Credits, Commit, Crediting, At
<1>5. Cardinality(Citing(inventory[v].com, r)) =
          IF returns[r].com.status = "ACCEPTED" /\ returns[r].com.variant = v THEN 1 ELSE 0
  BY DEF Credits, ReturnCreditedOnce, Committing, Citing
<1>6. inventory[v].by = p => Ledger!OneMovement(inventory[v].com, inventory[v].live)
  BY <1>1 DEF IInv, VersionsAreHeld
<1>7. CASE inventory[v].by = p /\ LastRef(inventory[v].live) = ReturnRef(r)
  <2>1. /\ returns[r].by = p /\ returns[r].live.status = "ACCEPTED"
        /\ returns[r].live.variant = v /\ returns[r].com.status # "ACCEPTED"
    BY <1>4, <1>7 DEF InHand
  <2>2. Citing(inventory[v].com, r) = {}
    BY <1>2, <1>5, <2>1, CitingLemma
  <2>3. Citing(inventory'[v].com, r) = {Len(inventory[v].live.log)}
    BY <1>2, <1>3, <1>6, <1>7, <2>2, OneMoreCites
  <2> QED BY <1>3, <2>1, <2>3, FS_Singleton
<1>8. CASE ~(inventory[v].by = p /\ LastRef(inventory[v].live) = ReturnRef(r))
  <2>1. Citing(inventory'[v].com, r) = Citing(inventory[v].com, r)
    BY <1>2, <1>3, <1>6, <1>8, OneMoreCites
  <2>2. returns[r].by = p => /\ returns[r].com.status # "ACCEPTED"
                             /\ ~(returns[r].live.status = "ACCEPTED" /\ returns[r].live.variant = v)
    BY <1>4, <1>8 DEF InHand
  <2> QED BY <1>3, <1>5, <2>1, <2>2
<1> QED BY <1>7, <1>8

\* Until a transaction commits nobody sees its returns either.
LEMMA OthersDecideNothing ==
    ASSUME IInv, NEW p \in Clients, Step(p), ~Commit(p)
    PROVE  \A r \in Returns : returns'[r].com = returns[r].com
<1>1. returns \in [Returns -> Cells(ReturnRows)]
  BY DEF IInv, TypeOK
<1>2. CASE UNCHANGED returns
  BY <1>2
<1>3. ASSUME NEW r, NEW row, returns' = [returns EXCEPT ![r] = Written(@, p, row)]
      PROVE  \A x \in Returns : returns'[x].com = returns[x].com
  <2>1. \A x \in Returns : Written(returns[x], p, row).com = returns[x].com
    BY <1>1 DEF Written, Cells
  <2>2. \A x \in Returns : returns'[x] = returns[x] \/ returns'[x] = Written(returns[x], p, row)
    BY <1>1, <1>3
  <2> QED BY <2>1, <2>2
<1>4. ASSUME NEW r \in Returns, InsertReturn(p, r)
      PROVE  \A x \in Returns : returns'[x].com = returns[x].com
  BY <1>3, <1>4 DEF InsertReturn
<1>5. ASSUME NEW status, WriteReturn(p, status)
      PROVE  \A x \in Returns : returns'[x].com = returns[x].com
  BY <1>3, <1>5 DEF WriteReturn
<1>6. CASE Rollback(p)
  <2>1. \A x \in Returns : returns'[x] = IF returns[x].by = p THEN Cell(returns[x].com) ELSE returns[x]
    BY <1>1, <1>6, EndLemma DEF Rollback
  <2>2. \A row : Cell(row).com = row
    BY DEF Cell
  <2>3. ASSUME NEW x \in Returns
        PROVE  returns'[x].com = returns[x].com
    <3>1. CASE returns[x].by = p
      <4>1. returns'[x] = Cell(returns[x].com)
        BY <2>1, <3>1
      <4> QED BY <2>2, <4>1
    <3>2. CASE returns[x].by # p
      BY <2>1, <3>2
    <3> QED BY <3>1, <3>2
  <2> QED BY <2>3
<1> QED BY <1>2, <1>4, <1>5, <1>6 DEF Step, Begin, InsertOrder, ReadOrder, ClaimTicket,
           CountReturns, ReadFlag, ClaimFlag, Decide, MoveLine, CheckEligible, ReadReturn,
           AcceptReturn, RejectReturn, WriteOrder, Reads

\* Credits holds at first and whatever step is taken.
LEMMA InitCredits == Init => Credits
<1> SUFFICES ASSUME Init
             PROVE  Credits
  OBVIOUS
<1>1. IInv
  BY InitIInv
<1>2. /\ \A v \in Variants : inventory[v] = Cell(Opened(v))
      /\ \A r \in Returns : returns[r] = Cell(NoReturn)
      /\ \A p \in Clients : client[p] = Idle
  BY DEF Init
<1>3. \A row : Cell(row).by = Nobody /\ Cell(row).com = row
  BY DEF Cell
<1>4. ASSUME NEW p \in Clients
      PROVE  InHand(p)
  BY <1>2, <1>3, NobodyAssumption DEF InHand, At, Idle
<1>5. ASSUME NEW r \in Returns, NEW v \in Variants
      PROVE  Cardinality(Citing(Opened(v), r)) = 0
  <2>1. Opened(v) \in Rows
    BY OpenedLemma
  <2>2. Citing(Opened(v), r) = {}
    <3>1. CASE Opening[v] > 0
      <4> DEFINE e == [type |-> "ADJUSTMENT_IN", delta |-> Signed("ADJUSTMENT_IN", Opening[v]),
                       prev |-> (0 + Signed("ADJUSTMENT_IN", Opening[v]))
                                    - Signed("ADJUSTMENT_IN", Opening[v]),
                       new |-> 0 + Signed("ADJUSTMENT_IN", Opening[v]), ref |-> Manual]
      <4>1. Opened(v).log = Append(<< >>, e) /\ e.ref = Manual
        BY <3>1 DEF Opened, Applied, EmptyRow
      <4> HIDE DEF e
      <4>2. Opened(v).log = <<e>> /\ e.ref # ReturnRef(r)
        BY <4>1 DEF Manual, ReturnRef
      <4> QED BY <4>2 DEF Citing
    <3>2. CASE ~(Opening[v] > 0)
      BY <3>2 DEF Opened, EmptyRow, Citing
    <3> QED BY <3>1, <3>2
  <2> QED BY <2>1, <2>2, CitingLemma
<1>6. ReturnCreditedOnce
  BY <1>2, <1>3, <1>5 DEF ReturnCreditedOnce, Committing, Citing, NoReturn
<1> QED BY <1>4, <1>6 DEF Credits

LEMMA StepCredits == IInv /\ Credits /\ [Next]_vars => Credits'
<1> SUFFICES ASSUME IInv, Credits, [Next]_vars
             PROVE  Credits'
  OBVIOUS
<1>1. CASE UNCHANGED vars
  BY <1>1 DEF vars, Credits, ReturnCreditedOnce, Committing, InHand, Crediting, At
<1>2. ASSUME NEW p \in Clients, Step(p)
      PROVE  Credits'
  <2>1. (\A q \in Clients : InHand(q))'
    BY <1>2, QuietStatements, InsertReturnInHand, DecideReturnInHand, MoveLineInHand, EndInHand
       DEF Step, Credits
  <2>2. ReturnCreditedOnce'
    <3>1. CASE Commit(p)
      BY <3>1, CommitCredits
    <3>2. CASE ~Commit(p)
      <4>1. \A v \in Variants : inventory'[v].com = inventory[v].com
        <5>1. Snapshot(inventory') = Snapshot(inventory)
          BY <1>2, <3>2, OthersMoveNothing
        <5>2. DOMAIN inventory = Variants /\ DOMAIN inventory' = Variants
          BY StepIInv DEF IInv, TypeOK
        <5>3. ASSUME NEW v \in Variants
              PROVE  inventory'[v].com = inventory[v].com
          <6>1. Snapshot(inventory)[v] = inventory[v].com
            BY <5>2 DEF Snapshot
          <6>2. Snapshot(inventory')[v] = inventory'[v].com
            BY <5>2 DEF Snapshot
          <6> QED BY <5>1, <6>1, <6>2
        <5> QED BY <5>3
      <4>2. \A r \in Returns : returns'[r].com = returns[r].com
        BY <1>2, <3>2, OthersDecideNothing
      <4> QED BY <4>1, <4>2 DEF Credits, ReturnCreditedOnce, Committing
    <3> QED BY <3>1, <3>2
  <2> QED BY <2>1, <2>2 DEF Credits
<1> QED BY <1>1, <1>2 DEF Next

\* However create, accept and reject of ReturnService interleave with each
\* other and with everything else, a return has one credit in the ledger when
\* it is ACCEPTED and none before or otherwise.
THEOREM ReturnsAreCreditedOnce == Spec => []ReturnCreditedOnce
<1>1. Init => Credits
  BY InitCredits
<1>2. IInv /\ Credits /\ [Next]_vars => Credits'
  BY StepCredits
<1>3. Credits => ReturnCreditedOnce
  BY DEF Credits
<1> QED BY <1>1, <1>2, <1>3, Invariant, PTL DEF Spec

-----------------------------------------------------------------------------
\* Stock follows the flag.

\* Labels at which a client may hold an order, and those after it has claimed
\* the flag of one.
FlagLabels == {"commitStock", "releaseStock", "take", "give", "sell", "restore", "write", "commit"}
Claimed == {"sell", "restore", "write", "commit"}

Flipped(o) == orders[o].live.committed # orders[o].com.committed
Moves(p)   == At(p, "sell") \/ At(p, "restore")

LastDelta(row) == row.log[Len(row.log)].delta
About(row, o)  == LastRef(row) \in {OrderRef(o), CancelRef(o)}

\* The units the order in hand has of v are moved already.
Done(p, o, v) ==
    /\ orders[o].by = p /\ Flipped(o) /\ orders[o].live.items[v] > 0
    /\ ~(Moves(p) /\ v \in client[p].todo)

\* A client holds the order it was asked about and no other; it has claimed the
\* flag of it once at most, and only before it moves the lines; and of the
\* movements it holds those are for the order that are due to the flag: each
\* line it has moved, once, in the direction of the flag.
Holding(p) ==
    /\ \A o \in Orders : orders[o].by = p =>
          /\ o = client[p].req.order /\ client[p].pc \in FlagLabels
          /\ orders[o].com = NoOrder \/ orders[o].live.items = orders[o].com.items
          /\ Flipped(o) => client[p].pc \in Claimed
    /\ Moves(p) =>
          LET o == client[p].req.order
          IN  /\ orders[o].by = p /\ Flipped(o)
              /\ orders[o].live.committed <=> At(p, "sell")
    /\ \A o \in Orders, v \in Variants :
          LET mine == inventory[v].by = p /\ About(inventory[v].live, o)
          IN  /\ mine <=> Done(p, o, v)
              /\ mine => LastDelta(inventory[v].live) =
                            IF orders[o].live.committed THEN -orders[o].live.items[v]
                                                        ELSE orders[o].live.items[v]

\* What holds of a client speaks of its own versions only.
LEMMA HoldingLemma ==
    ASSUME IInv, \A q \in Clients : Holding(q), NEW p \in Clients,
           \A q \in Clients : q # p => client'[q] = client[q],
           \A o \in Orders : \/ orders'[o] = orders[o]
                             \/ orders[o].by \in {Nobody, p} /\ orders'[o].by \in {Nobody, p},
           \A v \in Variants : \/ inventory'[v] = inventory[v]
                               \/ /\ inventory[v].by \in {Nobody, p}
                                  /\ inventory'[v].by \in {Nobody, p},
           Holding(p)'
    PROVE  (\A q \in Clients : Holding(q))'
<1> SUFFICES ASSUME NEW q \in Clients, q # p
             PROVE  Holding(q)'
  OBVIOUS
<1>1. client'[q] = client[q] /\ q # Nobody /\ Holding(q)
  BY NobodyAssumption
<1>2. /\ \A o \in Orders : orders[o].by = q \/ orders'[o].by = q => orders'[o] = orders[o]
      /\ \A v \in Variants : inventory[v].by = q \/ inventory'[v].by = q =>
                               inventory'[v] = inventory[v]
  BY <1>1
<1>3. Moves(q) => client[q].req.order \in Orders
  BY DEF IInv, Placed, OrderLabels, Moves, At
<1>4. Moves(q)' <=> Moves(q)
  BY <1>1 DEF Moves, At
<1>5. ASSUME NEW o \in Orders, orders'[o].by = q
      PROVE  /\ o = client'[q].req.order /\ client'[q].pc \in FlagLabels
             /\ orders'[o].com = NoOrder \/ orders'[o].live.items = orders'[o].com.items
             /\ Flipped(o)' => client'[q].pc \in Claimed
  BY <1>1, <1>2, <1>5 DEF Holding, Flipped
<1>6. ASSUME Moves(q)'
      PROVE  LET o == client'[q].req.order
             IN  /\ orders'[o].by = q
                 /\ orders'[o].live.committed # orders'[o].com.committed
                 /\ orders'[o].live.committed <=> At(q, "sell")'
  <2> DEFINE o == client[q].req.order
  <2>1. /\ o \in Orders /\ orders[o].by = q /\ Flipped(o)
        /\ orders[o].live.committed <=> At(q, "sell")
    BY <1>1, <1>3, <1>4, <1>6 DEF Holding
  <2>2. client'[q].req.order = o /\ orders'[o] = orders[o]
    BY <1>1, <1>2, <2>1
  <2> HIDE DEF o
  <2> QED BY <1>1, <2>1, <2>2 DEF Flipped, At
<1>7. ASSUME NEW o \in Orders, NEW v \in Variants
      PROVE  LET mine == inventory'[v].by = q /\ About(inventory'[v].live, o)
             IN  /\ mine <=> Done(q, o, v)'
                 /\ mine => LastDelta(inventory'[v].live) =
                               IF orders'[o].live.committed THEN -orders'[o].live.items[v]
                                                            ELSE orders'[o].live.items[v]
  <2>1. Done(q, o, v)' <=> Done(q, o, v)
    BY <1>1, <1>2, <1>4 DEF Done, Flipped
  <2>2. Done(q, o, v) => orders'[o] = orders[o]
    BY <1>2 DEF Done
  <2>3. (inventory'[v].by = q /\ About(inventory'[v].live, o))
          <=> (inventory[v].by = q /\ About(inventory[v].live, o))
    BY <1>2
  <2>4. inventory[v].by = q => inventory'[v] = inventory[v]
    BY <1>2
  <2>5. LET mine == inventory[v].by = q /\ About(inventory[v].live, o)
        IN  /\ mine <=> Done(q, o, v)
            /\ mine => LastDelta(inventory[v].live) =
                          IF orders[o].live.committed THEN -orders[o].live.items[v]
                                                      ELSE orders[o].live.items[v]
    BY <1>1 DEF Holding
  <2> QED BY <2>1, <2>2, <2>3, <2>4, <2>5
<1> QED BY <1>5, <1>6, <1>7 DEF Holding, Flipped

\* A client that holds no movement for an order, and is not about to make one,
\* or has not begun to.
LEMMA NothingDone ==
    ASSUME IInv, NEW p \in Clients, Holding(p), client[p].pc \notin Claimed
    PROVE  /\ ~Moves(p)
           /\ \A o \in Orders : orders[o].by = p => ~Flipped(o)
           /\ \A o \in Orders, v \in Variants :
                 ~(inventory[v].by = p /\ About(inventory[v].live, o))
<1>1. ~Moves(p)
  BY DEF Moves, At, Claimed
<1>2. \A o \in Orders : orders[o].by = p => ~Flipped(o)
  BY DEF Holding
<1>3. \A o \in Orders, v \in Variants : ~Done(p, o, v)
  BY <1>2 DEF Done
<1> QED BY <1>1, <1>2, <1>3 DEF Holding

\* A statement that writes neither orders nor stock, of a client that has not
\* claimed a flag.
LEMMA QuietHolding ==
    ASSUME IInv, \A q \in Clients : Holding(q), NEW p \in Clients,
           UNCHANGED <<inventory, orders>>,
           \A q \in Clients : q # p => client'[q] = client[q],
           client[p].pc \notin Claimed, ~Moves(p)',
           \/ client[p].pc \notin FlagLabels
           \/ client'[p].req = client[p].req /\ client'[p].pc \in FlagLabels
    PROVE  (\A q \in Clients : Holding(q))'
<1>1. Holding(p)
  OBVIOUS
<1>2. /\ \A o \in Orders : orders[o].by = p => ~Flipped(o)
      /\ \A o \in Orders, v \in Variants : ~(inventory[v].by = p /\ About(inventory[v].live, o))
  BY <1>1, NothingDone
<1>3. \A o \in Orders : orders[o].by = p =>
          /\ o = client[p].req.order /\ client[p].pc \in FlagLabels
          /\ orders[o].com = NoOrder \/ orders[o].live.items = orders[o].com.items
  BY <1>1 DEF Holding
<1>4. \A o \in Orders : Flipped(o)' <=> Flipped(o)
  BY DEF Flipped
<1>5. \A o \in Orders, v \in Variants : ~Done(p, o, v)'
  BY <1>2, <1>4 DEF Done
<1>6. Holding(p)'
  BY <1>2, <1>3, <1>4, <1>5 DEF Holding
<1> QED BY <1>6, HoldingLemma

\* The statements that are.
LEMMA QuietlyHolding ==
    ASSUME IInv, \A q \in Clients : Holding(q), NEW p \in Clients,
           \/ \E req \in Requests : Begin(p, req)
           \/ ReadOrder(p) \/ CountReturns(p) \/ ReadFlag(p) \/ ReadReturn(p)
           \/ \E v \in Variants : CheckEligible(p, v)
           \/ \E r \in Returns : InsertReturn(p, r)
           \/ AcceptReturn(p) \/ RejectReturn(p)
    PROVE  (\A q \in Clients : Holding(q))'
<1>1. client \in [Clients -> Client]
  BY DEF IInv, TypeOK, Client
<1>2. UNCHANGED <<inventory, orders>>
  BY DEF Begin, ReadOrder, CountReturns, ReadFlag, ReadReturn, CheckEligible, InsertReturn,
         AcceptReturn, RejectReturn, WriteReturn, Reads
<1>3. client[p].pc \notin Claimed
  BY DEF Begin, ReadOrder, CountReturns, ReadFlag, ReadReturn, CheckEligible, InsertReturn,
         AcceptReturn, RejectReturn, At, Claimed
<1>4. ASSUME NEW label, label \notin {"sell", "restore"}, Goto(p, label)
      PROVE  /\ ~Moves(p)' /\ client'[p].req = client[p].req /\ client'[p].pc = label
             /\ \A q \in Clients : q # p => client'[q] = client[q]
  BY <1>1, <1>4 DEF Goto, Client, Moves, At
<1>5. CASE ReadFlag(p)
  <2>1. PICK label \in {"commit", "write", "take", "give"} : Goto(p, label)
    BY <1>5 DEF ReadFlag, AfterStock
  <2>2. label \in FlagLabels /\ label \notin {"sell", "restore"}
    BY <2>1 DEF FlagLabels
  <2> QED BY <1>2, <1>3, <1>4, <2>1, <2>2, QuietHolding
<1>6. CASE \E req \in Requests : Begin(p, req)
  <2>1. /\ client[p].pc \notin FlagLabels /\ ~Moves(p)'
        /\ \A q \in Clients : q # p => client'[q] = client[q]
    BY <1>1, <1>6 DEF Begin, Client, At, Moves, FlagLabels
  <2> QED BY <1>2, <1>3, <2>1, QuietHolding
<1>7. CASE ReadOrder(p)
  <2>1. AfterRead(client[p].req) \notin {"sell", "restore"}
    <3>1. client[p].req.op \in {"COMPLETE", "CANCEL", "STATUS", "RETURN"}
      BY <1>7 DEF ReadOrder
    <3>2. client[p].req.op # "STATUS" => client[p].req.next = "NONE"
      BY <1>1, RequestLemma DEF Client
    <3> QED BY <3>1, <3>2, AfterReadLemma
  <2>2. /\ client[p].pc \notin FlagLabels /\ ~Moves(p)'
        /\ \A q \in Clients : q # p => client'[q] = client[q]
    BY <1>1, <1>7, <2>1 DEF ReadOrder, Client, At, Moves, FlagLabels
  <2> QED BY <1>2, <1>3, <2>2, QuietHolding
<1>8. CASE CountReturns(p)
  <2>1. client[p].pc \notin FlagLabels /\ Goto(p, "releaseStock")
    BY <1>8 DEF CountReturns, At, FlagLabels
  <2> QED BY <1>2, <1>3, <1>4, <2>1, QuietHolding
<1>9. CASE ReadReturn(p)
  <2>1. client[p].pc \notin FlagLabels /\ Goto(p, "decide")
    BY <1>9 DEF ReadReturn, At, FlagLabels
  <2> QED BY <1>2, <1>3, <1>4, <2>1, QuietHolding
<1>10. CASE RejectReturn(p)
  <2>1. client[p].pc \notin FlagLabels /\ Goto(p, "commit")
    BY <1>10 DEF RejectReturn, At, FlagLabels
  <2> QED BY <1>2, <1>3, <1>4, <2>1, QuietHolding
<1>11. CASE AcceptReturn(p)
  <2>1. /\ client[p].pc \notin FlagLabels /\ ~Moves(p)'
        /\ \A q \in Clients : q # p => client'[q] = client[q]
    BY <1>1, <1>11 DEF AcceptReturn, Client, At, Moves, FlagLabels
  <2> QED BY <1>2, <1>3, <2>1, QuietHolding
<1>12. CASE \E v \in Variants : CheckEligible(p, v)
  <2>1. /\ client[p].pc \notin FlagLabels /\ ~Moves(p)'
        /\ \A q \in Clients : q # p => client'[q] = client[q]
    BY <1>1, <1>12 DEF CheckEligible, Client, At, Moves, FlagLabels
  <2> QED BY <1>2, <1>3, <2>1, QuietHolding
<1>13. CASE \E r \in Returns : InsertReturn(p, r)
  <2>1. client[p].pc = "enter" /\ client'[p].pc \in {"credit", "commit", "eligible"}
    <3>1. PICK r \in Returns : InsertReturn(p, r)
      BY <1>13
    <3> DEFINE left == client[p].todo \ {client[p].line}
               c == [client[p] EXCEPT
                       !.ret  = r, !.todo = IF client[p].req.accept THEN @ ELSE left,
                       !.pc   = IF client[p].req.accept THEN "credit"
                                ELSE IF left = {} THEN "commit" ELSE "eligible"]
    <3>2. client' = [client EXCEPT ![p] = c] /\ client[p].pc = "enter"
      BY <1>1, <3>1 DEF InsertReturn, Client, At
    <3>3. c.pc \in {"credit", "commit", "eligible"}
      BY <1>1 DEF Client
    <3> HIDE DEF c
    <3> QED BY <1>1, <3>2, <3>3
  <2>2. \A q \in Clients : q # p => client'[q] = client[q]
    BY <1>1, <1>13 DEF InsertReturn
  <2>3. client[p].pc \notin FlagLabels /\ ~Moves(p)'
    BY <2>1 DEF FlagLabels, Moves, At
  <2> QED BY <1>2, <1>3, <2>2, <2>3, QuietHolding
<1> QED BY <1>5, <1>6, <1>7, <1>8, <1>9, <1>10, <1>11, <1>12, <1>13

\* What an UPDATE of the client's order leaves.
LEMMA OrderInHand ==
    ASSUME IInv, NEW p \in Clients, NEW o \in Orders, NEW row \in OrderRows,
           Free(orders[o], p), orders' = [orders EXCEPT ![o] = Written(@, p, row)]
    PROVE  /\ \A x \in Orders : x # o => orders'[x] = orders[x]
           /\ orders'[o].by = p /\ orders'[o].live = row /\ orders'[o].com = orders[o].com
           /\ \A x \in Orders : \/ orders'[x] = orders[x]
                                \/ orders[x].by \in {Nobody, p} /\ orders'[x].by \in {Nobody, p}
           /\ orders[o].by # p => orders[o].live = orders[o].com /\ orders[o].by = Nobody
<1>1. orders \in [Orders -> Cells(OrderRows)]
  BY DEF IInv, TypeOK
<1>2. /\ \A x \in Orders : x # o => orders'[x] = orders[x]
      /\ orders'[o].by = p /\ orders'[o].live = row /\ orders'[o].com = orders[o].com
  BY <1>1, OrderWritten
<1>3. orders[o].by \in {Nobody, p}
  BY DEF Free
<1>4. orders[o].by # p => orders[o].live = orders[o].com
  BY <1>3 DEF IInv, VersionsAreHeld
<1> QED BY <1>2, <1>3, <1>4

\* An UPDATE of the client's order that leaves its lines and its flag.
LEMMA RewriteHolding ==
    ASSUME IInv, \A q \in Clients : Holding(q), NEW p \in Clients, NEW row \in OrderRows,
           client[p].req.order \in Orders, WriteOrder(p, row),
           row.items = Order(p).items, row.committed = Order(p).committed,
           \A q \in Clients : q # p => client'[q] = client[q],
           client'[p].req = client[p].req,
           client[p].pc \in {"complete", "write"},
           client'[p].pc = IF client[p].pc = "write" THEN "commit" ELSE "commitStock"
    PROVE  (\A q \in Clients : Holding(q))'
<1> DEFINE o == client[p].req.order
<1>1. Holding(p) /\ UNCHANGED inventory /\ o \in Orders
  BY DEF WriteOrder
<1>2. Free(orders[o], p) /\ orders' = [orders EXCEPT ![o] = Written(@, p, row)]
  BY DEF WriteOrder
<1>3. /\ Order(p) = IF orders[o].by = p THEN orders[o].live ELSE orders[o].com
      /\ client'[p].req.order = o
  BY DEF Order, See
<1> HIDE DEF o
<1>4. /\ \A x \in Orders : x # o => orders'[x] = orders[x]
      /\ orders'[o].by = p /\ orders'[o].live = row /\ orders'[o].com = orders[o].com
      /\ \A x \in Orders : \/ orders'[x] = orders[x]
                           \/ orders[x].by \in {Nobody, p} /\ orders'[x].by \in {Nobody, p}
      /\ orders[o].by # p => orders[o].live = orders[o].com /\ orders[o].by = Nobody
  BY <1>1, <1>2, OrderInHand
<1>5. \A x \in Orders : orders[x].by = p => x = o
  BY <1>1 DEF Holding, o
<1>6. orders'[o].live.items = orders[o].live.items /\ orders'[o].live.committed = orders[o].live.committed
  BY <1>3, <1>4
<1>7. /\ \A x \in Orders : Flipped(x)' <=> Flipped(x)
      /\ ~Moves(p) /\ ~Moves(p)'
  BY <1>4, <1>6 DEF Flipped, Moves, At
<1>8. orders[o].by # p => ~Flipped(o)
  BY <1>4 DEF Flipped
<1>9. /\ orders[o].com = NoOrder \/ orders[o].live.items = orders[o].com.items
      /\ Flipped(o) => client[p].pc \in Claimed
  BY <1>1, <1>4, <1>8 DEF Holding
<1>10. ASSUME NEW x \in Orders, orders'[x].by = p
       PROVE  /\ x = client'[p].req.order /\ client'[p].pc \in FlagLabels
              /\ orders'[x].com = NoOrder \/ orders'[x].live.items = orders'[x].com.items
              /\ Flipped(x)' => client'[p].pc \in Claimed
  <2>1. x = o
    BY <1>4, <1>5, <1>10
  <2> QED BY <1>3, <1>4, <1>6, <1>7, <1>9, <2>1 DEF FlagLabels, Claimed
<1>11. ASSUME NEW x \in Orders, NEW v \in Variants
       PROVE  Done(p, x, v)' <=> Done(p, x, v)
  <2>1. CASE x = o
    BY <1>4, <1>6, <1>7, <1>8, <2>1 DEF Done
  <2>2. CASE x # o
    BY <1>4, <1>7, <2>2 DEF Done
  <2> QED BY <2>1, <2>2
<1>12. \A x \in Orders : /\ orders'[x].live.items = orders[x].live.items
                         /\ orders'[x].live.committed = orders[x].live.committed
  BY <1>4, <1>6
<1>13. ASSUME NEW x \in Orders, NEW v \in Variants
       PROVE  LET mine == inventory'[v].by = p /\ About(inventory'[v].live, x)
              IN  /\ mine <=> Done(p, x, v)'
                  /\ mine => LastDelta(inventory'[v].live) =
                                IF orders'[x].live.committed THEN -orders'[x].live.items[v]
                                                             ELSE orders'[x].live.items[v]
  BY <1>1, <1>11, <1>12 DEF Holding
<1>14. Holding(p)'
  BY <1>7, <1>10, <1>13 DEF Holding
<1> QED BY <1>1, <1>4, <1>14, HoldingLemma

\* A ticket is claimed, or a status decided.
LEMMA ClaimAndDecideHold ==
    ASSUME IInv, \A q \in Clients : Holding(q), NEW p \in Clients,
           ClaimTicket(p) \/ Decide(p)
    PROVE  (\A q \in Clients : Holding(q))'
<1>1. client \in [Clients -> Client]
  BY DEF IInv, TypeOK, Client
<1>2. client[p].req.order \in Orders
  BY DEF ClaimTicket, Decide, IInv, Placed, At, OrderLabels
<1>3. Order(p) \in OrderRows
  BY <1>2, SeeLemma
<1>4. CASE ClaimTicket(p)
  <2> DEFINE row == [Order(p) EXCEPT !.status = "COMPLETED", !.pay = "PAID"]
  <2>1. row \in OrderRows /\ row.items = Order(p).items /\ row.committed = Order(p).committed
    BY <1>3 DEF OrderRows, OrderStatuses, PaymentStatuses
  <2>2. WriteOrder(p, row) /\ client[p].pc = "complete" /\ Goto(p, "commitStock")
    BY <1>4 DEF ClaimTicket, At
  <2> HIDE DEF row
  <2>3. /\ client'[p].pc = "commitStock" /\ client'[p].req = client[p].req
        /\ \A q \in Clients : q # p => client'[q] = client[q]
    BY <1>1, <2>2 DEF Goto, Client
  <2> QED BY <1>2, <2>1, <2>2, <2>3, RewriteHolding
<1>5. CASE Decide(p)
  <2> DEFINE row == Decided(p)
  <2>1. row \in OrderRows
    BY <1>2, DecidedLemma
  <2>2. row.items = Order(p).items /\ row.committed = Order(p).committed
    <3>1. Order(p) \in [status : OrderStatuses \cup {"NONE"}, pay : PaymentStatuses,
                        committed : BOOLEAN, source : {"POS", "ONLINE"}, items : [Variants -> Nat]]
      BY <1>3 DEF OrderRows
    <3>2. \A s, y : /\ [Order(p) EXCEPT !.status = s, !.pay = y].items = Order(p).items
                    /\ [Order(p) EXCEPT !.status = s, !.pay = y].committed = Order(p).committed
                    /\ [Order(p) EXCEPT !.status = s].items = Order(p).items
                    /\ [Order(p) EXCEPT !.status = s].committed = Order(p).committed
      BY <3>1
    <3> DEFINE req == client[p].req
    <3>4. CASE req.op = "CANCEL"
      BY <3>2, <3>4 DEF Decided
    <3>5. CASE req.op # "CANCEL" /\ req.next = "CANCELLED"
      <4>1. Decided(p) = [Order(p) EXCEPT
                 !.status = "CANCELLED",
                 !.pay = IF client[p].seen.pay = "PAID" THEN "REFUNDED" ELSE Order(p).pay]
        BY <3>1, <3>5 DEF Decided
      <4> QED BY <3>2, <4>1
    <3>6. CASE req.op # "CANCEL" /\ req.next = "PAID"
      BY <3>2, <3>6 DEF Decided
    <3>7. CASE req.op # "CANCEL" /\ req.next = "COMPLETED"
      <4>1. Decided(p) = [Order(p) EXCEPT
                 !.status = "COMPLETED",
                 !.pay = IF client[p].seen.pay = "UNPAID" THEN "PAID" ELSE Order(p).pay]
        BY <3>1, <3>7 DEF Decided
      <4> QED BY <3>2, <4>1
    <3>8. CASE req.op # "CANCEL" /\ req.next = "REFUNDED"
      BY <3>2, <3>8 DEF Decided
    <3>9. CASE req.op # "CANCEL" /\ req.next \notin {"CANCELLED", "PAID", "COMPLETED", "REFUNDED"}
      BY <3>2, <3>9 DEF Decided
    <3> QED BY <3>4, <3>5, <3>6, <3>7, <3>8, <3>9
  <2>3. WriteOrder(p, row) /\ client[p].pc = "write" /\ Goto(p, "commit")
    BY <1>5 DEF Decide, At
  <2> HIDE DEF row
  <2>4. /\ client'[p].pc = "commit" /\ client'[p].req = client[p].req
        /\ \A q \in Clients : q # p => client'[q] = client[q]
    BY <1>1, <2>3 DEF Goto, Client
  <2> QED BY <1>2, <2>1, <2>2, <2>3, <2>4, RewriteHolding
<1> QED BY <1>4, <1>5

\* A client that sets or clears the flag of its order, and has moved nothing
\* for it, is about to move all its lines; or it sets no flag.
LEMMA FlagHolding ==
    ASSUME IInv, \A q \in Clients : Holding(q), NEW p \in Clients,
           NEW o \in Orders, NEW row \in OrderRows, NEW label \in Claimed,
           Free(orders[o], p), orders' = [orders EXCEPT ![o] = Written(@, p, row)],
           UNCHANGED inventory,
           \A q \in Clients : q # p => client'[q] = client[q],
           client[p].pc \notin Claimed,
           client'[p].req = client[p].req, client[p].req.order = o,
           client'[p].pc = label,
           \A x \in Orders : orders[x].by = p => x = o,
           orders[o].com = NoOrder \/ row.items = orders[o].com.items,
           row.committed = orders[o].com.committed => label \notin {"sell", "restore"},
           row.committed # orders[o].com.committed =>
              /\ label \in {"sell", "restore"} /\ (row.committed <=> label = "sell")
              /\ client'[p].todo = Asked(row.items)
    PROVE  (\A q \in Clients : Holding(q))'
<1>1. Holding(p)
  OBVIOUS
<1>2. /\ \A x \in Orders : x # o => orders'[x] = orders[x]
      /\ orders'[o].by = p /\ orders'[o].live = row /\ orders'[o].com = orders[o].com
      /\ \A x \in Orders : \/ orders'[x] = orders[x]
                           \/ orders[x].by \in {Nobody, p} /\ orders'[x].by \in {Nobody, p}
      /\ orders[o].by # p => orders[o].live = orders[o].com /\ orders[o].by = Nobody
  <2>1. Free(orders[o], p) /\ orders' = [orders EXCEPT ![o] = Written(@, p, row)]
    OBVIOUS
  <2> QED BY ONLY IInv, p \in Clients, o \in Orders, row \in OrderRows, <2>1, OrderInHand
<1>3. \A x \in Orders, v \in Variants : ~(inventory[v].by = p /\ About(inventory[v].live, x))
  BY <1>1, NothingDone
<1>4. \A x \in Orders : orders'[x].by = p => x = o
  BY <1>2
<1>5. Flipped(o)' <=> row.committed # orders[o].com.committed
  BY <1>2 DEF Flipped
<1>6. Moves(p)' <=> label \in {"sell", "restore"}
  BY DEF Moves, At
<1>7. ASSUME NEW x \in Orders, NEW v \in Variants
      PROVE  ~Done(p, x, v)'
  <2>1. CASE x = o
    BY <1>2, <1>5, <1>6, <2>1 DEF Done, Asked
  <2>2. CASE x # o
    BY <1>4, <2>2 DEF Done
  <2> QED BY <2>1, <2>2
<1>8. ASSUME NEW x \in Orders, orders'[x].by = p
      PROVE  /\ x = client'[p].req.order /\ client'[p].pc \in FlagLabels
             /\ orders'[x].com = NoOrder \/ orders'[x].live.items = orders'[x].com.items
             /\ Flipped(x)' => client'[p].pc \in Claimed
  BY <1>2, <1>4, <1>8 DEF FlagLabels, Claimed
<1>9. ASSUME Moves(p)'
      PROVE  LET x == client'[p].req.order
             IN  /\ orders'[x].by = p
                 /\ orders'[x].live.committed # orders'[x].com.committed
                 /\ orders'[x].live.committed <=> At(p, "sell")'
  <2>1. label \in {"sell", "restore"} /\ row.committed # orders[o].com.committed
    BY <1>6, <1>9
  <2>2. At(p, "sell")' <=> label = "sell"
    BY DEF At
  <2> QED BY <1>2, <2>1, <2>2
<1>10. Holding(p)'
  BY <1>3, <1>7, <1>8, <1>9 DEF Holding, Flipped
<1> QED BY <1>2, <1>10, HoldingLemma

\* An order is entered, with its flag and all its lines to be moved or neither.
LEMMA InsertHolding ==
    ASSUME IInv, \A q \in Clients : Holding(q), NEW p \in Clients, InsertOrder(p)
    PROVE  (\A q \in Clients : Holding(q))'
<1> DEFINE req == client[p].req
           o   == req.order
           now == req.op # "OPEN"
           row == [status    |-> IF req.op = "SELL" THEN "COMPLETED" ELSE "PENDING",
                   pay       |-> IF req.op = "SELL" THEN "PAID" ELSE "UNPAID",
                   committed |-> now,
                   source    |-> IF req.op = "CHECKOUT" THEN "ONLINE" ELSE "POS",
                   items     |-> req.lines]
           label == IF now THEN "sell" ELSE "commit"
           c   == [client[p] EXCEPT !.pc = label,
                                    !.todo = IF now THEN Asked(req.lines) ELSE {}]
<1>1. client' = [client EXCEPT ![p] = c] /\ client \in [Clients -> Client]
  BY DEF InsertOrder, IInv, TypeOK, Client
<1>2. client[p] \in Client /\ req \in Requests \cup {Blank}
  BY SeeLemma DEF Client
<1>3. req.op \in Sales /\ o \in Orders /\ req.lines \in [Variants -> Nat]
  BY <1>2, RequestLemma DEF InsertOrder
<1>4. c.req = req /\ c.pc = label /\ (now => c.todo = Asked(req.lines))
  BY <1>2 DEF Client
<1>5. row \in OrderRows
  BY <1>3 DEF OrderRows, OrderStatuses, PaymentStatuses
<1>6. /\ orders' = [orders EXCEPT ![o] = Written(@, p, row)]
      /\ orders[o] = Cell(NoOrder) /\ client[p].pc = "insert" /\ UNCHANGED inventory
  BY DEF InsertOrder, At
<1>7. Free(orders[o], p) /\ orders[o].com = NoOrder /\ orders[o].com.committed = FALSE
  BY <1>6 DEF Free, Cell, NoOrder
<1>8. client[p].pc \notin Claimed /\ \A x \in Orders : orders[x].by = p => x = o
  BY <1>6, UnwrittenLemma DEF Claimed, Unwritten
<1>9. row.committed = now /\ row.items = req.lines /\ (now <=> label = "sell")
      /\ label \in Claimed /\ label \in {"sell", "commit"} /\ now \in BOOLEAN
  BY DEF Claimed
<1> HIDE DEF c, row, label, o, now
<1>10. /\ client'[p].req = client[p].req /\ client'[p].pc = label
       /\ now => client'[p].todo = Asked(row.items)
       /\ \A q \in Clients : q # p => client'[q] = client[q]
  BY <1>1, <1>4, <1>9
<1>11. /\ row.committed = orders[o].com.committed => label \notin {"sell", "restore"}
       /\ row.committed # orders[o].com.committed =>
            /\ label \in {"sell", "restore"} /\ (row.committed <=> label = "sell")
            /\ client'[p].todo = Asked(row.items)
  BY <1>7, <1>9, <1>10
<1>12. client[p].req.order = o
  BY DEF o
<1> QED BY <1>3, <1>5, <1>6, <1>7, <1>8, <1>9, <1>10, <1>11, <1>12, FlagHolding

\* The flag of an order is claimed, or found claimed.
LEMMA ClaimFlagHolds ==
    ASSUME IInv, \A q \in Clients : Holding(q), NEW p \in Clients, ClaimFlag(p)
    PROVE  (\A q \in Clients : Holding(q))'
<1> DEFINE o == client[p].req.order
           take == At(p, "take")
<1>1. client[p].pc \in {"take", "give"} /\ client \in [Clients -> Client] /\ Holding(p)
  BY DEF ClaimFlag, At, IInv, TypeOK, Client
<1>2. o \in Orders /\ Order(p) \in OrderRows
  BY <1>1, SeeLemma DEF IInv, Placed, OrderLabels
<1>3. client[p].pc \notin Claimed
  BY <1>1 DEF Claimed
<1>4. CASE Order(p).committed # take
  <2> DEFINE row == [Order(p) EXCEPT !.committed = take]
             label == IF take THEN "sell" ELSE "restore"
             c == [client[p] EXCEPT !.pc = label, !.todo = Asked(Order(p).items)]
  <2>1. client' = [client EXCEPT ![p] = c] /\ WriteOrder(p, row)
    BY <1>4 DEF ClaimFlag, IInv, TypeOK, Client
  <2>2. row \in OrderRows /\ row.items = Order(p).items /\ row.committed = take /\ take \in BOOLEAN
    BY <1>2 DEF OrderRows, At
  <2>3. c.req = client[p].req /\ c.pc = label /\ c.todo = Asked(Order(p).items)
    BY <1>1 DEF Client
  <2>4. label \in Claimed /\ label \in {"sell", "restore"} /\ (take <=> label = "sell")
    BY DEF Claimed
  <2> HIDE DEF row, label, c
  <2>5. /\ client'[p].req = client[p].req /\ client'[p].pc = label
        /\ client'[p].todo = Asked(row.items)
        /\ \A q \in Clients : q # p => client'[q] = client[q]
    BY <1>1, <2>1, <2>2, <2>3
  <2>6. Free(orders[o], p) /\ orders' = [orders EXCEPT ![o] = Written(@, p, row)] /\ UNCHANGED inventory
    BY <2>1 DEF WriteOrder
  <2>7. \A x \in Orders : orders[x].by = p => x = o
    BY <1>1 DEF Holding
  <2>8. /\ Order(p).committed = orders[o].com.committed
        /\ orders[o].com = NoOrder \/ Order(p).items = orders[o].com.items
    <3>1. CASE orders[o].by = p
      <4>1. ~Flipped(o) /\ (orders[o].com = NoOrder \/ orders[o].live.items = orders[o].com.items)
        BY <1>1, <1>2, <1>3, <3>1 DEF Holding
      <4>2. Order(p) = orders[o].live
        BY <3>1 DEF Order, See
      <4> HIDE DEF o
      <4> QED BY <4>1, <4>2 DEF Flipped
    <3>2. CASE orders[o].by # p
      BY <3>2 DEF Order, See
    <3> QED BY <3>1, <3>2
  <2>9. /\ row.committed = orders[o].com.committed => label \notin {"sell", "restore"}
        /\ row.committed # orders[o].com.committed =>
             /\ label \in {"sell", "restore"} /\ (row.committed <=> label = "sell")
             /\ client'[p].todo = Asked(row.items)
    BY <1>4, <2>2, <2>4, <2>5, <2>8
  <2>10. client[p].req.order = o /\ (orders[o].com = NoOrder \/ row.items = orders[o].com.items)
    BY <2>2, <2>8
  <2> HIDE DEF o, take
  <2> QED BY <1>2, <1>3, <2>2, <2>4, <2>5, <2>6, <2>7, <2>9, <2>10, FlagHolding
<1>5. CASE Order(p).committed = take
  <2>1. PICK label \in {"write", "commit"} : Goto(p, label)
    BY <1>5 DEF ClaimFlag, AfterStock
  <2>2. UNCHANGED <<inventory, orders>>
    BY <1>5 DEF ClaimFlag, Reads
  <2>3. /\ ~Moves(p)' /\ client'[p].req = client[p].req /\ client'[p].pc \in FlagLabels
        /\ \A q \in Clients : q # p => client'[q] = client[q]
    BY <1>1, <2>1 DEF Goto, Client, Moves, At, FlagLabels
  <2> QED BY <1>3, <2>2, <2>3, QuietHolding
<1> QED BY <1>4, <1>5

\* The number of units the movement applied last has moved.
LEMMA AppliedMoves ==
    ASSUME NEW row \in Rows, NEW type, NEW q, NEW ref
    PROVE  LastDelta(Applied(row, type, q, ref)) = Signed(type, q)
<1> DEFINE e == [type |-> type, delta |-> Signed(type, q),
                 prev |-> (row.qty + Signed(type, q)) - Signed(type, q),
                 new |-> row.qty + Signed(type, q), ref |-> ref]
<1>1. Applied(row, type, q, ref).log = Append(row.log, e)
  BY DEF Applied
<1>2. e.delta = Signed(type, q)
  OBVIOUS
<1> HIDE DEF e
<1>3. row.log \in Seq(Entries)
  BY DEF Rows
<1>4. /\ Len(Append(row.log, e)) = Len(row.log) + 1
      /\ Append(row.log, e)[Len(row.log) + 1] = e
  BY <1>3
<1> QED BY <1>1, <1>2, <1>4 DEF LastDelta

\* Documents are told apart by what cites them.
LEMMA CitedApart ==
    /\ \A x, y : OrderRef(x) = OrderRef(y) <=> x = y
    /\ \A x, y : CancelRef(x) = CancelRef(y) <=> x = y
    /\ \A x, y : OrderRef(x) # CancelRef(y) /\ OrderRef(x) # ReturnRef(y) /\ CancelRef(x) # ReturnRef(y)
    /\ \A x : OrderRef(x) # Manual /\ CancelRef(x) # Manual
BY DEF OrderRef, CancelRef, ReturnRef, Manual

\* While a client moves the lines of its order, a movement leaves it where it
\* is or is its last.
LEMMA StillMoving ==
    ASSUME IInv, NEW p \in Clients, NEW left,
           At(p, "sell") \/ At(p, "restore") \/ At(p, "credit")
    PROVE  LET label == AfterMove(p, left)
           IN  /\ label \in {"sell", "restore"} => label = client[p].pc /\ left # {}
               /\ Moves(p) => label \in Claimed /\ (label \notin {"sell", "restore"} => left = {})
<1>1. CASE At(p, "credit")
  BY <1>1 DEF AfterMove, At, Moves
<1>2. CASE At(p, "sell") /\ Op(p) \in Sales
  BY <1>2 DEF AfterMove, At, Moves, Claimed
<1>3. CASE ~At(p, "credit") /\ ~(At(p, "sell") /\ Op(p) \in Sales)
  <2>1. AfterMove(p, left) = IF left = {} THEN AfterStock(p) ELSE client[p].pc
    BY <1>3 DEF AfterMove
  <2>2. AfterStock(p) \in {"commit", "write"}
    BY DEF AfterStock
  <2> QED BY <1>3, <2>1, <2>2 DEF At, Claimed
<1> QED BY <1>1, <1>2, <1>3

\* One line is moved: for the order in hand, in the direction of its flag; or
\* for a return.
LEMMA MoveLineHolds ==
    ASSUME IInv, \A q \in Clients : Holding(q), NEW p \in Clients, NEW v \in Variants,
           MoveLine(p, v)
    PROVE  (\A q \in Clients : Holding(q))'
<1> DEFINE m   == Movement(p, v)
           row == Applied(inventory[v].com, m.type, m.qty, m.ref)
           left == client[p].todo \ {v}
           label == AfterMove(p, left)
<1>1. client \in [Clients -> Client] /\ inventory \in [Variants -> Cells(Rows)]
  BY DEF IInv, TypeOK, Client, Rows
<1>2. /\ At(p, "sell") \/ At(p, "restore") \/ At(p, "credit")
      /\ UNCHANGED orders /\ v \in client[p].todo
  BY DEF MoveLine
<1>3. inventory[v].by # p /\ inventory[v].by \in {Nobody, p}
  BY TodoLemma DEF MoveLine, Free
<1>4. inventory' = [inventory EXCEPT ![v] = Written(@, p, row)] /\ m.qty > 0
  BY <1>3 DEF MoveLine, See, Accepts
<1>5. inventory[v] \in Cells(Rows) /\ inventory[v].com \in Rows
  BY <1>1 DEF Cells
<1>6. LastRef(row) = m.ref /\ LastDelta(row) = Signed(m.type, m.qty)
  BY <1>5, AppliedCites, AppliedMoves
<1>7. /\ client'[p].req = client[p].req /\ client'[p].pc = label /\ client'[p].todo = left
      /\ \A q \in Clients : q # p => client'[q] = client[q]
  BY <1>1 DEF MoveLine, Client
<1>8. /\ label \in {"sell", "restore"} => label = client[p].pc /\ left # {}
      /\ Moves(p) => label \in Claimed /\ (label \notin {"sell", "restore"} => left = {})
  BY <1>2, StillMoving
<1>9. Moves(p) =>
        LET o == client[p].req.order
        IN  /\ o \in Orders /\ orders[o].by = p /\ Flipped(o)
            /\ orders[o].live.committed <=> At(p, "sell")
            /\ orders[o].live \in OrderRows
            /\ m.qty = orders[o].live.items[v]
            /\ m.ref = IF At(p, "sell") THEN OrderRef(o) ELSE CancelRef(o)
            /\ m.type = IF At(p, "sell") THEN "SALE" ELSE "ADJUSTMENT_IN"
  <2> SUFFICES ASSUME Moves(p)
               PROVE  LET o == client[p].req.order
                      IN  /\ o \in Orders /\ orders[o].by = p /\ Flipped(o)
                          /\ orders[o].live.committed <=> At(p, "sell")
                          /\ orders[o].live \in OrderRows
                          /\ m.qty = orders[o].live.items[v]
                          /\ m.ref = IF At(p, "sell") THEN OrderRef(o) ELSE CancelRef(o)
                          /\ m.type = IF At(p, "sell") THEN "SALE" ELSE "ADJUSTMENT_IN"
    OBVIOUS
  <2> DEFINE o == client[p].req.order
  <2>1. o \in Orders
    BY DEF Moves, At, IInv, Placed, OrderLabels
  <2>2. /\ orders[o].by = p /\ Flipped(o)
        /\ orders[o].live.committed <=> At(p, "sell")
    BY DEF Holding
  <2>3. orders[o].live \in OrderRows
    BY <2>1 DEF IInv, TypeOK, Cells
  <2>4. Order(p) = orders[o].live
    BY <2>2 DEF Order, See
  <2>5. /\ m.qty = Order(p).items[v]
        /\ m.ref = IF At(p, "sell") THEN OrderRef(o) ELSE CancelRef(o)
        /\ m.type = IF At(p, "sell") THEN "SALE" ELSE "ADJUSTMENT_IN"
    BY DEF Movement, Moves, At
  <2> QED BY <2>1, <2>2, <2>3, <2>4, <2>5
<1>10. ~Moves(p) => /\ \E r : m.ref = ReturnRef(r)
                    /\ \A o \in Orders : orders[o].by # p
  <2>1. ASSUME ~Moves(p)
        PROVE  \A o \in Orders : orders[o].by # p
    <3>1. client[p].pc = "credit" /\ Holding(p)
      BY <1>2, <2>1 DEF Moves, At
    <3> QED BY <3>1 DEF Holding, FlagLabels
  <2>2. ~Moves(p) => m.ref = ReturnRef(client[p].ret)
    BY <1>2 DEF Moves, At, Movement
  <2> QED BY <2>1, <2>2
<1> HIDE DEF m, row, label
<1>11. /\ \A w \in Variants : w # v => inventory'[w] = inventory[w]
       /\ inventory'[v].by = p /\ inventory'[v].live = row
  BY <1>1, <1>4, <1>5 DEF Written, Cells
<1>12. \A o \in Orders : Flipped(o)' <=> Flipped(o)
  BY <1>2 DEF Flipped
<1>13. Holding(p) /\ (Moves(p)' <=> label \in {"sell", "restore"})
  BY <1>7 DEF Moves, At
<1>14. ASSUME NEW o \in Orders, orders'[o].by = p
       PROVE  /\ o = client'[p].req.order /\ client'[p].pc \in FlagLabels
              /\ orders'[o].com = NoOrder \/ orders'[o].live.items = orders'[o].com.items
              /\ Flipped(o)' => client'[p].pc \in Claimed
  <2>1. Moves(p) /\ orders[o].by = p
    BY <1>2, <1>10, <1>14
  <2>2. client'[p].pc \in Claimed /\ client'[p].pc \in FlagLabels
    BY <1>7, <1>8, <2>1 DEF Claimed, FlagLabels
  <2> QED BY <1>2, <1>7, <1>13, <2>1, <2>2 DEF Holding
<1>15. ASSUME Moves(p)'
       PROVE  LET o == client'[p].req.order
              IN  /\ orders'[o].by = p
                  /\ orders'[o].live.committed # orders'[o].com.committed
                  /\ orders'[o].live.committed <=> At(p, "sell")'
  <2>1. client'[p].pc = client[p].pc /\ Moves(p)
    BY <1>7, <1>8, <1>13, <1>15 DEF Moves, At
  <2> QED BY <1>2, <1>7, <1>9, <2>1 DEF Flipped, At
<1>16. ASSUME NEW o \in Orders, NEW w \in Variants, w # v
       PROVE  /\ Done(p, o, w)' <=> Done(p, o, w)
              /\ inventory'[w] = inventory[w]
  <2>1. ASSUME orders[o].by = p
        PROVE  Moves(p)' /\ w \in client'[p].todo <=> Moves(p) /\ w \in client[p].todo
    <3>1. Moves(p)
      BY <1>10, <2>1
    <3> QED BY <1>7, <1>8, <1>13, <1>16, <3>1 DEF Moves, At
  <2> QED BY <1>2, <1>11, <1>12, <1>16, <2>1 DEF Done
<1>17. ASSUME NEW o \in Orders
       PROVE  /\ About(row, o) <=> Done(p, o, v)'
              /\ About(row, o) => LastDelta(row) = IF orders'[o].live.committed
                                                   THEN -orders'[o].live.items[v]
                                                   ELSE orders'[o].live.items[v]
  <2>1. CASE ~Moves(p)
    <3>1. ~About(row, o)
      BY <1>6, <1>10, <2>1, CitedApart DEF About
    <3>2. ~Done(p, o, v)'
      BY <1>2, <1>10, <2>1 DEF Done
    <3> QED BY <3>1, <3>2
  <2>2. CASE Moves(p)
    <3> DEFINE x == client[p].req.order
    <3>1. /\ x \in Orders /\ orders[x].by = p /\ Flipped(x)
          /\ orders[x].live.committed <=> At(p, "sell")
          /\ orders[x].live \in OrderRows
          /\ m.qty = orders[x].live.items[v]
          /\ m.ref = IF At(p, "sell") THEN OrderRef(x) ELSE CancelRef(x)
          /\ m.type = IF At(p, "sell") THEN "SALE" ELSE "ADJUSTMENT_IN"
      BY <1>9, <2>2
    <3>2. orders[o].by = p <=> o = x
      BY <1>13, <3>1 DEF Holding
    <3> HIDE DEF x
    <3>3. About(row, o) <=> o = x
      BY <1>6, <3>1, CitedApart DEF About
    <3>4. Done(p, o, v)' <=> o = x
      BY <1>2, <1>4, <1>7, <1>12, <3>1, <3>2 DEF Done
    <3>5. Signed(m.type, m.qty) = IF orders[x].live.committed THEN -orders[x].live.items[v]
                                                              ELSE orders[x].live.items[v]
      <4>1. orders[x].live.items[v] \in Nat
        BY <3>1 DEF OrderRows
      <4> QED BY <3>1, <4>1 DEF Signed, Inbound
    <3> QED BY <1>2, <1>6, <3>3, <3>4, <3>5
  <2> QED BY <2>1, <2>2
<1>18. ASSUME NEW o \in Orders, NEW w \in Variants
       PROVE  LET mine == inventory'[w].by = p /\ About(inventory'[w].live, o)
              IN  /\ mine <=> Done(p, o, w)'
                  /\ mine => LastDelta(inventory'[w].live) =
                                IF orders'[o].live.committed THEN -orders'[o].live.items[w]
                                                             ELSE orders'[o].live.items[w]
  <2>1. CASE w = v
    BY <1>11, <1>17, <2>1
  <2>2. CASE w # v
    BY <1>2, <1>13, <1>16, <2>2 DEF Holding
  <2> QED BY <2>1, <2>2
<1>19. Holding(p)'
  BY <1>14, <1>15, <1>18 DEF Holding, Flipped
<1>20. \A w \in Variants : \/ inventory'[w] = inventory[w]
                           \/ inventory[w].by \in {Nobody, p} /\ inventory'[w].by \in {Nobody, p}
  BY <1>3, <1>11
<1> QED BY <1>2, <1>7, <1>19, <1>20, HoldingLemma

\* Whoever has ended a transaction holds nothing.
LEMMA EndHolds ==
    ASSUME IInv, \A q \in Clients : Holding(q), NEW p \in Clients, Commit(p) \/ Rollback(p)
    PROVE  (\A q \in Clients : Holding(q))'
<1>1. /\ client \in [Clients -> Client] /\ p # Nobody
      /\ inventory \in [Variants -> Cells(Rows)] /\ orders \in [Orders -> Cells(OrderRows)]
      /\ DOMAIN inventory = Variants /\ DOMAIN orders = Orders
      /\ \A row : Cell(row).by = Nobody
  BY NobodyAssumption DEF IInv, TypeOK, Client, Rows, Cell
<1>2. client'[p] = Idle /\ \A q \in Clients : q # p => client'[q] = client[q]
  BY <1>1 DEF Commit, Rollback
<1>3. \A v \in Variants : IF inventory[v].by = p THEN inventory'[v].by = Nobody
                                                ELSE inventory'[v] = inventory[v]
  <2>1. Ended(inventory, inventory', p)
    BY <1>1, ClosedLemma DEF Commit, Rollback
  <2> QED BY <1>1, <2>1 DEF Ended
<1>4. \A o \in Orders : IF orders[o].by = p THEN orders'[o].by = Nobody
                                            ELSE orders'[o] = orders[o]
  <2>1. Ended(orders, Committed(orders, p), p) /\ Ended(orders, RolledBack(orders, p), p)
    BY <1>1, ClosedLemma
  <2>2. Ended(orders, orders', p)
    BY <2>1 DEF Commit, Rollback
  <2> QED BY <1>1, <2>2 DEF Ended
<1>5. /\ \A o \in Orders : orders'[o].by # p
      /\ \A v \in Variants : inventory'[v].by # p
      /\ ~Moves(p)'
  BY <1>1, <1>2, <1>3, <1>4 DEF Moves, At, Idle
<1>6. \A o \in Orders, v \in Variants : ~Done(p, o, v)'
  BY <1>5 DEF Done
<1>7. Holding(p)'
  BY <1>5, <1>6 DEF Holding
<1> QED BY <1>2, <1>3, <1>4, <1>7, HoldingLemma

\* What a row has booked on some documents.
NetOf(row, refs) ==
    SumFunctionOnSet([i \in DOMAIN row.log |-> row.log[i].delta],
                     {i \in DOMAIN row.log : row.log[i].ref \in refs})

Booked(o) == {OrderRef(o), CancelRef(o)}

\* A row has booked one movement more on what its last entry cites.
LEMMA OneMoreBooked ==
    ASSUME NEW old \in Rows, NEW new \in Rows, Ledger!OneMovement(old, new), NEW refs
    PROVE  NetOf(new, refs) = IF LastRef(new) \in refs THEN LastDelta(new) + NetOf(old, refs)
                                                       ELSE NetOf(old, refs)
<1> DEFINE n == Len(old.log)
           f == [i \in DOMAIN old.log |-> old.log[i].delta]
           g == [i \in DOMAIN new.log |-> new.log[i].delta]
           S == {i \in DOMAIN old.log : old.log[i].ref \in refs}
           T == {i \in DOMAIN new.log : new.log[i].ref \in refs}
<1>1. PICK e : new.log = Append(old.log, e)
  BY DEF Ledger!OneMovement, Ledger!Applied
<1>2. old.log \in Seq(Entries) /\ new.log \in Seq(Entries) /\ Len(new.log) = n + 1
  BY DEF Rows, Ledger!OneMovement
<1>3. /\ n \in Nat /\ DOMAIN old.log = 1..n /\ DOMAIN new.log = 1..(n + 1)
      /\ \A i \in 1..n : new.log[i] = old.log[i]
  BY <1>1, <1>2
<1>4. LastRef(new) = new.log[n + 1].ref /\ LastDelta(new) = new.log[n + 1].delta
  BY <1>2 DEF LastRef, LastDelta
<1>5. \A i \in 1..(n + 1) : new.log[i].delta \in Int
  <2>1. \A i \in DOMAIN new.log : new.log[i] \in Entries
    BY <1>2
  <2>2. \A e1 \in Entries : e1.delta \in Int
    BY DEF Entries
  <2> QED BY <1>3, <2>1, <2>2
<1> HIDE DEF n
<1>6. /\ S \subseteq 1..n /\ n + 1 \notin S
      /\ T = IF LastRef(new) \in refs THEN S \cup {n + 1} ELSE S
      /\ \A i \in 1..n : g[i] = f[i]
      /\ \A i \in 1..(n + 1) : g[i] \in Int
      /\ g[n + 1] = LastDelta(new)
  BY <1>3, <1>4, <1>5
<1> HIDE DEF f, g, S, T
<1>7. IsFiniteSet(S)
  <2>1. n \in Int /\ 1 \in Int
    BY <1>3
  <2>2. IsFiniteSet(1..n)
    BY ONLY <2>1, FS_Interval
  <2> QED BY <1>6, <2>2, FS_Subset
<1>8. SumFunctionOnSet(g, S) = SumFunctionOnSet(f, S)
  <2>1. \A i \in S : g[i] = f[i]
    BY <1>6
  <2> QED BY ONLY <1>7, <2>1, SumSame
<1>9. CASE LastRef(new) \in refs
  <2>1. \A i \in S \cup {n + 1} : g[i] \in Int
    <3>1. n \in Nat
      BY <1>3
    <3>2. S \cup {n + 1} \subseteq 1..(n + 1)
      BY ONLY <1>6, <3>1
    <3> QED BY <1>6, <3>2
  <2>2. n + 1 \notin S
    BY <1>6
  <2>3. SumFunctionOnSet(g, S \cup {n + 1}) = g[n + 1] + SumFunctionOnSet(g, S)
    BY ONLY <1>7, <2>1, <2>2, SumWith
  <2> QED BY <1>6, <1>8, <1>9, <2>3 DEF NetOf, f, g, S, T
<1>10. CASE LastRef(new) \notin refs
  BY <1>6, <1>8, <1>10 DEF NetOf, f, g, S, T
<1> QED BY <1>9, <1>10

\* Until a transaction commits nobody sees its orders either.
LEMMA OthersSettleNothing ==
    ASSUME IInv, NEW p \in Clients, Step(p), ~Commit(p)
    PROVE  \A o \in Orders : orders'[o].com = orders[o].com
<1>1. orders \in [Orders -> Cells(OrderRows)]
  BY DEF IInv, TypeOK
<1>2. CASE UNCHANGED orders
  BY <1>2
<1>3. ASSUME NEW o, NEW row, orders' = [orders EXCEPT ![o] = Written(@, p, row)]
      PROVE  \A x \in Orders : orders'[x].com = orders[x].com
  <2>1. \A x \in Orders : Written(orders[x], p, row).com = orders[x].com
    BY <1>1 DEF Written, Cells
  <2>2. \A x \in Orders : orders'[x] = orders[x] \/ orders'[x] = Written(orders[x], p, row)
    BY <1>1, <1>3
  <2> QED BY <2>1, <2>2
<1>4. ASSUME InsertOrder(p)
      PROVE  \A x \in Orders : orders'[x].com = orders[x].com
  BY <1>3, <1>4 DEF InsertOrder
<1>5. ASSUME NEW row, WriteOrder(p, row)
      PROVE  \A x \in Orders : orders'[x].com = orders[x].com
  BY <1>3, <1>5 DEF WriteOrder
<1>6. CASE Rollback(p)
  <2>1. \A x \in Orders : orders'[x] = IF orders[x].by = p THEN Cell(orders[x].com) ELSE orders[x]
    BY <1>1, <1>6, EndLemma DEF Rollback
  <2>2. \A row : Cell(row).com = row
    BY DEF Cell
  <2>3. ASSUME NEW x \in Orders
        PROVE  orders'[x].com = orders[x].com
    <3>1. CASE orders[x].by = p
      <4>1. orders'[x] = Cell(orders[x].com)
        BY <2>1, <3>1
      <4> QED BY <2>2, <4>1
    <3>2. CASE orders[x].by # p
      BY <2>1, <3>2
    <3> QED BY <3>1, <3>2
  <2> QED BY <2>3
<1>7. CASE ClaimTicket(p) \/ ClaimFlag(p) \/ Decide(p)
  BY <1>2, <1>5, <1>7 DEF ClaimTicket, ClaimFlag, Decide, Reads
<1> QED BY <1>2, <1>4, <1>6, <1>7 DEF Step, Begin, ReadOrder, CountReturns, ReadFlag, MoveLine,
           CheckEligible, InsertReturn, ReadReturn, AcceptReturn, RejectReturn, WriteReturn, Reads

\* A commit publishes the flag of an order and the movements due to it
\* together.
LEMMA CommitFollows ==
    ASSUME IInv, \A q \in Clients : Holding(q), StockFollowsFlag, NEW p \in Clients, Commit(p)
    PROVE  StockFollowsFlag'
<1> SUFFICES ASSUME NEW o \in Orders, NEW v \in Variants
             PROVE  NetOf(inventory'[v].com, Booked(o)) =
                        IF orders'[o].com.committed THEN -orders'[o].com.items[v] ELSE 0
  BY DEF StockFollowsFlag, Net, Committing, NetOf, Booked
<1>1. /\ inventory \in [Variants -> Cells(Rows)] /\ orders \in [Orders -> Cells(OrderRows)]
      /\ p # Nobody
  BY NobodyAssumption DEF IInv, TypeOK, Rows
<1>2. /\ inventory[v].com \in Rows /\ inventory[v].live \in Rows
      /\ orders[o].com \in OrderRows /\ orders[o].live \in OrderRows
  BY <1>1 DEF Cells
<1>3. /\ inventory'[v].com = IF inventory[v].by = p THEN inventory[v].live ELSE inventory[v].com
      /\ orders'[o].com = IF orders[o].by = p THEN orders[o].live ELSE orders[o].com
  <2>1. \A row : Cell(row).com = row
    BY DEF Cell
  <2>2. inventory' = Committed(inventory, p) /\ orders' = Committed(orders, p)
    BY DEF Commit
  <2>3. inventory'[v] = IF inventory[v].by = p THEN Cell(inventory[v].live) ELSE inventory[v]
    BY <1>1, <2>2, EndLemma
  <2>4. orders'[o] = IF orders[o].by = p THEN Cell(orders[o].live) ELSE orders[o]
    BY <1>1, <2>2, EndLemma
  <2> QED BY <2>1, <2>3, <2>4
<1>4. Holding(p) /\ ~Moves(p)
  BY DEF Commit, Moves, At
<1>5. NetOf(inventory[v].com, Booked(o)) =
          IF orders[o].com.committed THEN -orders[o].com.items[v] ELSE 0
  BY DEF StockFollowsFlag, Net, Committing, NetOf, Booked
<1>6. inventory[v].by = p => Ledger!OneMovement(inventory[v].com, inventory[v].live)
  BY <1>1 DEF IInv, VersionsAreHeld
<1>7. /\ orders[o].com.items[v] \in Nat /\ orders[o].live.items[v] \in Nat
      /\ orders[o].com.committed \in BOOLEAN /\ orders[o].live.committed \in BOOLEAN
  BY <1>2 DEF OrderRows
<1>8. orders[o].by = p => orders[o].com = NoOrder \/ orders[o].live.items = orders[o].com.items
  BY <1>4 DEF Holding
<1>9. NoOrder.committed = FALSE
  BY DEF NoOrder
<1>10. /\ (inventory[v].by = p /\ About(inventory[v].live, o)) <=>
             orders[o].by = p /\ Flipped(o) /\ orders[o].live.items[v] > 0
       /\ inventory[v].by = p /\ About(inventory[v].live, o) =>
             LastDelta(inventory[v].live) = IF orders[o].live.committed
                                            THEN -orders[o].live.items[v]
                                            ELSE orders[o].live.items[v]
  BY <1>4 DEF Holding, Done
<1>11. NetOf(inventory'[v].com, Booked(o)) =
          IF inventory[v].by = p /\ About(inventory[v].live, o)
          THEN LastDelta(inventory[v].live) + NetOf(inventory[v].com, Booked(o))
          ELSE NetOf(inventory[v].com, Booked(o))
  <2>1. CASE inventory[v].by = p
    <3>1. NetOf(inventory[v].live, Booked(o)) =
             IF LastRef(inventory[v].live) \in Booked(o)
             THEN LastDelta(inventory[v].live) + NetOf(inventory[v].com, Booked(o))
             ELSE NetOf(inventory[v].com, Booked(o))
      BY ONLY <1>2, <1>6, <2>1, OneMoreBooked
    <3> QED BY <1>3, <2>1, <3>1 DEF About, Booked
  <2>2. CASE inventory[v].by # p
    BY <1>3, <2>2
  <2> QED BY <2>1, <2>2
<1>12. CASE orders[o].by = p /\ Flipped(o) /\ orders[o].live.items[v] > 0
  <2>1. NetOf(inventory'[v].com, Booked(o)) =
          (IF orders[o].live.committed THEN -orders[o].live.items[v] ELSE orders[o].live.items[v])
            + (IF orders[o].com.committed THEN -orders[o].com.items[v] ELSE 0)
    BY <1>5, <1>10, <1>11, <1>12
  <2>2. orders'[o].com = orders[o].live /\ orders[o].live.committed = ~orders[o].com.committed
    BY <1>3, <1>7, <1>12 DEF Flipped
  <2>3. orders[o].com.committed => orders[o].live.items[v] = orders[o].com.items[v]
    BY <1>8, <1>9, <1>12
  <2> DEFINE a == orders[o].live.items[v]
             b == orders[o].com.items[v]
             net == NetOf(inventory'[v].com, Booked(o))
  <2>6. a \in Nat /\ b \in Nat
    BY <1>7
  <2>7. orders'[o].com.committed = ~orders[o].com.committed /\ orders'[o].com.items[v] = a
    BY <2>2
  <2>8. net = (IF orders[o].live.committed THEN -a ELSE a)
                 + (IF orders[o].com.committed THEN -b ELSE 0)
    BY <2>1
  <2> HIDE DEF a, b, net
  <2>4. CASE orders[o].com.committed
    <3>1. net = a + (-b) /\ a = b
      BY <2>2, <2>3, <2>8, <2>4 DEF a, b
    <3>2. net = 0
      BY ONLY <2>6, <3>1
    <3> QED BY <2>7, <2>4, <3>2 DEF net
  <2>5. CASE ~orders[o].com.committed
    <3>1. net = (-a) + 0
      BY <2>2, <2>8, <2>5
    <3>2. net = -a
      BY ONLY <2>6, <3>1
    <3> QED BY <2>7, <2>5, <3>2 DEF net
  <2> QED BY <2>4, <2>5
<1>13. CASE ~(orders[o].by = p /\ Flipped(o) /\ orders[o].live.items[v] > 0)
  <2>1. NetOf(inventory'[v].com, Booked(o)) =
            IF orders[o].com.committed THEN -orders[o].com.items[v] ELSE 0
    BY <1>5, <1>10, <1>11, <1>13
  <2>2. CASE orders[o].by # p
    BY <1>3, <2>1, <2>2
  <2>3. CASE orders[o].by = p /\ ~Flipped(o)
    <3>1. orders'[o].com = orders[o].live /\ orders[o].live.committed = orders[o].com.committed
      BY <1>3, <2>3 DEF Flipped
    <3>2. orders[o].com.committed => orders[o].live.items[v] = orders[o].com.items[v]
      BY <1>8, <1>9, <2>3
    <3> QED BY <2>1, <3>1, <3>2
  <2>4. CASE orders[o].by = p /\ Flipped(o) /\ orders[o].live.items[v] = 0
    <3>1. orders'[o].com = orders[o].live /\ orders[o].live.committed = ~orders[o].com.committed
      BY <1>3, <1>7, <2>4 DEF Flipped
    <3>2. orders[o].com.committed => orders[o].com.items[v] = 0
      BY <1>8, <1>9, <2>4
    <3> QED BY <2>1, <2>4, <3>1, <3>2
  <2> QED BY <1>7, <1>13, <2>2, <2>3, <2>4
<1> QED BY <1>12, <1>13

\* What StockFollowsFlag needs on top of IInv to be inductive.
Follows == StockFollowsFlag /\ \A p \in Clients : Holding(p)

LEMMA InitFollows == Init => Follows
<1> SUFFICES ASSUME Init
             PROVE  Follows
  OBVIOUS
<1>1. /\ \A v \in Variants : inventory[v] = Cell(Opened(v))
      /\ \A o \in Orders : orders[o] = Cell(NoOrder)
      /\ \A p \in Clients : client[p] = Idle
  BY DEF Init
<1>2. \A row : Cell(row).by = Nobody /\ Cell(row).com = row
  BY DEF Cell
<1>3. ASSUME NEW p \in Clients
      PROVE  Holding(p)
  <2>1. /\ \A o \in Orders : orders[o].by # p
        /\ \A v \in Variants : inventory[v].by # p
        /\ ~Moves(p)
    BY <1>1, <1>2, NobodyAssumption DEF Moves, At, Idle
  <2>2. \A o \in Orders, v \in Variants : ~Done(p, o, v)
    BY <2>1 DEF Done
  <2> QED BY <2>1, <2>2 DEF Holding
<1>4. ASSUME NEW o \in Orders, NEW v \in Variants
      PROVE  NetOf(Opened(v), Booked(o)) = 0
  <2>1. {i \in DOMAIN Opened(v).log : Opened(v).log[i].ref \in Booked(o)} = {}
    <3>1. CASE Opening[v] > 0
      <4> DEFINE e == [type |-> "ADJUSTMENT_IN", delta |-> Signed("ADJUSTMENT_IN", Opening[v]),
                       prev |-> (0 + Signed("ADJUSTMENT_IN", Opening[v]))
                                    - Signed("ADJUSTMENT_IN", Opening[v]),
                       new |-> 0 + Signed("ADJUSTMENT_IN", Opening[v]), ref |-> Manual]
      <4>1. Opened(v).log = Append(<< >>, e) /\ e.ref = Manual
        BY <3>1 DEF Opened, Applied, EmptyRow
      <4> HIDE DEF e
      <4>2. Opened(v).log = <<e>> /\ e.ref \notin Booked(o)
        BY <4>1, CitedApart DEF Booked
      <4> QED BY <4>2
    <3>2. CASE ~(Opening[v] > 0)
      BY <3>2 DEF Opened, EmptyRow
    <3> QED BY <3>1, <3>2
  <2> QED BY <2>1, SumOfNone DEF NetOf
<1>5. StockFollowsFlag
  <2> SUFFICES ASSUME NEW o \in Orders, NEW v \in Variants
               PROVE  NetOf(inventory[v].com, Booked(o)) =
                          IF orders[o].com.committed THEN -orders[o].com.items[v] ELSE 0
    BY DEF StockFollowsFlag, Net, Committing, NetOf, Booked
  <2>1. inventory[v].com = Opened(v) /\ orders[o].com = NoOrder
    BY <1>1, <1>2
  <2>2. NoOrder.committed = FALSE
    BY DEF NoOrder
  <2> QED BY <1>4, <2>1, <2>2
<1> QED BY <1>3, <1>5 DEF Follows

LEMMA StepFollows == IInv /\ Follows /\ [Next]_vars => Follows'
<1> SUFFICES ASSUME IInv, Follows, [Next]_vars
             PROVE  Follows'
  OBVIOUS
<1>1. CASE UNCHANGED vars
  BY <1>1 DEF vars, Follows, StockFollowsFlag, Net, Committing, Holding, Done, Flipped, Moves, At
<1>2. ASSUME NEW p \in Clients, Step(p)
      PROVE  Follows'
  <2>1. (\A q \in Clients : Holding(q))'
    BY <1>2, QuietlyHolding, ClaimAndDecideHold, InsertHolding, ClaimFlagHolds, MoveLineHolds,
       EndHolds DEF Step, Follows
  <2>2. StockFollowsFlag'
    <3>1. CASE Commit(p)
      BY <3>1, CommitFollows DEF Follows
    <3>2. CASE ~Commit(p)
      <4>1. \A v \in Variants : inventory'[v].com = inventory[v].com
        <5>1. Snapshot(inventory') = Snapshot(inventory)
          BY <1>2, <3>2, OthersMoveNothing
        <5>2. DOMAIN inventory = Variants /\ DOMAIN inventory' = Variants
          BY StepIInv DEF IInv, TypeOK
        <5>3. ASSUME NEW v \in Variants
              PROVE  inventory'[v].com = inventory[v].com
          <6>1. Snapshot(inventory)[v] = inventory[v].com
            BY <5>2 DEF Snapshot
          <6>2. Snapshot(inventory')[v] = inventory'[v].com
            BY <5>2 DEF Snapshot
          <6> QED BY <5>1, <6>1, <6>2
        <5> QED BY <5>3
      <4>2. \A o \in Orders : orders'[o].com = orders[o].com
        BY <1>2, <3>2, OthersSettleNothing
      <4> QED BY <4>1, <4>2 DEF Follows, StockFollowsFlag, Net, Committing
    <3> QED BY <3>1, <3>2
  <2> QED BY <2>1, <2>2 DEF Follows
<1> QED BY <1>1, <1>2 DEF Next

\* However sales, completions and cancellations interleave, what the ledger
\* has booked on an order is its lines when the flag stockCommitted is set and
\* nothing when it is not: commitStock and releaseStock pair every restock
\* with a sale.
THEOREM FlagIsFollowed == Spec => []StockFollowsFlag
<1>1. Init => Follows
  BY InitFollows
<1>2. IInv /\ Follows /\ [Next]_vars => Follows'
  BY StepFollows
<1>3. Follows => StockFollowsFlag
  BY DEF Follows
<1> QED BY <1>1, <1>2, <1>3, Invariant, PTL DEF Spec

-----------------------------------------------------------------------------
\* Transactions that take turns are the atomic requests of Store.

Takes(req) == \/ req.op = "COMPLETE"
              \/ req.op = "STATUS" /\ req.next \in {"CONFIRMED", "PAID", "COMPLETED"}
Gives(req) == \/ req.op = "CANCEL"
              \/ req.op = "STATUS" /\ req.next = "CANCELLED"

\* What the transaction under way has made of each table so far.
OrdersAsWere  == \A o \in Orders : orders[o].live = orders[o].com
ReturnsAsWere == \A r \in Returns : returns[r].live = returns[r].com
StockAsWas    == \A v \in Variants : inventory[v].live = inventory[v].com

OrderNow(o, row) == \A x \in Orders : orders[x].live = IF x = o THEN row ELSE orders[x].com

StockMoved(lines, left, type, ref) ==
    \A v \in Variants :
        IF lines[v] > 0 /\ v \notin left
        THEN /\ Accepts(inventory[v].com, type, lines[v])
             /\ inventory[v].live = Applied(inventory[v].com, type, lines[v], ref)
        ELSE inventory[v].live = inventory[v].com

\* How far an order has come that is being entered,
Entered(req) ==
    [status    |-> IF req.op = "SELL" THEN "COMPLETED" ELSE "PENDING",
     pay       |-> IF req.op = "SELL" THEN "PAID" ELSE "UNPAID",
     committed |-> req.op # "OPEN",
     source    |-> IF req.op = "CHECKOUT" THEN "ONLINE" ELSE "POS",
     items     |-> req.lines]

Entering(p) ==
    LET c == client[p]
        o == c.req.order
    IN  /\ c.pc \in {"insert", "sell", "commit"} /\ ReturnsAsWere
        /\ c.pc = "insert" => OrdersAsWere /\ StockAsWas
        /\ c.pc # "insert" =>
              /\ orders[o].com = NoOrder /\ OrderNow(o, Entered(c.req))
              /\ c.pc = "commit" => c.todo = {}
              /\ IF c.req.op = "OPEN" THEN c.pc = "commit" /\ StockAsWas
                                      ELSE StockMoved(c.req.lines, c.todo, "SALE", OrderRef(o))

\* one whose status is changed,
Target(req) == IF req.op = "CANCEL" THEN "CANCELLED" ELSE req.next

PaidAfter(pay, next) ==
    CASE next = "CANCELLED" -> (IF pay = "PAID" THEN "REFUNDED" ELSE pay)
      [] next = "REFUNDED"  -> "REFUNDED"
      [] next = "PAID"      -> "PAID"
      [] next = "COMPLETED" -> (IF pay = "UNPAID" THEN "PAID" ELSE pay)
      [] next = "CONFIRMED" -> pay

FlagNow(c, was) ==
    CASE Takes(c.req) /\ c.pc \in {"sell", "write", "commit"}    -> TRUE
      [] Gives(c.req) /\ c.pc \in {"restore", "write", "commit"} -> FALSE
      [] OTHER -> was.committed

StatusNow(c, was) ==
    CASE c.req.op = "COMPLETE" /\ c.pc # "complete" -> "COMPLETED"
      [] c.req.op # "COMPLETE" /\ c.pc = "commit"   -> Target(c.req)
      [] OTHER -> was.status

PayNow(c, was) ==
    CASE c.req.op = "COMPLETE" /\ c.pc # "complete" -> "PAID"
      [] c.req.op # "COMPLETE" /\ c.pc = "commit"   -> PaidAfter(was.pay, Target(c.req))
      [] OTHER -> was.pay

RowNow(c, was) ==
    [status |-> StatusNow(c, was), pay |-> PayNow(c, was), committed |-> FlagNow(c, was),
     source |-> was.source, items |-> was.items]

OrderStages(req) ==
    CASE req.op = "COMPLETE" -> {"complete", "commitStock", "take", "sell", "commit"}
      [] req.op # "COMPLETE" /\ Takes(req) -> {"commitStock", "take", "sell", "write", "commit"}
      [] Gives(req) -> {"returns", "releaseStock", "give", "restore", "write", "commit"}
      [] OTHER -> {"write", "commit"}

Changing(p) ==
    LET c   == client[p]
        o   == c.req.order
        was == orders[o].com
    IN  /\ ReturnsAsWere
        /\ c.pc = "read" => OrdersAsWere /\ StockAsWas
        /\ c.pc # "read" =>
              /\ c.pc \in OrderStages(c.req) /\ Legal(c.req, was) /\ c.seen = was
              /\ c.pc \in {"take", "sell"} => ~was.committed
              /\ c.pc \in {"give", "restore"} => was.committed
              /\ c.pc \notin {"sell", "restore"} => c.todo = {}
              /\ Gives(c.req) /\ c.pc # "returns" =>
                    \A r \in Returns : returns[r].com.order = o
                                          => returns[r].com.status \notin OpenReturn
              /\ OrderNow(o, RowNow(c, was))
              /\ IF FlagNow(c, was) = was.committed THEN StockAsWas
                 ELSE IF was.committed
                 THEN StockMoved(was.items, c.todo, "ADJUSTMENT_IN", CancelRef(o))
                 ELSE StockMoved(was.items, c.todo, "SALE", OrderRef(o))

\* and the lines that are taken back of one, each with the id of its return.
Returned(rows, o, v) ==
    LET prior == {r \in Returns : /\ rows[r].com.order = o
                                  /\ rows[r].com.variant = v
                                  /\ rows[r].com.status \in OpenReturn}
    IN  SumFunctionOnSet([r \in Returns |-> rows[r].com.qty], prior)

Fits(rows, items, req, v) ==
    /\ items[v] > 0
    /\ req.lines[v] <= items[v] - Returned(rows, req.order, v)

Filed(req, v) == [status |-> IF req.accept THEN "ACCEPTED" ELSE "REQUESTED",
                  order |-> req.order, variant |-> v, qty |-> req.lines[v]]

LinesNow(rows, items, req, row) ==
    /\ \A v, w \in DOMAIN row : row[v] = row[w] => v = w
    /\ \A v \in DOMAIN row : /\ rows[row[v]].com = NoReturn
                             /\ rows[row[v]].live = Filed(req, v)
                             /\ Fits(rows, items, req, v)
    /\ \A r \in Returns : (\A v \in DOMAIN row : row[v] # r) => rows[r].live = rows[r].com

CreditsNow(stock, req, row, left) ==
    \A v \in Variants :
        stock[v].live = IF req.accept /\ v \in DOMAIN row \ left
                        THEN Applied(stock[v].com, "RETURN", req.lines[v], ReturnRef(row[v]))
                        ELSE stock[v].com

Filing(c) == (Asked(c.req.lines) \ c.todo) \cup (IF c.pc = "credit" THEN {c.line} ELSE {})

TakingBack(p) ==
    LET c   == client[p]
        was == orders[c.req.order].com
    IN  /\ OrdersAsWere
        /\ c.pc = "read" => ReturnsAsWere /\ StockAsWas
        /\ c.pc # "read" =>
              /\ c.pc \in {"eligible", "enter", "credit", "commit"}
              /\ was.status \in Returnable /\ c.todo \subseteq Asked(c.req.lines)
              /\ c.pc = "commit" => c.todo = {}
              /\ c.pc = "enter" => c.line \in c.todo /\ Fits(returns, was.items, c.req, c.line)
              /\ c.pc = "credit" => c.line \in c.todo /\ c.req.accept
              /\ \E row \in [Filing(c) -> Returns] :
                    /\ LinesNow(returns, was.items, c.req, row)
                    /\ CreditsNow(inventory, c.req, row, c.todo)
                    /\ c.pc = "credit" => c.ret = row[c.line]

\* How far a decision about a return has come.
Deciding(p) ==
    LET c   == client[p]
        r   == c.req.ret
        was == returns[r].com
        new == [was EXCEPT !.status = IF c.req.op = "ACCEPT" THEN "ACCEPTED" ELSE "REJECTED"]
    IN  /\ OrdersAsWere
        /\ c.pc = "read" => ReturnsAsWere /\ StockAsWas
        /\ c.pc # "read" =>
              /\ c.pc \in {"decide", "credit", "commit"} /\ was.status = "REQUESTED"
              /\ c.pc = "decide" => ReturnsAsWere
              /\ c.pc # "decide" =>
                    \A x \in Returns : returns[x].live = IF x = r THEN new ELSE returns[x].com
              /\ c.pc = "credit" => /\ c.req.op = "ACCEPT" /\ c.ret = r
                                    /\ c.line = was.variant /\ c.todo = {was.variant}
              /\ \A v \in Variants :
                    inventory[v].live = IF c.req.op = "ACCEPT" /\ c.pc = "commit" /\ v = was.variant
                                        THEN Applied(inventory[v].com, "RETURN", was.qty, ReturnRef(r))
                                        ELSE inventory[v].com

Under(p) == ~At(p, "idle")
Progress(p) ==
    /\ Op(p) # "NONE"
    /\ Op(p) \in Sales => Entering(p)
    /\ Op(p) \in {"COMPLETE", "STATUS", "CANCEL"} => Changing(p)
    /\ Op(p) = "RETURN" => TakingBack(p)
    /\ Op(p) \in {"ACCEPT", "REJECT"} => Deciding(p)

\* One transaction is under way at most; whoever is in none holds nothing.
OnFile == {r \in Returns : returns[r].com # NoReturn \/ returns[r].live # NoReturn}

Alone ==
    /\ \A p, q \in Clients : Under(p) /\ Under(q) => p = q
    /\ \A p \in Clients : ~Under(p) => /\ \A o \in Orders : orders[o].by # p
                                       /\ \A r \in Returns : returns[r].by # p
                                       /\ \A v \in Variants : inventory[v].by # p
    /\ \A p \in Clients : Under(p) => Progress(p)
    /\ IsFiniteSet(OnFile)

\* The transaction under way, if there is one, sees what is there.
LEMMA TurnLemma ==
    ASSUME IInv, Alone, NEW p \in Clients, Under(p)
    PROVE  /\ \A o \in Orders : /\ orders[o].by \in {Nobody, p} /\ See(orders[o], p) = orders[o].live
                                /\ orders[o].by # p => orders[o].live = orders[o].com
           /\ \A r \in Returns : /\ returns[r].by \in {Nobody, p} /\ See(returns[r], p) = returns[r].live
                                 /\ returns[r].by # p => returns[r].live = returns[r].com
           /\ \A v \in Variants : /\ inventory[v].by \in {Nobody, p}
                                  /\ See(inventory[v], p) = inventory[v].live
                                  /\ inventory[v].by # p => inventory[v].live = inventory[v].com
<1>1. \A q \in Clients : q # p => ~Under(q)
  BY DEF Alone
<1>2. /\ \A o \in Orders : orders[o].by \in Clients \cup {Nobody}
      /\ \A r \in Returns : returns[r].by \in Clients \cup {Nobody}
      /\ \A v \in Variants : inventory[v].by \in Clients \cup {Nobody}
  BY DEF IInv, TypeOK, Cells
<1>3. /\ \A o \in Orders : orders[o].by \in {Nobody, p}
      /\ \A r \in Returns : returns[r].by \in {Nobody, p}
      /\ \A v \in Variants : inventory[v].by \in {Nobody, p}
  BY <1>1, <1>2 DEF Alone
<1> QED BY <1>3 DEF See, IInv, VersionsAreHeld

\* With no transaction under way everything is as committed.
LEMMA RestLemma ==
    ASSUME IInv, Alone, \A q \in Clients : ~Under(q)
    PROVE  OrdersAsWere /\ ReturnsAsWere /\ StockAsWas
<1>1. /\ \A o \in Orders : orders[o].by \in Clients \cup {Nobody}
      /\ \A r \in Returns : returns[r].by \in Clients \cup {Nobody}
      /\ \A v \in Variants : inventory[v].by \in Clients \cup {Nobody}
  BY DEF IInv, TypeOK, Cells
<1>2. /\ \A o \in Orders : orders[o].by = Nobody
      /\ \A r \in Returns : returns[r].by = Nobody
      /\ \A v \in Variants : inventory[v].by = Nobody
  BY <1>1 DEF Alone
<1> QED BY <1>2 DEF OrdersAsWere, ReturnsAsWere, StockAsWas, IInv, VersionsAreHeld

\* A statement of the transaction under way.
LEMMA TurnStep ==
    ASSUME IInv, Alone, NEW p \in Clients, Under(p), Under(p)',
           \A q \in Clients : q # p => client'[q] = client[q],
           \A o \in Orders : orders'[o].by \in {orders[o].by, p},
           \A r \in Returns : returns'[r].by \in {returns[r].by, p},
           \A v \in Variants : inventory'[v].by \in {inventory[v].by, p},
           Progress(p)', IsFiniteSet(OnFile')
    PROVE  Alone'
<1>1. \A q \in Clients : Under(q)' <=> q = p
  BY DEF Alone, Under, At
<1>2. \A q \in Clients : q # p => ~Under(q)
  BY DEF Alone
<1>3. ASSUME NEW q \in Clients, q # p
      PROVE  /\ \A o \in Orders : orders'[o].by # q
             /\ \A r \in Returns : returns'[r].by # q
             /\ \A v \in Variants : inventory'[v].by # q
  BY <1>2, <1>3 DEF Alone
<1> QED BY <1>1, <1>3 DEF Alone

\* A transaction begins once there is no other.
LEMMA BeginAlone ==
    ASSUME Serialised, IInv, Alone, NEW p \in Clients, NEW req \in Requests, Begin(p, req)
    PROVE  Alone'
<1>1. client \in [Clients -> Client] /\ req.op \in Ops
  BY DEF IInv, TypeOK, Client, Requests
<1>2. /\ \A q \in Clients : ~Under(q)
      /\ UNCHANGED <<inventory, orders, returns>>
  BY DEF Begin, Under
<1>3. OrdersAsWere /\ ReturnsAsWere /\ StockAsWas
  BY <1>2, RestLemma
<1>4. OrdersAsWere' /\ ReturnsAsWere' /\ StockAsWas' /\ OnFile' = OnFile
  BY <1>2, <1>3 DEF OrdersAsWere, ReturnsAsWere, StockAsWas, OnFile
<1>5. /\ client'[p].req = req /\ client'[p].pc = IF req.op \in Sales THEN "insert" ELSE "read"
      /\ \A q \in Clients : q # p => client'[q] = client[q]
  BY <1>1 DEF Begin, Client
<1>6. Under(p)' /\ \A q \in Clients : q # p => ~Under(q)'
  BY <1>2, <1>5 DEF Under, At
<1>7. Progress(p)'
  <2>1. StockAsWas' => \A v \in Variants : inventory'[v].live = inventory'[v].com
    BY DEF StockAsWas
  <2>2. req.op # "NONE"
    BY <1>1, RequestsAssumption DEF Sales
  <2> QED BY <1>4, <1>5, <2>1, <2>2 DEF Progress, Entering, Changing, TakingBack, Deciding, Op, Sales
<1>8. \A q \in Clients : /\ \A o \in Orders : orders'[o].by # q
                         /\ \A r \in Returns : returns'[r].by # q
                         /\ \A v \in Variants : inventory'[v].by # q
  BY <1>2 DEF Alone
<1>9. IsFiniteSet(OnFile')
  BY <1>4 DEF Alone
<1> QED BY <1>6, <1>7, <1>8, <1>9 DEF Alone

\* A transaction ends: nobody holds anything.
LEMMA EndAlone ==
    ASSUME IInv, Alone, NEW p \in Clients, Commit(p) \/ Rollback(p), Under(p)
    PROVE  Alone'
<1>1. /\ client \in [Clients -> Client] /\ p # Nobody
      /\ inventory \in [Variants -> Cells(Rows)] /\ orders \in [Orders -> Cells(OrderRows)]
      /\ returns \in [Returns -> Cells(ReturnRows)]
      /\ DOMAIN inventory = Variants /\ DOMAIN orders = Orders /\ DOMAIN returns = Returns
  BY NobodyAssumption DEF IInv, TypeOK, Client, Rows
<1>2. client'[p] = Idle /\ \A q \in Clients : q # p => client'[q] = client[q]
  BY <1>1 DEF Commit, Rollback
<1>3. \A row : Cell(row).by = Nobody /\ Cell(row).com = row /\ Cell(row).live = row
  BY DEF Cell
<1>4. /\ \A v \in Variants : Committed(inventory, p)[v].by = Nobody /\ RolledBack(inventory, p)[v].by = Nobody
      /\ \A o \in Orders : Committed(orders, p)[o].by = Nobody /\ RolledBack(orders, p)[o].by = Nobody
      /\ \A r \in Returns : Committed(returns, p)[r].by = Nobody /\ RolledBack(returns, p)[r].by = Nobody
  <2>1. /\ \A v \in Variants : inventory[v].by \in {Nobody, p}
        /\ \A o \in Orders : orders[o].by \in {Nobody, p}
        /\ \A r \in Returns : returns[r].by \in {Nobody, p}
    BY TurnLemma
  <2> QED BY <1>1, <1>3, <2>1 DEF Committed, RolledBack
<1>5. /\ \A v \in Variants : inventory'[v].by = Nobody
      /\ \A o \in Orders : orders'[o].by = Nobody
      /\ \A r \in Returns : returns'[r].by = Nobody
  BY <1>4 DEF Commit, Rollback
<1>6. \A q \in Clients : ~Under(q)'
  BY <1>2 DEF Alone, Under, At, Idle
<1>7. IsFiniteSet(OnFile')
  <2>1. OnFile' \subseteq OnFile
    <3>1. ASSUME NEW r \in Returns
          PROVE  /\ Committed(returns, p)[r].com \in {returns[r].com, returns[r].live}
                 /\ Committed(returns, p)[r].live \in {returns[r].com, returns[r].live}
                 /\ RolledBack(returns, p)[r].com \in {returns[r].com, returns[r].live}
                 /\ RolledBack(returns, p)[r].live \in {returns[r].com, returns[r].live}
      BY <1>1, <1>3 DEF Committed, RolledBack
    <3>2. \A r \in Returns : /\ returns'[r].com \in {returns[r].com, returns[r].live}
                             /\ returns'[r].live \in {returns[r].com, returns[r].live}
      BY <3>1 DEF Commit, Rollback
    <3> QED BY <3>2 DEF OnFile
  <2> QED BY <2>1, FS_Subset DEF Alone
<1> QED BY <1>5, <1>6, <1>7, NobodyAssumption DEF Alone

\* Orders alike in every column are the same.
LEMMA SameRow ==
    ASSUME NEW a \in OrderRows, NEW b,
           b = [status |-> a.status, pay |-> a.pay, committed |-> a.committed,
                source |-> a.source, items |-> a.items]
    PROVE  b = a
BY DEF OrderRows

\* Before anything is written.
LEMMA NotYet ==
    ASSUME NEW c, NEW was \in OrderRows,
           \/ c.pc \in {"complete", "returns", "releaseStock", "commitStock", "take", "give"}
           \/ c.pc = "write" /\ ~Takes(c.req) /\ ~Gives(c.req),
           c.req.op = "COMPLETE" => c.pc = "complete"
    PROVE  FlagNow(c, was) = was.committed /\ RowNow(c, was) = was
<1>1. FlagNow(c, was) = was.committed
  BY DEF FlagNow
<1>2. StatusNow(c, was) = was.status /\ PayNow(c, was) = was.pay
  BY DEF StatusNow, PayNow
<1> QED BY <1>1, <1>2, SameRow DEF RowNow

\* An order is entered.
LEMMA InsertInTurn ==
    ASSUME IInv, Alone, NEW p \in Clients, InsertOrder(p)
    PROVE  Alone'
<1> DEFINE req == client[p].req
           o   == req.order
           now == req.op # "OPEN"
           row == Entered(req)
           c   == [client[p] EXCEPT !.pc = IF now THEN "sell" ELSE "commit",
                                    !.todo = IF now THEN Asked(req.lines) ELSE {}]
<1>1. client' = [client EXCEPT ![p] = c] /\ client \in [Clients -> Client]
  BY DEF InsertOrder, IInv, TypeOK, Client
<1>2. client[p] \in Client /\ req \in Requests \cup {Blank}
  BY SeeLemma DEF Client
<1>3. req.op \in Sales /\ o \in Orders /\ req.lines \in [Variants -> Nat]
  BY <1>2, RequestLemma DEF InsertOrder
<1>4. c.req = req /\ c.pc = (IF now THEN "sell" ELSE "commit")
      /\ c.todo = (IF now THEN Asked(req.lines) ELSE {})
  BY <1>2 DEF Client
<1>5. row \in OrderRows
  BY <1>3 DEF Entered, OrderRows, OrderStatuses, PaymentStatuses
<1>6. /\ orders' = [orders EXCEPT ![o] = Written(@, p, row)]
      /\ orders[o] = Cell(NoOrder) /\ client[p].pc = "insert" /\ UNCHANGED <<inventory, returns>>
  BY DEF InsertOrder, At, Entered
<1>7. Free(orders[o], p) /\ orders[o].com = NoOrder
  BY <1>6 DEF Free, Cell
<1>8. Under(p) /\ OrdersAsWere /\ ReturnsAsWere /\ StockAsWas
  BY <1>3, <1>6 DEF Under, At, Alone, Progress, Entering, Op
<1> HIDE DEF row, c, o
<1>9. /\ \A x \in Orders : x # o => orders'[x] = orders[x]
      /\ orders'[o].by = p /\ orders'[o].live = row /\ orders'[o].com = orders[o].com
      /\ \A x \in Orders : \/ orders'[x] = orders[x]
                           \/ orders[x].by \in {Nobody, p} /\ orders'[x].by \in {Nobody, p}
      /\ orders[o].by # p => orders[o].live = orders[o].com /\ orders[o].by = Nobody
  BY ONLY IInv, p \in Clients, <1>3, <1>5, <1>6, <1>7, OrderInHand
<1>10. /\ client'[p] = c /\ \A q \in Clients : q # p => client'[q] = client[q]
  BY <1>1
<1>11. Under(p)'
  BY <1>4, <1>10 DEF Under, At
<1>12. \A x \in Orders : orders'[x].live = IF x = o THEN row ELSE orders'[x].com
  BY <1>8, <1>9 DEF OrderNow, OrdersAsWere
<1>13. /\ StockAsWas'
       /\ \A v \in Variants : ~(req.lines[v] > 0 /\ v \notin Asked(req.lines))
  BY <1>6, <1>8 DEF StockAsWas, Asked
<1>14. ReturnsAsWere' /\ OnFile' = OnFile
  BY <1>6, <1>8 DEF ReturnsAsWere, OnFile
<1>15. Entering(p)'
  BY <1>4, <1>7, <1>9, <1>10, <1>12, <1>13, <1>14 DEF Entering, OrderNow, StockMoved, StockAsWas, o, row
<1>16. Progress(p)'
  BY <1>3, <1>4, <1>10, <1>15 DEF Progress, Op, Sales
<1>17. IsFiniteSet(OnFile')
  BY <1>14 DEF Alone
<1>18. \A x \in Orders : orders'[x].by \in {orders[x].by, p}
  BY <1>9
<1> QED BY <1>6, <1>8, <1>10, <1>11, <1>16, <1>17, <1>18, TurnStep

\* Only sales and returns have lines.
LEMMA LinesLemma ==
    ASSUME NEW req \in Requests \cup {Blank}, req.op \notin Sales, req.op # "RETURN"
    PROVE  req.lines = Nothing
<1>1. CASE req = Blank
  BY <1>1 DEF Blank
<1>2. CASE req \in [op : {"COMPLETE", "CANCEL"}, order : Orders, ret : {"NONE"},
                    lines : {Nothing}, next : {"NONE"}, accept : {FALSE}]
  BY <1>2
<1>3. CASE req \in [op : {"STATUS"}, order : Orders, ret : {"NONE"}, lines : {Nothing},
                    next : Targets, accept : {FALSE}]
  BY <1>3
<1>4. CASE req \in [op : {"ACCEPT", "REJECT"}, order : {"NONE"}, ret : Returns,
                    lines : {Nothing}, next : {"NONE"}, accept : {FALSE}]
  BY <1>4
<1> QED BY <1>1, <1>2, <1>3, <1>4 DEF Requests

\* What the client that works on an order knows of it.
LEMMA ChangingLemma ==
    ASSUME IInv, Alone, NEW p \in Clients, Under(p),
           Op(p) \in {"COMPLETE", "STATUS", "CANCEL"}
    PROVE  LET c   == client[p]
               o   == c.req.order
               was == orders[o].com
           IN  /\ Changing(p) /\ c \in Client /\ o \in Orders /\ was \in OrderRows
               /\ c.req.lines = Nothing /\ (c.req.op # "STATUS" => c.req.next = "NONE")
               /\ (c.req.op = "STATUS" => c.req.next \in Targets)
               /\ Order(p) = orders[o].live
               /\ c.pc = "read" => Order(p) = was
               /\ c.pc # "read" => Order(p) = RowNow(c, was)
<1>1. Changing(p)
  BY DEF Alone, Progress
<1>2. client[p] \in Client /\ client[p].req \in Requests \cup {Blank}
  BY SeeLemma DEF Client
<1>3. /\ client[p].req.order \in Orders
      /\ client[p].req.lines = Nothing /\ (client[p].req.op # "STATUS" => client[p].req.next = "NONE")
      /\ (client[p].req.op = "STATUS" => client[p].req.next \in Targets)
  <2>1. client[p].req.lines = Nothing
    BY <1>2, LinesLemma DEF Op, Sales
  <2> QED BY <1>2, <2>1, RequestLemma DEF Op
<1>4. orders[client[p].req.order].com \in OrderRows
  BY <1>3 DEF IInv, TypeOK, Cells
<1>5. Order(p) = orders[client[p].req.order].live
  BY <1>3, TurnLemma DEF Order
<1> QED BY <1>1, <1>2, <1>3, <1>4, <1>5 DEF Changing, OrdersAsWere, OrderNow

\* A statement that reads, or that writes only the order in hand.
LEMMA ChangeStep ==
    ASSUME IInv, Alone, NEW p \in Clients, Under(p),
           Op(p) \in {"COMPLETE", "STATUS", "CANCEL"},
           client'[p].req = client[p].req, client'[p].pc # "idle",
           \A q \in Clients : q # p => client'[q] = client[q],
           UNCHANGED returns,
           \A o \in Orders : orders'[o].by \in {orders[o].by, p},
           \A v \in Variants : inventory'[v].by \in {inventory[v].by, p},
           Changing(p)'
    PROVE  Alone'
<1>1. Progress(p)' /\ Under(p)'
  BY DEF Progress, Op, Sales, Under, At
<1>2. OnFile' = OnFile
  BY DEF OnFile
<1>3. IsFiniteSet(OnFile')
  BY <1>2 DEF Alone
<1> QED BY <1>1, <1>3, TurnStep

\* What a statement of such a client that writes nothing has to find.
LEMMA ChangeRead ==
    ASSUME IInv, Alone, NEW p \in Clients, Under(p),
           Op(p) \in {"COMPLETE", "STATUS", "CANCEL"},
           UNCHANGED <<inventory, orders, returns>>,
           \A q \in Clients : q # p => client'[q] = client[q],
           LET c   == client'[p]
               o   == client[p].req.order
               was == orders[o].com
           IN  /\ c.req = client[p].req /\ c.pc \in OrderStages(c.req)
               /\ Legal(c.req, was) /\ c.seen = was /\ c.todo = {}
               /\ c.pc \notin {"sell", "restore"}
               /\ c.pc = "take" => ~was.committed
               /\ c.pc = "give" => was.committed
               /\ Gives(c.req) /\ c.pc # "returns" =>
                     \A r \in Returns : returns[r].com.order = o
                                           => returns[r].com.status \notin OpenReturn
               /\ FlagNow(c, was) = was.committed /\ RowNow(c, was) = Order(p),
           StockAsWas, client[p].pc # "read" \/ OrdersAsWere
    PROVE  Alone'
<1> DEFINE o   == client[p].req.order
           was == orders[o].com
           c   == client'[p]
<1>1. /\ Changing(p) /\ o \in Orders /\ was \in OrderRows /\ Order(p) = orders[o].live
      /\ client[p].pc = "read" => Order(p) = was
      /\ client[p].pc # "read" => Order(p) = RowNow(client[p], was)
  BY ChangingLemma
<1>2. OrderNow(o, Order(p)) /\ ReturnsAsWere
  <2>1. CASE client[p].pc = "read"
    BY <1>1, <2>1 DEF OrderNow, OrdersAsWere, Changing
  <2>2. CASE client[p].pc # "read"
    BY <1>1, <2>2 DEF Changing
  <2> QED BY <2>1, <2>2
<1>3. c.pc # "idle" /\ c.pc # "read"
  BY DEF OrderStages
<1>4. /\ \A x \in Orders : orders'[x].live = IF x = o THEN RowNow(c, was) ELSE orders'[x].com
      /\ StockAsWas' /\ ReturnsAsWere'
  BY <1>2 DEF OrderNow, StockAsWas, ReturnsAsWere
<1>5. client'[p].req.order = o /\ orders'[o].com = was
  OBVIOUS
<1>6. Changing(p)'
  <2> HIDE DEF o, was
  <2> QED BY <1>3, <1>4, <1>5 DEF Changing, OrderNow, was, o
<1>7. client'[p].req = client[p].req
  OBVIOUS
<1> QED BY <1>3, <1>6, <1>7, ChangeStep

\* The order is read.
LEMMA ReadInTurn ==
    ASSUME IInv, Alone, NEW p \in Clients, ReadOrder(p),
           Op(p) \in {"COMPLETE", "STATUS", "CANCEL"}
    PROVE  Alone'
<1> DEFINE req == client[p].req
           was == orders[req.order].com
           c   == [client[p] EXCEPT !.pc = AfterRead(req), !.seen = Order(p),
                                    !.todo = Asked(req.lines)]
<1>1. Under(p) /\ client[p].pc = "read"
  BY DEF ReadOrder, Under, At
<1>2. /\ Changing(p) /\ client[p] \in Client /\ was \in OrderRows
      /\ req.lines = Nothing /\ Order(p) = was
      /\ req.op = "STATUS" => req.next \in Targets
      /\ req.op # "STATUS" => req.next = "NONE"
  BY <1>1, ChangingLemma
<1>3. /\ client' = [client EXCEPT ![p] = c] /\ Legal(req, was)
      /\ client \in [Clients -> Client]
      /\ UNCHANGED <<inventory, orders, returns>>
  BY <1>2 DEF ReadOrder, Reads, IInv, TypeOK, Client
<1>4. /\ c.pc = AfterRead(req) /\ c.seen = was /\ c.todo = {} /\ c.req = req
  BY <1>2 DEF Client, Asked, Nothing
<1> HIDE DEF c
<1>5. /\ client'[p] = c /\ \A q \in Clients : q # p => client'[q] = client[q]
  BY <1>3
<1>6. /\ AfterRead(req) \in OrderStages(req)
      /\ AfterRead(req) \in {"complete", "returns", "commitStock", "write"}
      /\ AfterRead(req) = "write" => ~Takes(req) /\ ~Gives(req)
      /\ req.op = "COMPLETE" => AfterRead(req) = "complete"
      /\ Gives(req) => AfterRead(req) = "returns"
  BY <1>2 DEF AfterRead, OrderStages, Takes, Gives, Targets, Op
<1>7. FlagNow(c, was) = was.committed /\ RowNow(c, was) = was
  BY <1>2, <1>4, <1>6, NotYet
<1>8. StockAsWas /\ OrdersAsWere
  BY <1>1, <1>2 DEF Changing
<1> QED BY <1>1, <1>2, <1>3, <1>4, <1>5, <1>6, <1>7, <1>8, ChangeRead

\* Returns are counted, or the flag is read.
LEMMA LookInTurn ==
    ASSUME IInv, Alone, NEW p \in Clients, CountReturns(p) \/ ReadFlag(p),
           Op(p) \in {"COMPLETE", "STATUS", "CANCEL"}
    PROVE  Alone'
<1> DEFINE req == client[p].req
           o   == req.order
           was == orders[o].com
<1>1. Under(p) /\ client[p].pc \in {"returns", "commitStock", "releaseStock"}
  BY DEF CountReturns, ReadFlag, Under, At
<1>2. /\ Changing(p) /\ client[p] \in Client /\ was \in OrderRows /\ o \in Orders
      /\ Order(p) = RowNow(client[p], was)
      /\ req.op = "STATUS" => req.next \in Targets
  BY <1>1, ChangingLemma
<1>3. PICK label : Goto(p, label)
  BY DEF CountReturns, ReadFlag
<1>4. /\ client'[p].req = req /\ client'[p].pc = label /\ client'[p].seen = client[p].seen
      /\ client'[p].todo = client[p].todo
      /\ \A q \in Clients : q # p => client'[q] = client[q]
      /\ UNCHANGED <<inventory, orders, returns>>
  BY <1>3 DEF Goto, CountReturns, ReadFlag, Reads, IInv, TypeOK
<1>5. /\ client[p].pc \in OrderStages(req) /\ Legal(req, was) /\ client[p].seen = was
      /\ client[p].todo = {}
      /\ Gives(req) /\ client[p].pc # "returns" =>
            \A r \in Returns : returns[r].com.order = o
                                  => returns[r].com.status \notin OpenReturn
      /\ FlagNow(client[p], was) = was.committed => StockAsWas
  BY <1>1, <1>2 DEF Changing
<1>6. FlagNow(client[p], was) = was.committed /\ Order(p).committed = was.committed
  <2>1. FlagNow(client[p], was) = was.committed
    BY <1>1 DEF FlagNow
  <2>2. RowNow(client[p], was).committed = FlagNow(client[p], was)
    BY DEF RowNow
  <2> QED BY <1>2, <2>1, <2>2
<1>7. /\ client[p].pc = "commitStock" => Takes(req)
      /\ client[p].pc \in {"returns", "releaseStock"} => Gives(req) /\ ~Takes(req) /\ req.op # "COMPLETE"
  BY <1>5 DEF OrderStages, Takes, Gives
<1>8. CASE CountReturns(p)
  <2>1. client[p].pc = "returns" /\ label = "releaseStock"
    <3>1. client[p].pc = "returns" /\ Goto(p, "releaseStock")
      BY <1>8 DEF CountReturns, At
    <3>2. client'[p].pc = "releaseStock"
      BY <3>1 DEF Goto, IInv, TypeOK
    <3> QED BY <1>4, <3>1, <3>2
  <2>2. \A r \in Returns : returns[r].com.order = o => returns[r].com.status \notin OpenReturn
    <3>1. ReturnsAsWere
      BY <1>2 DEF Changing
    <3>2. \A r \in Returns : Return(r, p) = returns[r].com
      BY <1>1, <3>1, TurnLemma DEF Return, ReturnsAsWere
    <3> QED BY <1>8, <3>2 DEF CountReturns
  <2>3. "releaseStock" \in OrderStages(req)
    BY <1>7, <2>1 DEF OrderStages, Takes, Gives
  <2>4. FlagNow(client'[p], was) = was.committed /\ RowNow(client'[p], was) = was
    BY <1>2, <1>4, <1>7, <2>1, NotYet
  <2>5. RowNow(client[p], was) = was
    BY <1>2, <1>7, <2>1, NotYet
  <2> HIDE DEF req, was, o
  <2> QED BY <1>1, <1>2, <1>4, <1>5, <1>6, <2>1, <2>2, <2>3, <2>4, <2>5, ChangeRead DEF req, was, o
<1>9. CASE ReadFlag(p)
  <2>1. label = IF client[p].pc = "commitStock"
                THEN (IF was.committed THEN AfterStock(p) ELSE "take")
                ELSE (IF was.committed THEN "give" ELSE AfterStock(p))
    <3>1. \E l \in {AfterStock(p), "take", "give"} :
            /\ Goto(p, l)
            /\ l = IF client[p].pc = "commitStock"
                   THEN (IF was.committed THEN AfterStock(p) ELSE "take")
                   ELSE (IF was.committed THEN "give" ELSE AfterStock(p))
      BY <1>6, <1>9 DEF ReadFlag, At
    <3>2. PICK l \in {AfterStock(p), "take", "give"} :
            /\ Goto(p, l)
            /\ l = IF client[p].pc = "commitStock"
                   THEN (IF was.committed THEN AfterStock(p) ELSE "take")
                   ELSE (IF was.committed THEN "give" ELSE AfterStock(p))
      BY <3>1
    <3>3. client'[p].pc = l
      BY <3>2 DEF Goto, IInv, TypeOK
    <3> QED BY <1>4, <3>2, <3>3
  <2>2. client[p].pc \in {"commitStock", "releaseStock"}
    BY <1>9 DEF ReadFlag, At
  <2>3. AfterStock(p) = IF req.op = "COMPLETE" THEN "commit" ELSE "write"
    BY DEF AfterStock, Op
  <2>4. label \in OrderStages(req)
    BY <1>7, <2>1, <2>2, <2>3 DEF OrderStages, Takes, Gives
  <2>5. FlagNow(client'[p], was) = was.committed
    <3>1. was.committed \in BOOLEAN
      BY <1>2 DEF OrderRows
    <3> QED BY <1>4, <1>7, <2>1, <2>2, <2>3, <3>1 DEF FlagNow, Takes, Gives
  <2>6. RowNow(client'[p], was) = RowNow(client[p], was)
    <3>1. /\ StatusNow(client'[p], was) = StatusNow(client[p], was)
          /\ PayNow(client'[p], was) = PayNow(client[p], was)
      BY <1>4, <1>7, <2>1, <2>2, <2>3 DEF StatusNow, PayNow
    <3> QED BY <1>6, <2>5, <3>1 DEF RowNow
  <2>7. /\ label \notin {"sell", "restore", "returns"}
        /\ label = "take" => ~was.committed
        /\ label = "give" => was.committed
    BY <2>1, <2>3
  <2>8. client[p].pc # "returns" /\ client[p].pc # "read" /\ StockAsWas
    BY <1>5, <1>6, <2>2
  <2> HIDE DEF req, was, o
  <2> QED BY <1>1, <1>2, <1>4, <1>5, <2>4, <2>5, <2>6, <2>7, <2>8, ChangeRead DEF req, was, o
<1> QED BY <1>8, <1>9

\* What a statement of such a client that writes the order has to leave.
LEMMA ChangeWrite ==
    ASSUME IInv, Alone, NEW p \in Clients, Under(p),
           Op(p) \in {"COMPLETE", "STATUS", "CANCEL"}, client[p].pc # "read",
           NEW row \in OrderRows, WriteOrder(p, row),
           \A q \in Clients : q # p => client'[q] = client[q],
           LET c   == client'[p]
               o   == client[p].req.order
               was == orders[o].com
           IN  /\ c.req = client[p].req /\ c.pc \in OrderStages(c.req) /\ c.seen = client[p].seen
               /\ c.pc \notin {"take", "give"}
               /\ c.pc = "sell" => ~was.committed
               /\ c.pc = "restore" => was.committed
               /\ c.pc \notin {"sell", "restore"} => c.todo = {}
               /\ client[p].pc \in {"returns", "complete"} => ~Gives(c.req)
               /\ row = RowNow(c, was)
               /\ \/ /\ FlagNow(c, was) = FlagNow(client[p], was)
                     /\ c.todo = client[p].todo
                  \/ /\ FlagNow(client[p], was) = was.committed
                     /\ c.todo = Asked(was.items)
    PROVE  Alone'
<1> DEFINE o   == client[p].req.order
           was == orders[o].com
           c   == client'[p]
<1>1. /\ Changing(p) /\ o \in Orders /\ was \in OrderRows
  BY ChangingLemma
<1>2. /\ Free(orders[o], p) /\ orders' = [orders EXCEPT ![o] = Written(@, p, row)]
      /\ UNCHANGED <<inventory, returns>>
  BY DEF WriteOrder
<1>3. /\ \A x \in Orders : x # o => orders'[x] = orders[x]
      /\ orders'[o].by = p /\ orders'[o].live = row /\ orders'[o].com = orders[o].com
      /\ \A x \in Orders : \/ orders'[x] = orders[x]
                           \/ orders[x].by \in {Nobody, p} /\ orders'[x].by \in {Nobody, p}
      /\ orders[o].by # p => orders[o].live = orders[o].com /\ orders[o].by = Nobody
  <2> HIDE DEF o
  <2> QED BY ONLY IInv, p \in Clients, row \in OrderRows, <1>1, <1>2, OrderInHand
<1>4. /\ OrderNow(o, RowNow(client[p], was)) /\ Legal(client[p].req, was) /\ client[p].seen = was
      /\ ReturnsAsWere
      /\ Gives(client[p].req) /\ client[p].pc # "returns" =>
            \A r \in Returns : returns[r].com.order = o
                                  => returns[r].com.status \notin OpenReturn
      /\ IF FlagNow(client[p], was) = was.committed THEN StockAsWas
         ELSE IF was.committed
         THEN StockMoved(was.items, client[p].todo, "ADJUSTMENT_IN", CancelRef(o))
         ELSE StockMoved(was.items, client[p].todo, "SALE", OrderRef(o))
  BY <1>1 DEF Changing
<1>5. \A x \in Orders : orders'[x].live = IF x = o THEN row ELSE orders'[x].com
  BY <1>3, <1>4 DEF OrderNow
<1>6. /\ IF FlagNow(c, was) = was.committed THEN StockAsWas
         ELSE IF was.committed
         THEN StockMoved(was.items, c.todo, "ADJUSTMENT_IN", CancelRef(o))
         ELSE StockMoved(was.items, c.todo, "SALE", OrderRef(o))
  <2>1. CASE FlagNow(client[p], was) = was.committed
    <3>1. StockAsWas
      BY <1>4, <2>1
    <3>2. CASE c.todo = Asked(was.items)
      <4>1. \A type, ref : StockMoved(was.items, c.todo, type, ref)
        BY <3>1, <3>2 DEF StockMoved, StockAsWas, Asked
      <4> QED BY <3>1, <4>1
    <3>3. CASE FlagNow(c, was) = FlagNow(client[p], was)
      BY <2>1, <3>1, <3>3
    <3> QED BY <3>2, <3>3
  <2>2. CASE FlagNow(client[p], was) # was.committed
    BY <1>4, <2>2
  <2> QED BY <2>1, <2>2
<1>7. /\ StockAsWas <=> StockAsWas'
      /\ \A lines, left, type, ref :
            (\A v \in Variants : IF lines[v] > 0 /\ v \notin left
                  THEN /\ Accepts(inventory[v].com, type, lines[v])
                       /\ inventory[v].live = Applied(inventory[v].com, type, lines[v], ref)
                  ELSE inventory[v].live = inventory[v].com)
            <=>
            (\A v \in Variants : IF lines[v] > 0 /\ v \notin left
                  THEN /\ Accepts(inventory'[v].com, type, lines[v])
                       /\ inventory'[v].live = Applied(inventory'[v].com, type, lines[v], ref)
                  ELSE inventory'[v].live = inventory'[v].com)
  BY <1>2 DEF StockAsWas
<1>8. c.pc # "idle" /\ c.pc # "read"
  BY DEF OrderStages
<1>9. ReturnsAsWere' /\ client'[p].req = client[p].req /\ orders'[o].com = was
  BY <1>2, <1>3, <1>4 DEF ReturnsAsWere
<1>10. Gives(c.req) /\ c.pc # "returns" =>
            \A r \in Returns : returns[r].com.order = o
                                  => returns[r].com.status \notin OpenReturn
  <2>1. client[p].pc = "returns" => ~Gives(client[p].req)
    BY <1>9
  <2> QED BY <1>4, <1>9, <2>1
<1>11. Changing(p)'
  <2>1. client'[p].req.order = o
    BY <1>9
  <2>2. Legal(c.req, was) /\ c.seen = was /\ row = RowNow(c, was)
    BY <1>4, <1>9
  <2> HIDE DEF o, was
  <2>3. /\ c.pc \in {"take", "sell"} => ~was.committed
        /\ c.pc \in {"give", "restore"} => was.committed
        /\ c.pc \notin {"sell", "restore"} => c.todo = {}
        /\ c.pc \in OrderStages(c.req)
    BY DEF o, was
  <2> QED BY <1>2, <1>5, <1>6, <1>7, <1>8, <1>9, <1>10, <2>1, <2>2, <2>3
          DEF Changing, OrderNow, StockMoved, was
<1>12. \A x \in Orders : orders'[x].by \in {orders[x].by, p}
  BY <1>3
<1> QED BY <1>2, <1>8, <1>9, <1>11, <1>12, ChangeStep

\* A ticket is claimed.
LEMMA ClaimInTurn ==
    ASSUME IInv, Alone, NEW p \in Clients, ClaimTicket(p)
    PROVE  Alone'
<1> DEFINE was == orders[client[p].req.order].com
           row == [Order(p) EXCEPT !.status = "COMPLETED", !.pay = "PAID"]
<1>1. Under(p) /\ client[p].pc = "complete" /\ WriteOrder(p, row) /\ Goto(p, "commitStock")
  BY DEF ClaimTicket, Under, At
<1>2. Op(p) = "COMPLETE"
  <2>1. /\ Op(p) \in Sales \cup {"COMPLETE", "STATUS", "CANCEL", "RETURN", "ACCEPT", "REJECT"}
    <3>1. client[p].req \in Requests \cup {Blank} /\ Progress(p)
      BY <1>1, SeeLemma DEF Client, Alone
    <3>2. client[p].req # Blank
      BY <3>1 DEF Progress, Op, Blank
    <3> QED BY <3>1, <3>2, RequestsAssumption DEF Requests, Op
  <2>2. Progress(p)
    BY <1>1 DEF Alone
  <2> QED BY <1>1, <2>1, <2>2 DEF Progress, Entering, Changing, TakingBack, Deciding, OrderStages,
                                  Op, Takes, Gives
<1>3. /\ Changing(p) /\ client[p] \in Client /\ was \in OrderRows /\ Order(p) = RowNow(client[p], was)
  BY <1>1, <1>2, ChangingLemma
<1>4. /\ client'[p].req = client[p].req /\ client'[p].pc = "commitStock"
      /\ client'[p].todo = client[p].todo /\ client'[p].seen = client[p].seen
      /\ \A q \in Clients : q # p => client'[q] = client[q]
  BY <1>1 DEF Goto, IInv, TypeOK
<1>5. client[p].todo = {} /\ "commitStock" \in OrderStages(client[p].req) /\ ~Gives(client[p].req)
  BY <1>1, <1>2, <1>3 DEF Changing, OrderStages, Gives, Op
<1>6. FlagNow(client'[p], was) = FlagNow(client[p], was)
  BY <1>1, <1>4 DEF FlagNow
<1>7. row = RowNow(client'[p], was)
  <2>1. StatusNow(client'[p], was) = "COMPLETED" /\ PayNow(client'[p], was) = "PAID"
    BY <1>2, <1>4 DEF StatusNow, PayNow, Op
  <2> DEFINE s == StatusNow(client[p], was)
             y == PayNow(client[p], was)
             f == FlagNow(client[p], was)
             x == was.source
             i == was.items
  <2>2. Order(p) = [status |-> s, pay |-> y, committed |-> f, source |-> x, items |-> i]
    BY <1>3 DEF RowNow
  <2>3. RowNow(client'[p], was)
           = [status |-> "COMPLETED", pay |-> "PAID", committed |-> f, source |-> x, items |-> i]
    BY <1>6, <2>1 DEF RowNow
  <2> HIDE DEF s, y, f, x, i
  <2>4. row = [status |-> "COMPLETED", pay |-> "PAID", committed |-> f, source |-> x, items |-> i]
    <3> DEFINE one == [Order(p) EXCEPT !.status = "COMPLETED"]
    <3>1. one = [status |-> "COMPLETED", pay |-> y, committed |-> f, source |-> x, items |-> i]
      BY <2>2
    <3>2. row = [one EXCEPT !.pay = "PAID"]
      BY <2>2
    <3> HIDE DEF one, row
    <3>3. [one EXCEPT !.pay = "PAID"]
             = [status |-> "COMPLETED", pay |-> "PAID", committed |-> f, source |-> x, items |-> i]
      BY <3>1
    <3> QED BY <3>2, <3>3
  <2> QED BY <2>3, <2>4
<1>8. row \in OrderRows
  <2>1. was.committed \in BOOLEAN /\ was.source \in {"POS", "ONLINE"} /\ was.items \in [Variants -> Nat]
    BY <1>3 DEF OrderRows
  <2>2. FlagNow(client[p], was) = was.committed
    BY <1>1 DEF FlagNow
  <2>3. StatusNow(client'[p], was) = "COMPLETED" /\ PayNow(client'[p], was) = "PAID"
    BY <1>2, <1>4 DEF StatusNow, PayNow, Op
  <2> QED BY <1>6, <1>7, <2>1, <2>2, <2>3 DEF RowNow, OrderRows, OrderStatuses, PaymentStatuses
<1> HIDE DEF row, was
<1> QED BY <1>1, <1>2, <1>4, <1>5, <1>6, <1>7, <1>8, ChangeWrite DEF was

\* The label of the client under way tells what it is doing.
LEMMA LabelLemma ==
    ASSUME IInv, Alone, NEW p \in Clients, Under(p)
    PROVE  /\ Op(p) \in Sales \cup {"COMPLETE", "STATUS", "CANCEL", "RETURN", "ACCEPT", "REJECT"}
           /\ client[p].pc \in {"complete", "returns", "commitStock", "releaseStock", "take",
                                "give", "restore", "write"}
                 => Op(p) \in {"COMPLETE", "STATUS", "CANCEL"}
           /\ client[p].pc = "sell" => Op(p) \in Sales \cup {"COMPLETE", "STATUS", "CANCEL"}
           /\ client[p].pc \in {"eligible", "enter"} => Op(p) = "RETURN"
           /\ client[p].pc = "decide" => Op(p) \in {"ACCEPT", "REJECT"}
           /\ client[p].pc = "credit" => Op(p) \in {"RETURN", "ACCEPT"}
<1>1. Op(p) \in Sales \cup {"COMPLETE", "STATUS", "CANCEL", "RETURN", "ACCEPT", "REJECT"}
  <2>1. client[p].req \in Requests \cup {Blank} /\ Progress(p)
    BY SeeLemma DEF Client, Alone
  <2>2. client[p].req # Blank
    BY <2>1 DEF Progress, Op, Blank
  <2> QED BY <2>1, <2>2, RequestsAssumption DEF Requests, Op
<1>2. Progress(p)
  BY DEF Alone
<1>3. Op(p) \in {"COMPLETE", "STATUS", "CANCEL"} =>
         client[p].pc \in {"read", "complete", "commitStock", "take", "sell", "commit", "write",
                           "returns", "releaseStock", "give", "restore"}
  BY <1>2 DEF Progress, Changing, OrderStages
<1>4. Op(p) \in Sales => client[p].pc \in {"insert", "sell", "commit"}
  BY <1>2 DEF Progress, Entering
<1>5. Op(p) = "RETURN" => client[p].pc \in {"read", "eligible", "enter", "credit", "commit"}
  BY <1>2 DEF Progress, TakingBack
<1>6. Op(p) \in {"ACCEPT", "REJECT"} =>
         /\ client[p].pc \in {"read", "decide", "credit", "commit"}
         /\ client[p].pc = "credit" => Op(p) = "ACCEPT"
  BY <1>2 DEF Progress, Deciding, Op
<1> QED BY <1>1, <1>3, <1>4, <1>5, <1>6 DEF Sales

\* The flag is claimed; what was read of it is still so.
LEMMA ClaimFlagInTurn ==
    ASSUME IInv, Alone, NEW p \in Clients, ClaimFlag(p)
    PROVE  Alone'
<1> DEFINE req == client[p].req
           was == orders[req.order].com
           row == [Order(p) EXCEPT !.committed = At(p, "take")]
<1>1. Under(p) /\ client[p].pc \in {"take", "give"}
  BY DEF ClaimFlag, Under, At
<1>2. Op(p) \in {"COMPLETE", "STATUS", "CANCEL"}
  BY <1>1, LabelLemma
<1>3. /\ Changing(p) /\ client[p] \in Client /\ was \in OrderRows /\ Order(p) = RowNow(client[p], was)
  BY <1>1, <1>2, ChangingLemma
<1>4. /\ client[p].pc \in OrderStages(req)
      /\ client[p].pc = "take" => ~was.committed
      /\ client[p].pc = "give" => was.committed
  BY <1>1, <1>3 DEF Changing
<1>5. /\ client[p].pc = "take" => Takes(req) /\ ~Gives(req)
      /\ client[p].pc = "give" => Gives(req) /\ ~Takes(req) /\ req.op # "COMPLETE"
  BY <1>1, <1>4 DEF OrderStages, Takes, Gives
<1>6. FlagNow(client[p], was) = was.committed /\ was.committed \in BOOLEAN
  BY <1>1, <1>3 DEF FlagNow, OrderRows
<1>7. Order(p).committed = was.committed /\ Order(p).items = was.items
  BY <1>3, <1>6 DEF RowNow
<1>8. /\ WriteOrder(p, row)
      /\ client' = [client EXCEPT ![p].pc = IF At(p, "take") THEN "sell" ELSE "restore",
                                  ![p].todo = Asked(Order(p).items)]
  BY <1>1, <1>4, <1>6, <1>7 DEF ClaimFlag, At
<1>9. /\ client'[p].req = req /\ client'[p].seen = client[p].seen
      /\ client'[p].pc = (IF client[p].pc = "take" THEN "sell" ELSE "restore")
      /\ client'[p].todo = Asked(was.items)
      /\ \A q \in Clients : q # p => client'[q] = client[q]
  BY <1>7, <1>8 DEF At, IInv, TypeOK
<1>10. client'[p].pc \in OrderStages(req)
  BY <1>1, <1>5, <1>9 DEF OrderStages, Takes, Gives
<1>11. FlagNow(client'[p], was) = (client[p].pc = "take")
  BY <1>1, <1>5, <1>9 DEF FlagNow
<1>12. /\ StatusNow(client'[p], was) = StatusNow(client[p], was)
       /\ PayNow(client'[p], was) = PayNow(client[p], was)
  BY <1>1, <1>9 DEF StatusNow, PayNow
<1>13. row = RowNow(client'[p], was)
  <2> DEFINE s == StatusNow(client[p], was)
             y == PayNow(client[p], was)
             f == FlagNow(client[p], was)
             x == was.source
             i == was.items
             t == (client[p].pc = "take")
  <2>1. Order(p) = [status |-> s, pay |-> y, committed |-> f, source |-> x, items |-> i]
    BY <1>3 DEF RowNow
  <2>2. RowNow(client'[p], was)
           = [status |-> s, pay |-> y, committed |-> t, source |-> x, items |-> i]
    BY <1>11, <1>12 DEF RowNow
  <2>3. row = [Order(p) EXCEPT !.committed = t]
    BY DEF At
  <2> HIDE DEF s, y, f, x, i, t, row
  <2>4. [Order(p) EXCEPT !.committed = t]
           = [status |-> s, pay |-> y, committed |-> t, source |-> x, items |-> i]
    BY <2>1
  <2> QED BY <2>2, <2>3, <2>4
<1>14. row \in OrderRows
  <2>1. Order(p) \in OrderRows
    BY <1>2, <1>3, SeeLemma, ChangingLemma, <1>1
  <2> QED BY <2>1 DEF OrderRows, At
<1>15. FlagNow(client[p], was) = was.committed /\ client'[p].todo = Asked(was.items)
  BY <1>6, <1>9
<1>16. /\ client'[p].pc \notin {"take", "give"}
       /\ client'[p].pc = "sell" => ~was.committed
       /\ client'[p].pc = "restore" => was.committed
       /\ client'[p].pc \in {"sell", "restore"}
  BY <1>1, <1>4, <1>9
<1> HIDE DEF row, was, req
<1> QED BY <1>1, <1>2, <1>8, <1>9, <1>10, <1>13, <1>14, <1>15, <1>16, ChangeWrite DEF was, req

\* What the last UPDATE writes when the order is as it was first read.
LEMMA DecidedNow ==
    ASSUME IInv, NEW p \in Clients, client[p].req.order \in Orders,
           Op(p) \in {"STATUS", "CANCEL"}, client[p].seen.pay = Order(p).pay
    PROVE  LET row == Decided(p)
           IN  /\ row.status = Target(client[p].req)
               /\ row.pay = PaidAfter(Order(p).pay, Target(client[p].req))
               /\ row.committed = Order(p).committed
               /\ row.source = Order(p).source /\ row.items = Order(p).items
<1> DEFINE req == client[p].req
           now == Order(p)
           row == Decided(p)
<1>1. now \in OrderRows
  BY SeeLemma
<1>2. req.op # "STATUS" => req.next = "NONE"
  BY SeeLemma, RequestLemma DEF Client
<1>3. req.op = "STATUS" => req.next \in Targets
  BY SeeLemma, RequestLemma DEF Client
<1>4. \A s, y : /\ [now EXCEPT !.status = s, !.pay = y].status = s
                /\ [now EXCEPT !.status = s, !.pay = y].pay = y
                /\ [now EXCEPT !.status = s, !.pay = y].items = now.items
                /\ [now EXCEPT !.status = s, !.pay = y].source = now.source
                /\ [now EXCEPT !.status = s, !.pay = y].committed = now.committed
                /\ [now EXCEPT !.status = s].status = s
                /\ [now EXCEPT !.status = s].pay = now.pay
                /\ [now EXCEPT !.status = s].items = now.items
                /\ [now EXCEPT !.status = s].source = now.source
                /\ [now EXCEPT !.status = s].committed = now.committed
  BY <1>1 DEF OrderRows
<1>5. CASE req.op = "CANCEL"
  <2>1. row = [now EXCEPT !.status = "CANCELLED",
                          !.pay = IF now.pay = "PAID" THEN "REFUNDED" ELSE now.pay]
    <3> DEFINE seen == client[p].seen
    <3>1. row = [now EXCEPT !.status = "CANCELLED",
                            !.pay = IF seen.pay = "PAID" THEN "REFUNDED" ELSE seen.pay]
      BY <1>2, <1>5 DEF Decided
    <3>2. seen.pay = now.pay
      OBVIOUS
    <3> HIDE DEF seen, now, row
    <3> QED BY <3>1, <3>2
  <2> HIDE DEF now, row
  <2> QED BY <1>4, <1>5, <2>1 DEF Target, PaidAfter, now, row
<1>6. CASE req.op = "STATUS" /\ req.next = "CANCELLED"
  <2>1. row = [now EXCEPT !.status = "CANCELLED",
                          !.pay = IF now.pay = "PAID" THEN "REFUNDED" ELSE now.pay]
    BY <1>1, <1>6 DEF Decided, OrderRows
  <2> HIDE DEF now, row
  <2> QED BY <1>4, <1>6, <2>1 DEF Target, PaidAfter, now, row
<1>7. CASE req.op = "STATUS" /\ req.next = "PAID"
  <2>1. row = [now EXCEPT !.status = "PAID", !.pay = "PAID"]
    BY <1>7 DEF Decided
  <2> HIDE DEF now, row
  <2> QED BY <1>4, <1>7, <2>1 DEF Target, PaidAfter, now, row
<1>8. CASE req.op = "STATUS" /\ req.next = "COMPLETED"
  <2>1. row = [now EXCEPT !.status = "COMPLETED",
                          !.pay = IF now.pay = "UNPAID" THEN "PAID" ELSE now.pay]
    BY <1>1, <1>8 DEF Decided, OrderRows
  <2> HIDE DEF now, row
  <2> QED BY <1>4, <1>8, <2>1 DEF Target, PaidAfter, now, row
<1>9. CASE req.op = "STATUS" /\ req.next = "REFUNDED"
  <2>1. row = [now EXCEPT !.status = "REFUNDED", !.pay = "REFUNDED"]
    BY <1>9 DEF Decided
  <2> HIDE DEF now, row
  <2> QED BY <1>4, <1>9, <2>1 DEF Target, PaidAfter, now, row
<1>10. CASE req.op = "STATUS" /\ req.next = "CONFIRMED"
  BY <1>4, <1>10 DEF Decided, Target, PaidAfter
<1> QED BY <1>3, <1>5, <1>6, <1>7, <1>8, <1>9, <1>10 DEF Targets, Op

\* The order's new status is written, on the row that was read.
LEMMA DecideInTurn ==
    ASSUME IInv, Alone, NEW p \in Clients, Decide(p)
    PROVE  Alone'
<1> DEFINE req == client[p].req
           was == orders[req.order].com
           row == Decided(p)
<1>1. Under(p) /\ client[p].pc = "write" /\ WriteOrder(p, row) /\ Goto(p, "commit")
  BY DEF Decide, Under, At
<1>2. Op(p) \in {"COMPLETE", "STATUS", "CANCEL"}
  BY <1>1, LabelLemma
<1>3. /\ Changing(p) /\ client[p] \in Client /\ was \in OrderRows
      /\ Order(p) = RowNow(client[p], was) /\ req.order \in Orders
      /\ req.op = "STATUS" => req.next \in Targets
  BY <1>1, <1>2, ChangingLemma
<1>4. client[p].seen = was /\ client[p].todo = {} /\ "write" \in OrderStages(req)
  BY <1>1, <1>3 DEF Changing
<1>5. Op(p) \in {"STATUS", "CANCEL"} /\ req.op # "COMPLETE"
  BY <1>2, <1>4 DEF OrderStages, Takes, Gives, Op
<1>6. /\ client'[p].req = req /\ client'[p].pc = "commit"
      /\ client'[p].todo = {} /\ client'[p].seen = client[p].seen
      /\ \A q \in Clients : q # p => client'[q] = client[q]
  BY <1>1, <1>4 DEF Goto, IInv, TypeOK
<1>7. StatusNow(client[p], was) = was.status /\ PayNow(client[p], was) = was.pay
  BY <1>1, <1>5 DEF StatusNow, PayNow
<1>8. FlagNow(client'[p], was) = FlagNow(client[p], was)
  BY <1>1, <1>6 DEF FlagNow
<1>9. row = RowNow(client'[p], was)
  <2>1. Order(p).pay = was.pay /\ Order(p).committed = FlagNow(client[p], was)
        /\ Order(p).source = was.source /\ Order(p).items = was.items
    BY <1>3, <1>7 DEF RowNow
  <2>2. /\ row.status = Target(req) /\ row.pay = PaidAfter(was.pay, Target(req))
        /\ row.committed = FlagNow(client[p], was)
        /\ row.source = was.source /\ row.items = was.items
    BY <1>3, <1>4, <1>5, <2>1, DecidedNow
  <2>3. /\ StatusNow(client'[p], was) = Target(req)
        /\ PayNow(client'[p], was) = PaidAfter(was.pay, Target(req))
    BY <1>5, <1>6 DEF StatusNow, PayNow
  <2>4. row \in OrderRows
    BY <1>3, DecidedLemma
  <2> HIDE DEF row
  <2>5. RowNow(client'[p], was)
          = [status |-> row.status, pay |-> row.pay, committed |-> row.committed,
             source |-> row.source, items |-> row.items]
    BY <1>8, <2>2, <2>3 DEF RowNow
  <2> QED BY <2>4, <2>5, SameRow
<1>10. row \in OrderRows
  BY <1>3, DecidedLemma
<1>11. "commit" \in OrderStages(req)
  BY <1>2 DEF OrderStages, Takes, Gives, Op
<1>12. client'[p].req = client[p].req /\ client'[p].pc \in OrderStages(client'[p].req)
  BY <1>6, <1>11
<1>13. client'[p].todo = client[p].todo
  BY <1>4, <1>6
<1> HIDE DEF row, was, req
<1> QED BY <1>1, <1>2, <1>6, <1>8, <1>9, <1>10, <1>12, <1>13, ChangeWrite DEF was, req

\* One line is moved: the row of its variant is as committed before.
LEMMA MovedNow ==
    ASSUME IInv, Alone, NEW p \in Clients, NEW v \in Variants, MoveLine(p, v)
    PROVE  LET m    == Movement(p, v)
               left == client[p].todo \ {v}
           IN  /\ Under(p) /\ client[p].pc \in {"sell", "restore", "credit"}
               /\ v \in client[p].todo /\ (client[p].pc = "credit" => v = client[p].line)
               /\ inventory[v].live = inventory[v].com
               /\ Accepts(inventory[v].com, m.type, m.qty)
               /\ \A x \in Variants : x # v => inventory'[x] = inventory[x]
               /\ inventory'[v].com = inventory[v].com /\ inventory'[v].by = p
               /\ inventory'[v].live = Applied(inventory[v].com, m.type, m.qty, m.ref)
               /\ client'[p] = [client[p] EXCEPT !.todo = left, !.pc = AfterMove(p, left)]
               /\ client'[p].todo = left /\ client'[p].pc = AfterMove(p, left)
               /\ client'[p].req = client[p].req /\ client'[p].seen = client[p].seen
               /\ client'[p].line = client[p].line /\ client'[p].ret = client[p].ret
               /\ \A q \in Clients : q # p => client'[q] = client[q]
               /\ UNCHANGED <<orders, returns>>
<1> DEFINE m   == Movement(p, v)
           left == client[p].todo \ {v}
           row == Applied(inventory[v].com, m.type, m.qty, m.ref)
           c   == [client[p] EXCEPT !.todo = left, !.pc = AfterMove(p, left)]
<1>1. Under(p) /\ client[p].pc \in {"sell", "restore", "credit"}
  BY DEF MoveLine, Under, At
<1>2. v \in client[p].todo /\ (client[p].pc = "credit" => v = client[p].line)
  BY DEF MoveLine, At
<1>3. inventory[v].by # p
  BY <1>2, TodoLemma
<1>4. See(inventory[v], p) = inventory[v].com /\ inventory[v].live = inventory[v].com
  BY <1>1, <1>3, TurnLemma DEF See
<1>5. Accepts(inventory[v].com, m.type, m.qty)
  BY <1>4 DEF MoveLine
<1>6. inventory' = [inventory EXCEPT ![v] = Written(@, p, row)]
  BY <1>4 DEF MoveLine
<1>7. row \in Rows
  <2>1. At(p, "sell") \/ At(p, "restore") \/ At(p, "credit")
    BY DEF MoveLine
  <2>2. inventory[v].com \in Rows
    BY <1>4, SeeLemma
  <2> QED BY <1>5, <2>1, <2>2, AboutToMove, MovementLemma
<1>8. inventory \in [Variants -> Cells(Rows)]
  BY DEF IInv, TypeOK, Rows
<1>9. client' = [client EXCEPT ![p] = c]
  BY DEF MoveLine, IInv, TypeOK, Client
<1>10. /\ client'[p] = c /\ \A q \in Clients : q # p => client'[q] = client[q]
  BY <1>9 DEF IInv, TypeOK
<1>11. /\ c.todo = left /\ c.pc = AfterMove(p, left) /\ c.req = client[p].req
       /\ c.seen = client[p].seen /\ c.line = client[p].line /\ c.ret = client[p].ret
  BY SeeLemma DEF Client
<1>12. UNCHANGED <<orders, returns>>
  BY DEF MoveLine
<1> HIDE DEF row, c
<1>13. /\ \A x \in Variants : x # v => inventory'[x] = inventory[x]
       /\ inventory'[v].by = p /\ inventory'[v].live = row
       /\ inventory'[v].com = inventory[v].com
  BY ONLY <1>6, <1>7, <1>8, p \in Clients, v \in Variants, StockWritten
<1> QED BY <1>1, <1>2, <1>4, <1>5, <1>10, <1>11, <1>12, <1>13 DEF row, c

\* One more of the lines has moved.
LEMMA OneMoreMoved ==
    ASSUME NEW v \in Variants, NEW lines, NEW left, NEW type, NEW ref,
           StockMoved(lines, left, type, ref), v \in left,
           Accepts(inventory[v].com, type, lines[v]), inventory'[v].com = inventory[v].com,
           inventory'[v].live = Applied(inventory[v].com, type, lines[v], ref),
           \A x \in Variants : x # v => inventory'[x] = inventory[x]
    PROVE  \A x \in Variants :
              IF lines[x] > 0 /\ x \notin left \ {v}
              THEN /\ Accepts(inventory'[x].com, type, lines[x])
                   /\ inventory'[x].live = Applied(inventory'[x].com, type, lines[x], ref)
              ELSE inventory'[x].live = inventory'[x].com
<1>1. lines[v] > 0
  BY DEF Accepts
<1> TAKE x \in Variants
<1>2. CASE x = v
  BY <1>1, <1>2
<1>3. CASE x # v
  <2>1. x \notin left \ {v} <=> x \notin left
    BY <1>3
  <2> QED BY <1>3, <2>1 DEF StockMoved
<1> QED BY <1>2, <1>3

\* A line of an order that is being entered is sold.
LEMMA SellInTurn ==
    ASSUME IInv, Alone, NEW p \in Clients, NEW v \in Variants, MoveLine(p, v), Op(p) \in Sales
    PROVE  Alone'
<1> DEFINE req  == client[p].req
           o    == req.order
           left == client[p].todo \ {v}
<1>1. /\ Under(p) /\ client[p].pc \in {"sell", "restore", "credit"} /\ v \in client[p].todo
      /\ inventory[v].live = inventory[v].com
      /\ Accepts(inventory[v].com, Movement(p, v).type, Movement(p, v).qty)
      /\ \A x \in Variants : x # v => inventory'[x] = inventory[x]
      /\ inventory'[v].com = inventory[v].com /\ inventory'[v].by = p
      /\ inventory'[v].live = Applied(inventory[v].com, Movement(p, v).type, Movement(p, v).qty,
                                      Movement(p, v).ref)
      /\ client'[p].todo = left /\ client'[p].pc = AfterMove(p, left)
      /\ client'[p].req = req
      /\ \A q \in Clients : q # p => client'[q] = client[q]
      /\ UNCHANGED <<orders, returns>>
  BY MovedNow
<1>2. Entering(p)
  BY <1>1 DEF Alone, Progress
<1>3. client[p].pc = "sell" /\ req.op # "OPEN" /\ ReturnsAsWere /\ orders[o].com = NoOrder
      /\ OrderNow(o, Entered(req)) /\ StockMoved(req.lines, client[p].todo, "SALE", OrderRef(o))
  BY <1>1, <1>2 DEF Entering
<1>4. o \in Orders
  BY SeeLemma, RequestLemma DEF Client, Op
<1>5. Order(p) = Entered(req)
  BY <1>1, <1>3, <1>4, TurnLemma DEF Order, OrderNow
<1>6. Movement(p, v) = [type |-> "SALE", qty |-> req.lines[v], ref |-> OrderRef(o)]
  <2>1. Order(p).items = req.lines
    BY <1>5 DEF Entered
  <2> QED BY <1>3, <2>1 DEF Movement, At
<1>7. client'[p].pc = IF left = {} THEN "commit" ELSE "sell"
  BY <1>1, <1>3 DEF AfterMove, At
<1>8. \A x \in Variants :
              IF req.lines[x] > 0 /\ x \notin left
              THEN /\ Accepts(inventory'[x].com, "SALE", req.lines[x])
                   /\ inventory'[x].live = Applied(inventory'[x].com, "SALE", req.lines[x], OrderRef(o))
              ELSE inventory'[x].live = inventory'[x].com
  BY <1>1, <1>3, <1>6, OneMoreMoved
<1>9. ReturnsAsWere' /\ OnFile' = OnFile
  BY <1>1, <1>3 DEF ReturnsAsWere, OnFile
<1>10. Entering(p)'
  <2>1. /\ \A x \in Orders : orders'[x].live = IF x = o THEN Entered(req) ELSE orders'[x].com
        /\ orders'[o].com = NoOrder
    BY <1>1, <1>3 DEF OrderNow
  <2> QED BY <1>1, <1>3, <1>7, <1>8, <1>9, <2>1 DEF Entering, OrderNow, StockMoved
<1>11. Progress(p)' /\ Under(p)'
  BY <1>1, <1>7, <1>10 DEF Progress, Op, Sales, Under, At
<1>12. IsFiniteSet(OnFile')
  BY <1>9 DEF Alone
<1>13. /\ \A x \in Variants : inventory'[x].by \in {inventory[x].by, p}
       /\ \A x \in Orders : orders'[x].by \in {orders[x].by, p}
       /\ \A r \in Returns : returns'[r].by \in {returns[r].by, p}
  BY <1>1
<1> HIDE DEF req, o, left
<1> QED BY <1>1, <1>11, <1>12, <1>13, TurnStep

\* A line of an order whose status is changed is sold or put back.
LEMMA ShiftInTurn ==
    ASSUME IInv, Alone, NEW p \in Clients, NEW v \in Variants, MoveLine(p, v),
           Op(p) \in {"COMPLETE", "STATUS", "CANCEL"}
    PROVE  Alone'
<1> DEFINE req  == client[p].req
           o    == req.order
           was  == orders[o].com
           left == client[p].todo \ {v}
           sold == client[p].pc = "sell"
           type == IF sold THEN "SALE" ELSE "ADJUSTMENT_IN"
           ref  == IF sold THEN OrderRef(o) ELSE CancelRef(o)
<1>1. /\ Under(p) /\ client[p].pc \in {"sell", "restore", "credit"} /\ v \in client[p].todo
      /\ inventory[v].live = inventory[v].com
      /\ Accepts(inventory[v].com, Movement(p, v).type, Movement(p, v).qty)
      /\ \A x \in Variants : x # v => inventory'[x] = inventory[x]
      /\ inventory'[v].com = inventory[v].com /\ inventory'[v].by = p
      /\ inventory'[v].live = Applied(inventory[v].com, Movement(p, v).type, Movement(p, v).qty,
                                      Movement(p, v).ref)
      /\ client'[p].todo = left /\ client'[p].pc = AfterMove(p, left)
      /\ client'[p].req = req /\ client'[p].seen = client[p].seen
      /\ \A q \in Clients : q # p => client'[q] = client[q]
      /\ UNCHANGED <<orders, returns>>
  BY MovedNow
<1>2. /\ Changing(p) /\ o \in Orders /\ was \in OrderRows /\ Order(p) = RowNow(client[p], was)
  BY <1>1, ChangingLemma
<1>3. /\ client[p].pc \in OrderStages(req) /\ Legal(req, was) /\ client[p].seen = was
      /\ sold => ~was.committed
      /\ client[p].pc = "restore" => was.committed
      /\ Gives(req) =>
            \A r \in Returns : returns[r].com.order = o => returns[r].com.status \notin OpenReturn
      /\ OrderNow(o, RowNow(client[p], was)) /\ ReturnsAsWere
      /\ IF FlagNow(client[p], was) = was.committed THEN StockAsWas
         ELSE IF was.committed
         THEN StockMoved(was.items, client[p].todo, "ADJUSTMENT_IN", CancelRef(o))
         ELSE StockMoved(was.items, client[p].todo, "SALE", OrderRef(o))
  BY <1>1, <1>2 DEF Changing
<1>4. /\ client[p].pc \in {"sell", "restore"}
      /\ sold => Takes(req) /\ ~Gives(req)
      /\ ~sold => Gives(req) /\ ~Takes(req) /\ req.op # "COMPLETE"
  BY <1>1, <1>3 DEF OrderStages, Takes, Gives
<1>5. /\ FlagNow(client[p], was) = sold /\ was.committed = ~sold
  <2>1. FlagNow(client[p], was) = sold
    BY <1>4 DEF FlagNow
  <2>2. was.committed \in BOOLEAN
    BY <1>2 DEF OrderRows
  <2> QED BY <1>3, <1>4, <2>1, <2>2
<1>6. StockMoved(was.items, client[p].todo, type, ref)
  BY <1>3, <1>5
<1>7. Movement(p, v) = [type |-> type, qty |-> was.items[v], ref |-> ref]
  <2>1. Order(p).items = was.items
    BY <1>2 DEF RowNow
  <2> QED BY <1>4, <2>1 DEF Movement, At
<1>8. client'[p].pc = IF left # {} THEN client[p].pc
                      ELSE IF req.op = "COMPLETE" THEN "commit" ELSE "write"
  BY <1>1, <1>4 DEF AfterMove, AfterStock, At, Op, Sales
<1>9. FlagNow(client'[p], was) = sold
  <2>1. CASE sold
    BY <1>1, <1>4, <1>8, <2>1 DEF FlagNow
  <2>2. CASE ~sold
    BY <1>1, <1>4, <1>8, <2>2 DEF FlagNow
  <2> QED BY <2>1, <2>2
<1>10. RowNow(client'[p], was) = RowNow(client[p], was)
  <2>1. /\ StatusNow(client'[p], was) = StatusNow(client[p], was)
        /\ PayNow(client'[p], was) = PayNow(client[p], was)
    BY <1>1, <1>4, <1>8 DEF StatusNow, PayNow
  <2> QED BY <1>5, <1>9, <2>1 DEF RowNow
<1>11. client'[p].pc \in OrderStages(req)
  BY <1>4, <1>8 DEF OrderStages, Takes, Gives
<1>12. \A x \in Variants :
              IF was.items[x] > 0 /\ x \notin left
              THEN /\ Accepts(inventory'[x].com, type, was.items[x])
                   /\ inventory'[x].live = Applied(inventory'[x].com, type, was.items[x], ref)
              ELSE inventory'[x].live = inventory'[x].com
  <2>1. /\ Accepts(inventory[v].com, type, was.items[v])
        /\ inventory'[v].live = Applied(inventory[v].com, type, was.items[v], ref)
    BY <1>1, <1>7
  <2> HIDE DEF type, ref, was, left
  <2> QED BY <1>1, <1>6, <2>1, OneMoreMoved DEF left
<1>13. ReturnsAsWere' /\ orders'[o].com = was
  BY <1>1, <1>3 DEF ReturnsAsWere
<1>14. \A x \in Orders : orders'[x].live = IF x = o THEN RowNow(client[p], was) ELSE orders'[x].com
  BY <1>1, <1>3 DEF OrderNow
<1>15. /\ client'[p].pc \notin {"idle", "read", "take", "give", "returns"}
       /\ client'[p].pc = "sell" => sold
       /\ client'[p].pc = "restore" => ~sold
       /\ client'[p].pc \notin {"sell", "restore"} => client'[p].todo = {}
  BY <1>1, <1>4, <1>8
<1>16. Changing(p)'
  <2>1. IF was.committed
        THEN \A x \in Variants :
              IF was.items[x] > 0 /\ x \notin client'[p].todo
              THEN /\ Accepts(inventory'[x].com, "ADJUSTMENT_IN", was.items[x])
                   /\ inventory'[x].live
                         = Applied(inventory'[x].com, "ADJUSTMENT_IN", was.items[x], CancelRef(o))
              ELSE inventory'[x].live = inventory'[x].com
        ELSE \A x \in Variants :
              IF was.items[x] > 0 /\ x \notin client'[p].todo
              THEN /\ Accepts(inventory'[x].com, "SALE", was.items[x])
                   /\ inventory'[x].live
                         = Applied(inventory'[x].com, "SALE", was.items[x], OrderRef(o))
              ELSE inventory'[x].live = inventory'[x].com
    BY <1>1, <1>5, <1>12
  <2>2. FlagNow(client'[p], was) # was.committed
    BY <1>5, <1>9
  <2>3. /\ client'[p].pc \in {"take", "sell"} => ~was.committed
        /\ client'[p].pc \in {"give", "restore"} => was.committed
    BY <1>5, <1>15
  <2>4. client'[p].req = req /\ client'[p].seen = was /\ Legal(req, was)
    BY <1>1, <1>3
  <2>5. Gives(req) => \A r \in Returns : returns'[r].com.order = o
                                            => returns'[r].com.status \notin OpenReturn
    BY <1>1, <1>3
  <2> HIDE DEF sold, type, ref, was, left
  <2> QED BY <1>10, <1>11, <1>13, <1>14, <1>15, <2>1, <2>2, <2>3, <2>4, <2>5
          DEF Changing, OrderNow, StockMoved
<1>17. /\ client'[p].req = client[p].req /\ client'[p].pc # "idle"
       /\ \A x \in Variants : inventory'[x].by \in {inventory[x].by, p}
       /\ \A x \in Orders : orders'[x].by \in {orders[x].by, p}
  BY <1>1, <1>15
<1> HIDE DEF req, o, left, was, sold, type, ref
<1> QED BY <1>1, <1>16, <1>17, ChangeStep

\* A return comes on file at most.
LEMMA OneMoreOnFile ==
    ASSUME Alone, NEW r \in Returns,
           \A x \in Returns : x # r => returns'[x] = returns[x]
    PROVE  IsFiniteSet(OnFile')
<1>1. OnFile' \subseteq OnFile \cup {r}
  BY DEF OnFile
<1>2. IsFiniteSet(OnFile \cup {r})
  BY FS_AddElement DEF Alone
<1> QED BY <1>1, <1>2, FS_Subset

\* What the client that decides about a return knows of it.
LEMMA DecidingLemma ==
    ASSUME IInv, Alone, NEW p \in Clients, Under(p), Op(p) \in {"ACCEPT", "REJECT"}
    PROVE  LET r   == client[p].req.ret
               was == returns[r].com
           IN  /\ Deciding(p) /\ r \in Returns /\ was \in ReturnRows
               /\ Return(r, p) = returns[r].live
               /\ client[p].pc \in {"read", "decide"} => Return(r, p) = was
<1>1. Deciding(p)
  BY DEF Alone, Progress
<1>2. client[p].req.ret \in Returns
  BY SeeLemma, RequestLemma DEF Client, Op
<1>3. returns[client[p].req.ret].com \in ReturnRows
  BY <1>2 DEF IInv, TypeOK, Cells
<1>4. Return(client[p].req.ret, p) = returns[client[p].req.ret].live
  BY <1>2, TurnLemma DEF Return
<1> QED BY <1>1, <1>2, <1>3, <1>4 DEF Deciding, ReturnsAsWere

\* A statement of such a client.
LEMMA DecideStep ==
    ASSUME IInv, Alone, NEW p \in Clients, Under(p), Op(p) \in {"ACCEPT", "REJECT"},
           client'[p].req = client[p].req, client'[p].pc # "idle",
           \A q \in Clients : q # p => client'[q] = client[q], UNCHANGED orders,
           \A r \in Returns : r # client[p].req.ret => returns'[r] = returns[r],
           \A r \in Returns : returns'[r].by \in {returns[r].by, p},
           \A v \in Variants : inventory'[v].by \in {inventory[v].by, p},
           Deciding(p)'
    PROVE  Alone'
<1>1. Progress(p)' /\ Under(p)'
  BY DEF Progress, Op, Sales, Under, At
<1>2. IsFiniteSet(OnFile')
  BY DecidingLemma, OneMoreOnFile
<1> QED BY <1>1, <1>2, TurnStep

\* The return is read.
LEMMA ReadReturnInTurn ==
    ASSUME IInv, Alone, NEW p \in Clients, ReadReturn(p)
    PROVE  Alone'
<1>1. Under(p) /\ client[p].pc = "read" /\ Op(p) \in {"ACCEPT", "REJECT"}
  BY DEF ReadReturn, Under, At
<1>2. /\ Deciding(p) /\ Return(client[p].req.ret, p) = returns[client[p].req.ret].com
  BY <1>1, DecidingLemma
<1>3. OrdersAsWere /\ ReturnsAsWere /\ StockAsWas
  BY <1>1, <1>2 DEF Deciding
<1>4. /\ client'[p].req = client[p].req /\ client'[p].pc = "decide"
      /\ \A q \in Clients : q # p => client'[q] = client[q]
      /\ UNCHANGED <<inventory, orders, returns>>
  BY DEF ReadReturn, Goto, Reads, IInv, TypeOK
<1>5. OrdersAsWere' /\ ReturnsAsWere'
      /\ \A v \in Variants : inventory'[v].live = inventory'[v].com
  BY <1>3, <1>4 DEF OrdersAsWere, ReturnsAsWere, StockAsWas
<1>6. returns'[client[p].req.ret].com.status = "REQUESTED"
  BY <1>2, <1>4 DEF ReadReturn
<1>7. Deciding(p)'
  BY <1>4, <1>5, <1>6 DEF Deciding
<1> QED BY <1>1, <1>4, <1>7, DecideStep

\* The return is accepted or rejected: it is still as it was read.
LEMMA SettleInTurn ==
    ASSUME IInv, Alone, NEW p \in Clients, AcceptReturn(p) \/ RejectReturn(p)
    PROVE  Alone'
<1> DEFINE r   == client[p].req.ret
           was == returns[r].com
           status == IF Op(p) = "ACCEPT" THEN "ACCEPTED" ELSE "REJECTED"
           new == [was EXCEPT !.status = status]
<1>1. Under(p) /\ client[p].pc = "decide" /\ Op(p) \in {"ACCEPT", "REJECT"}
  BY DEF AcceptReturn, RejectReturn, Under, At
<1>2. /\ Deciding(p) /\ r \in Returns /\ was \in ReturnRows /\ Return(r, p) = was
  BY <1>1, DecidingLemma
<1>3. /\ OrdersAsWere /\ ReturnsAsWere /\ was.status = "REQUESTED"
      /\ \A v \in Variants : inventory[v].live = inventory[v].com
  BY <1>1, <1>2 DEF Deciding
<1>4. WriteReturn(p, status)
  BY <1>1, <1>2, <1>3 DEF AcceptReturn, RejectReturn
<1>5. /\ client'[p].req = client[p].req
      /\ Op(p) = "ACCEPT" => /\ client'[p].pc = "credit" /\ client'[p].ret = r
                             /\ client'[p].line = was.variant /\ client'[p].todo = {was.variant}
      /\ Op(p) = "REJECT" => client'[p].pc = "commit"
      /\ \A q \in Clients : q # p => client'[q] = client[q]
  BY <1>1, <1>2 DEF AcceptReturn, RejectReturn, Goto, IInv, TypeOK
<1>6. /\ returns' = [returns EXCEPT ![r] = Written(@, p, new)]
      /\ UNCHANGED <<inventory, orders>>
  BY <1>2, <1>4 DEF WriteReturn, Return
<1>7. new \in ReturnRows
  BY <1>2 DEF ReturnRows, ReturnStatuses
<1>8. returns \in [Returns -> Cells(ReturnRows)]
  BY DEF IInv, TypeOK
<1> HIDE DEF new
<1>9. /\ \A x \in Returns : x # r => returns'[x] = returns[x]
      /\ returns'[r].by = p /\ returns'[r].live = new /\ returns'[r].com = returns[r].com
  <2> HIDE DEF r
  <2> QED BY ONLY <1>2, <1>6, <1>7, <1>8, p \in Clients, ReturnWritten
<1>10. \A x \in Returns : returns'[x].live = IF x = r THEN new ELSE returns'[x].com
  BY <1>3, <1>9 DEF ReturnsAsWere
<1>11. OrdersAsWere' /\ \A v \in Variants : inventory'[v].live = inventory'[v].com
  BY <1>3, <1>6 DEF OrdersAsWere
<1>12. returns'[r].com = was /\ was.status = "REQUESTED"
  BY <1>3, <1>9
<1>13. new = [was EXCEPT !.status = IF client[p].req.op = "ACCEPT" THEN "ACCEPTED" ELSE "REJECTED"]
  BY DEF new, Op
<1>14. /\ client'[p].req.ret = r /\ client'[p].pc \in {"credit", "commit"}
       /\ client'[p].pc = "commit" => client[p].req.op # "ACCEPT"
  BY <1>1, <1>5 DEF r, Op
<1>15. Deciding(p)'
  <2> HIDE DEF was
  <2>1. /\ client'[p].pc = "credit" =>
             /\ client'[p].req.op = "ACCEPT" /\ client'[p].ret = r
             /\ client'[p].line = was.variant /\ client'[p].todo = {was.variant}
        /\ client'[p].req.op = client[p].req.op
    BY <1>1, <1>5 DEF Op
  <2>2. \A x \in Returns : returns'[x].live =
           IF x = client'[p].req.ret
           THEN [returns'[client'[p].req.ret].com EXCEPT
                    !.status = IF client'[p].req.op = "ACCEPT" THEN "ACCEPTED" ELSE "REJECTED"]
           ELSE returns'[x].com
    BY <1>10, <1>12, <1>13, <1>14, <2>1 DEF r
  <2>3. returns'[client'[p].req.ret].com.status = "REQUESTED"
    BY <1>12, <1>14 DEF r
  <2>4. client'[p].line = returns'[client'[p].req.ret].com.variant \/ client'[p].pc # "credit"
    BY <1>12, <1>14, <2>1 DEF r
  <2> QED BY <1>11, <1>14, <2>1, <2>2, <2>3, <2>4, <1>12 DEF Deciding
<1>16. /\ client'[p].pc # "idle" /\ UNCHANGED orders
       /\ \A x \in Returns : returns'[x].by \in {returns[x].by, p}
       /\ \A v \in Variants : inventory'[v].by \in {inventory[v].by, p}
  <2>1. \A x \in Returns : x = r \/ returns'[x] = returns[x]
    BY <1>9
  <2>2. \A x \in Returns : returns'[x].by \in {returns[x].by, p}
    BY <1>9, <2>1
  <2>3. client'[p].pc # "idle"
    BY <1>14
  <2>4. UNCHANGED orders
    BY <1>6
  <2>5. \A v \in Variants : inventory'[v].by \in {inventory[v].by, p}
    BY <1>6
  <2> QED BY <2>2, <2>3, <2>4, <2>5
<1> QED BY <1>1, <1>5, <1>9, <1>15, <1>16, DecideStep DEF r

\* The units of an accepted return come back.
LEMMA CreditInTurn ==
    ASSUME IInv, Alone, NEW p \in Clients, NEW v \in Variants, MoveLine(p, v),
           Op(p) \in {"ACCEPT", "REJECT"}
    PROVE  Alone'
<1> DEFINE r    == client[p].req.ret
           was  == returns[r].com
           left == client[p].todo \ {v}
<1>1. /\ Under(p) /\ client[p].pc \in {"sell", "restore", "credit"} /\ v \in client[p].todo
      /\ inventory[v].live = inventory[v].com
      /\ \A x \in Variants : x # v => inventory'[x] = inventory[x]
      /\ inventory'[v].com = inventory[v].com /\ inventory'[v].by = p
      /\ inventory'[v].live = Applied(inventory[v].com, Movement(p, v).type, Movement(p, v).qty,
                                      Movement(p, v).ref)
      /\ client'[p].todo = left /\ client'[p].pc = AfterMove(p, left)
      /\ client'[p].req = client[p].req
      /\ \A q \in Clients : q # p => client'[q] = client[q]
      /\ UNCHANGED <<orders, returns>>
  BY MovedNow
<1>2. /\ Deciding(p) /\ r \in Returns /\ was \in ReturnRows /\ Return(r, p) = returns[r].live
  BY <1>1, DecidingLemma
<1>3. /\ client[p].pc = "credit" /\ OrdersAsWere /\ was.status = "REQUESTED"
      /\ client[p].req.op = "ACCEPT" /\ client[p].ret = r /\ client[p].todo = {was.variant}
      /\ \A x \in Returns : returns[x].live =
            IF x = r THEN [was EXCEPT !.status = "ACCEPTED"] ELSE returns[x].com
      /\ \A x \in Variants : inventory[x].live = inventory[x].com
  BY <1>1, <1>2 DEF Deciding
<1>4. v = was.variant /\ left = {}
  BY <1>1, <1>3
<1>5. client'[p].pc = "commit"
  BY <1>1, <1>3 DEF AfterMove, At, Op, Sales
<1>6. Movement(p, v) = [type |-> "RETURN", qty |-> was.qty, ref |-> ReturnRef(r)]
  <2>1. Return(r, p).qty = was.qty
    <3>1. [was EXCEPT !.status = "ACCEPTED"].qty = was.qty
      BY <1>2 DEF ReturnRows
    <3> QED BY <1>2, <1>3, <3>1
  <2> QED BY <1>3, <2>1 DEF Movement, At
<1>7. \A x \in Variants :
         inventory'[x].live = IF x = was.variant
                              THEN Applied(inventory'[x].com, "RETURN", was.qty, ReturnRef(r))
                              ELSE inventory'[x].com
  <2> TAKE x \in Variants
  <2>1. inventory'[v].live = Applied(inventory'[v].com, "RETURN", was.qty, ReturnRef(r))
    BY <1>1, <1>6
  <2>2. CASE x = v
    BY <1>4, <2>1, <2>2
  <2>3. CASE x # v
    BY <1>1, <1>3, <1>4, <2>3
  <2> QED BY <2>2, <2>3
<1>8. \A x \in Returns : returns'[x].live =
            IF x = client'[p].req.ret
            THEN [returns'[client'[p].req.ret].com EXCEPT
                     !.status = IF client'[p].req.op = "ACCEPT" THEN "ACCEPTED" ELSE "REJECTED"]
            ELSE returns'[x].com
  BY <1>1, <1>3
<1>9. OrdersAsWere'
  BY <1>1, <1>3 DEF OrdersAsWere
<1>10. /\ client'[p].req.op = "ACCEPT" /\ client'[p].req.ret = r /\ returns'[r].com = was
  BY <1>1, <1>3
<1>11. Deciding(p)'
  <2> HIDE DEF was, r, left
  <2> QED BY <1>3, <1>5, <1>7, <1>8, <1>9, <1>10 DEF Deciding
<1>12. /\ client'[p].pc # "idle" /\ client'[p].req = client[p].req
       /\ \A x \in Returns : x # client[p].req.ret => returns'[x] = returns[x]
       /\ \A x \in Returns : returns'[x].by \in {returns[x].by, p}
       /\ \A x \in Variants : inventory'[x].by \in {inventory[x].by, p}
  BY <1>1, <1>5
<1> HIDE DEF was, r, left
<1> QED BY <1>1, <1>11, <1>12, DecideStep

\* What the client that takes lines back knows of its order.
LEMMA TakingLemma ==
    ASSUME IInv, Alone, NEW p \in Clients, Under(p), Op(p) = "RETURN"
    PROVE  LET c == client[p]
               o == c.req.order
           IN  /\ TakingBack(p) /\ c \in Client /\ o \in Orders
               /\ c.req.lines \in [Variants -> Nat] /\ orders[o].com \in OrderRows
               /\ Order(p) = orders[o].com
               /\ \A r \in Returns : Return(r, p) = returns[r].live
<1>1. TakingBack(p)
  BY DEF Alone, Progress
<1>2. client[p] \in Client
  BY SeeLemma
<1>3. client[p].req.order \in Orders /\ client[p].req.lines \in [Variants -> Nat]
  BY <1>2, RequestLemma DEF Client, Op
<1>4. orders[client[p].req.order].com \in OrderRows
  BY <1>3 DEF IInv, TypeOK, Cells
<1>5. Order(p) = orders[client[p].req.order].com
  BY <1>1, <1>3, TurnLemma DEF Order, TakingBack, OrdersAsWere
<1>6. \A r \in Returns : Return(r, p) = returns[r].live
  BY TurnLemma DEF Return
<1> QED BY <1>1, <1>2, <1>3, <1>4, <1>5, <1>6

\* A statement of such a client.
LEMMA TakeStep ==
    ASSUME IInv, Alone, NEW p \in Clients, Under(p), Op(p) = "RETURN",
           client'[p].req = client[p].req, client'[p].pc # "idle",
           \A q \in Clients : q # p => client'[q] = client[q], UNCHANGED orders,
           IsFiniteSet(OnFile'),
           \A r \in Returns : returns'[r].by \in {returns[r].by, p},
           \A v \in Variants : inventory'[v].by \in {inventory[v].by, p},
           TakingBack(p)'
    PROVE  Alone'
<1>1. Progress(p)' /\ Under(p)'
  BY DEF Progress, Op, Sales, Under, At
<1> QED BY <1>1, TurnStep

\* Its order is read.
LEMMA ReadToReturn ==
    ASSUME IInv, Alone, NEW p \in Clients, ReadOrder(p), Op(p) = "RETURN"
    PROVE  Alone'
<1> DEFINE req == client[p].req
           was == orders[req.order].com
           row == [v \in {} |-> v]
<1>1. Under(p) /\ client[p].pc = "read"
  BY DEF ReadOrder, Under, At
<1>2. TakingBack(p) /\ Order(p) = was
  BY <1>1, TakingLemma
<1>3. OrdersAsWere /\ ReturnsAsWere /\ StockAsWas
  BY <1>1, <1>2 DEF TakingBack
<1>4. /\ client'[p].req = req /\ client'[p].pc = "eligible" /\ client'[p].todo = Asked(req.lines)
      /\ \A q \in Clients : q # p => client'[q] = client[q]
      /\ UNCHANGED <<inventory, orders, returns>>
  <2>1. /\ client'[p].req = req /\ client'[p].pc = AfterRead(req)
        /\ client'[p].todo = Asked(req.lines)
        /\ \A q \in Clients : q # p => client'[q] = client[q]
        /\ UNCHANGED <<inventory, orders, returns>>
    BY DEF ReadOrder, Reads, IInv, TypeOK
  <2>2. AfterRead(req) = "eligible"
    <3>1. req.op = "RETURN" /\ req.next = "NONE"
      BY <1>1, SeeLemma, RequestLemma DEF Op, Client
    <3> QED BY <3>1 DEF AfterRead
  <2> QED BY <2>1, <2>2
<1>5. was.status \in Returnable
  BY <1>2 DEF ReadOrder, Legal, Op
<1>6. Filing(client'[p]) = {}
  BY <1>4 DEF Filing
<1>7. row \in [{} -> Returns] /\ DOMAIN row = {}
  OBVIOUS
<1> HIDE DEF row
<1>8. LinesNow(returns', was.items, req, row)
  BY <1>3, <1>4, <1>7 DEF LinesNow, ReturnsAsWere
<1>9. CreditsNow(inventory', req, row, Asked(req.lines))
  BY <1>3, <1>4, <1>7 DEF CreditsNow, StockAsWas
<1>10. OrdersAsWere' /\ OnFile' = OnFile
  BY <1>3, <1>4 DEF OrdersAsWere, OnFile
<1>11. TakingBack(p)'
  <2>1. orders'[client'[p].req.order].com = was
    BY <1>4
  <2>2. row \in [Filing(client'[p]) -> Returns]
    BY <1>6, <1>7
  <2> HIDE DEF was, req
  <2> QED BY <1>4, <1>5, <1>8, <1>9, <1>10, <2>1, <2>2 DEF TakingBack
<1>12. IsFiniteSet(OnFile')
  BY <1>10 DEF Alone
<1> QED BY <1>1, <1>4, <1>11, <1>12, TakeStep

\* The returns on file, as far as the client has come with a line that is
\* still to be taken back, are those committed.
LEMMA StillReturned ==
    ASSUME IInv, Alone, NEW p \in Clients, Under(p), Op(p) = "RETURN", client[p].pc = "eligible",
           NEW v \in Variants, v \in client[p].todo
    PROVE  AlreadyReturned(p, client[p].req.order, v)
              = Returned(returns, client[p].req.order, v)
<1> DEFINE o == client[p].req.order
           P == {r \in Returns : /\ Return(r, p).order = o
                                 /\ Return(r, p).variant = v
                                 /\ Return(r, p).status \in OpenReturn}
           Q == {r \in Returns : /\ returns[r].com.order = o
                                 /\ returns[r].com.variant = v
                                 /\ returns[r].com.status \in OpenReturn}
           f == [r \in Returns |-> Return(r, p).qty]
           g == [r \in Returns |-> returns[r].com.qty]
<1>1. /\ TakingBack(p) /\ \A r \in Returns : Return(r, p) = returns[r].live
  BY TakingLemma
<1>2. PICK row \in [Filing(client[p]) -> Returns] :
         LinesNow(returns, orders[o].com.items, client[p].req, row)
  BY <1>1 DEF TakingBack
<1>3. v \notin DOMAIN row
  BY <1>2 DEF Filing
<1>4. ASSUME NEW r \in Returns
      PROVE  \/ Return(r, p) = returns[r].com
             \/ /\ returns[r].com = NoReturn
                /\ Return(r, p).variant # v
  <2>1. CASE \E w \in DOMAIN row : row[w] = r
    <3>1. PICK w \in DOMAIN row : row[w] = r
      BY <2>1
    <3>2. returns[r].com = NoReturn /\ returns[r].live = Filed(client[p].req, w)
      BY <1>2, <3>1 DEF LinesNow
    <3>3. Return(r, p).variant = w
      BY <1>1, <3>2 DEF Filed
    <3> QED BY <1>3, <3>2, <3>3
  <2>2. CASE \A w \in DOMAIN row : row[w] # r
    BY <1>1, <1>2, <2>2 DEF LinesNow
  <2> QED BY <2>1, <2>2
<1>5. NoReturn.status \notin OpenReturn
  BY DEF NoReturn, OpenReturn
<1>6. \A r \in Returns : r \in P <=> r \in Q
  BY <1>4, <1>5
<1>7. P = Q
  BY <1>6
<1>8. \A r \in P : f[r] = g[r]
  BY <1>4, <1>5, <1>7
<1>9. IsFiniteSet(P)
  <2>1. P \subseteq OnFile
    BY <1>5, <1>7 DEF OnFile
  <2> QED BY <2>1, FS_Subset DEF Alone
<1>10. AlreadyReturned(p, o, v) = SumFunctionOnSet(f, P)
  BY DEF AlreadyReturned
<1>11. Returned(returns, o, v) = SumFunctionOnSet(g, Q)
  BY DEF Returned
<1> HIDE DEF P, Q, f, g
<1>12. SumFunctionOnSet(f, P) = SumFunctionOnSet(g, P)
  BY <1>8, <1>9, SumSame
<1> QED BY <1>7, <1>10, <1>11, <1>12

\* A line is found eligible.
LEMMA EligibleInTurn ==
    ASSUME IInv, Alone, NEW p \in Clients, NEW v \in Variants, CheckEligible(p, v)
    PROVE  Alone'
<1> DEFINE req == client[p].req
           was == orders[req.order].com
<1>1. Under(p) /\ client[p].pc = "eligible" /\ v \in client[p].todo
  BY DEF CheckEligible, Under, At
<1>2. Op(p) = "RETURN"
  BY <1>1, LabelLemma
<1>3. TakingBack(p) /\ Order(p) = was
  BY <1>1, <1>2, TakingLemma
<1>4. /\ OrdersAsWere /\ was.status \in Returnable /\ client[p].todo \subseteq Asked(req.lines)
      /\ \E row \in [Filing(client[p]) -> Returns] :
            /\ LinesNow(returns, was.items, req, row)
            /\ CreditsNow(inventory, req, row, client[p].todo)
  BY <1>1, <1>3 DEF TakingBack
<1>5. /\ client'[p].req = req /\ client'[p].pc = "enter" /\ client'[p].todo = client[p].todo
      /\ client'[p].line = v
      /\ \A q \in Clients : q # p => client'[q] = client[q]
      /\ UNCHANGED <<inventory, orders, returns>>
  BY DEF CheckEligible, Reads, IInv, TypeOK
<1>6. Fits(returns, was.items, req, v)
  <2>1. AlreadyReturned(p, req.order, v) = Returned(returns, req.order, v)
    BY <1>1, <1>2, StillReturned
  <2> QED BY <1>3, <2>1 DEF CheckEligible, Fits
<1>7. Filing(client'[p]) = Filing(client[p])
  BY <1>1, <1>5 DEF Filing
<1>8. OrdersAsWere' /\ OnFile' = OnFile
  BY <1>4, <1>5 DEF OrdersAsWere, OnFile
<1>9. TakingBack(p)'
  <2>1. orders'[client'[p].req.order].com = was
    BY <1>5
  <2>2. \E row \in [Filing(client'[p]) -> Returns] :
            /\ LinesNow(returns', was.items, req, row)
            /\ CreditsNow(inventory', req, row, client'[p].todo)
    BY <1>4, <1>5, <1>7
  <2> HIDE DEF was, req
  <2> QED BY <1>1, <1>4, <1>5, <1>6, <1>8, <2>1, <2>2 DEF TakingBack
<1>10. IsFiniteSet(OnFile')
  BY <1>8 DEF Alone
<1> QED BY <1>1, <1>2, <1>5, <1>9, <1>10, TakeStep

\* What may be taken back depends on the committed returns alone.
LEMMA SameFits ==
    ASSUME NEW rows, NEW new, \A r \in Returns : new[r].com = rows[r].com
    PROVE  \A items, req, v : Fits(new, items, req, v) <=> Fits(rows, items, req, v)
<1>1. ASSUME NEW o, NEW v
      PROVE  Returned(new, o, v) = Returned(rows, o, v)
  <2> DEFINE P(t) == {r \in Returns : /\ t[r].com.order = o
                                      /\ t[r].com.variant = v
                                      /\ t[r].com.status \in OpenReturn}
             f(t) == [r \in Returns |-> t[r].com.qty]
  <2>1. P(new) = P(rows) /\ f(new) = f(rows)
    OBVIOUS
  <2>2. Returned(new, o, v) = SumFunctionOnSet(f(new), P(new))
    BY DEF Returned
  <2>3. Returned(rows, o, v) = SumFunctionOnSet(f(rows), P(rows))
    BY DEF Returned
  <2> HIDE DEF P, f
  <2> QED BY <2>1, <2>2, <2>3
<1> QED BY <1>1 DEF Fits

\* A line that fits is entered as a new return.
LEMMA OneMoreLine ==
    ASSUME NEW rows, NEW new, NEW items, NEW req, NEW S, NEW row \in [S -> Returns],
           LinesNow(rows, items, req, row), NEW v, v \notin S, NEW r \in Returns,
           Fits(rows, items, req, v), rows[r].com = NoReturn, rows[r].live = NoReturn,
           new[r].com = NoReturn, new[r].live = Filed(req, v),
           \A x \in Returns : x # r => new[x] = rows[x]
    PROVE  LET more == [w \in S \cup {v} |-> IF w = v THEN r ELSE row[w]]
           IN  /\ more \in [S \cup {v} -> Returns] /\ LinesNow(new, items, req, more)
               /\ more[v] = r /\ \A w \in S : more[w] = row[w]
<1> DEFINE more == [w \in S \cup {v} |-> IF w = v THEN r ELSE row[w]]
<1>1. /\ more \in [S \cup {v} -> Returns] /\ DOMAIN more = S \cup {v} /\ DOMAIN row = S
      /\ more[v] = r /\ \A w \in S : more[w] = row[w] /\ row[w] \in Returns
  OBVIOUS
<1> HIDE DEF more
<1>2. \A w \in S : row[w] # r
  <2>1. \A w \in S : rows[row[w]].live = Filed(req, w)
    BY <1>1 DEF LinesNow
  <2>2. \A w : Filed(req, w) # NoReturn
    <3>1. \A w : Filed(req, w).status \in {"ACCEPTED", "REQUESTED"}
      BY DEF Filed
    <3>2. NoReturn.status = "NONE"
      BY DEF NoReturn
    <3> QED BY <3>1, <3>2
  <2> QED BY <2>1, <2>2
<1>3. \A x \in Returns : new[x].com = rows[x].com
  <2> TAKE x \in Returns
  <2> QED BY x = r \/ x # r
<1>4. \A w, x \in DOMAIN more : more[w] = more[x] => w = x
  BY <1>1, <1>2 DEF LinesNow
<1>5. ASSUME NEW w \in DOMAIN more
      PROVE  /\ new[more[w]].com = NoReturn
             /\ new[more[w]].live = Filed(req, w)
             /\ Fits(new, items, req, w)
  <2>1. CASE w = v
    BY <1>1, <1>3, <2>1, SameFits
  <2>2. CASE w \in S
    <3>1. more[w] = row[w] /\ row[w] # r /\ row[w] \in Returns
      BY <1>1, <1>2, <2>2
    <3>2. new[more[w]] = rows[row[w]]
      BY <3>1
    <3>3. rows[row[w]].com = NoReturn /\ rows[row[w]].live = Filed(req, w)
          /\ Fits(rows, items, req, w)
      BY <1>1, <2>2 DEF LinesNow
    <3> QED BY <1>3, <3>2, <3>3, SameFits
  <2> QED BY <1>1, <2>1, <2>2
<1>6. \A x \in Returns : (\A w \in DOMAIN more : more[w] # x) => new[x].live = new[x].com
  <2> SUFFICES ASSUME NEW x \in Returns, \A w \in DOMAIN more : more[w] # x
               PROVE  new[x].live = new[x].com
    OBVIOUS
  <2>1. x # r /\ \A w \in DOMAIN row : row[w] # x
    BY <1>1
  <2> QED BY <2>1 DEF LinesNow
<1>7. LinesNow(new, items, req, more)
  BY <1>4, <1>5, <1>6 DEF LinesNow
<1> QED BY <1>1, <1>7 DEF more

\* A return is entered: the line that was found eligible still is.
LEMMA FileInTurn ==
    ASSUME IInv, Alone, NEW p \in Clients, NEW r \in Returns, InsertReturn(p, r)
    PROVE  Alone'
<1> DEFINE req  == client[p].req
           was  == orders[req.order].com
           v    == client[p].line
           left == client[p].todo \ {v}
           S    == Filing(client[p])
           new  == Filed(req, v)
<1>1. Under(p) /\ client[p].pc = "enter" /\ Op(p) = "RETURN"
  BY DEF InsertReturn, Under, At, Op
<1>2. TakingBack(p) /\ req.lines \in [Variants -> Nat] /\ req.order \in Orders
  BY <1>1, TakingLemma
<1>3. /\ OrdersAsWere /\ was.status \in Returnable /\ client[p].todo \subseteq Asked(req.lines)
      /\ v \in client[p].todo /\ Fits(returns, was.items, req, v)
      /\ \E row \in [S -> Returns] :
            /\ LinesNow(returns, was.items, req, row)
            /\ CreditsNow(inventory, req, row, client[p].todo)
  BY <1>1, <1>2 DEF TakingBack
<1>4. v \in Variants /\ v \notin S
  BY <1>1, <1>3 DEF Filing, Asked
<1>5. /\ returns[r] = Cell(NoReturn)
      /\ returns' = [returns EXCEPT ![r] = Written(@, p, new)]
      /\ UNCHANGED <<inventory, orders>>
  BY DEF InsertReturn, Filed
<1>6. /\ client'[p].req = req /\ client'[p].ret = r /\ client'[p].line = v
      /\ client'[p].todo = (IF req.accept THEN client[p].todo ELSE left)
      /\ client'[p].pc = IF req.accept THEN "credit" ELSE IF left = {} THEN "commit" ELSE "eligible"
      /\ \A q \in Clients : q # p => client'[q] = client[q]
  BY DEF InsertReturn, IInv, TypeOK
<1>7. new \in ReturnRows
  BY <1>2, <1>4 DEF Filed, ReturnRows, ReturnStatuses
<1>8. returns \in [Returns -> Cells(ReturnRows)]
  BY DEF IInv, TypeOK
<1>9. /\ \A x \in Returns : x # r => returns'[x] = returns[x]
      /\ returns'[r].by = p /\ returns'[r].live = new /\ returns'[r].com = returns[r].com
  <2> HIDE DEF new
  <2> QED BY ONLY <1>5, <1>7, <1>8, p \in Clients, r \in Returns, ReturnWritten
<1>10. returns[r].com = NoReturn /\ returns[r].live = NoReturn /\ returns'[r].com = NoReturn
  BY <1>5, <1>9 DEF Cell
<1>11. Filing(client'[p]) = S \cup {v}
  BY <1>1, <1>3, <1>6 DEF Filing
<1>12. PICK row \in [S -> Returns] :
            /\ LinesNow(returns, was.items, req, row)
            /\ CreditsNow(inventory, req, row, client[p].todo)
  BY <1>3
<1> DEFINE more == [w \in S \cup {v} |-> IF w = v THEN r ELSE row[w]]
<1>13. /\ more \in [S \cup {v} -> Returns] /\ LinesNow(returns', was.items, req, more)
       /\ more[v] = r /\ \A w \in S : more[w] = row[w]
  <2> DEFINE items == was.items
  <2>1. LinesNow(returns, items, req, row) /\ Fits(returns, items, req, v)
    BY <1>3, <1>12
  <2>2. returns'[r].live = Filed(req, v)
    BY <1>9
  <2> HIDE DEF S, was, req, v, items, left, new, more
  <2>3. LET more2 == [w \in S \cup {v} |-> IF w = v THEN r ELSE row[w]]
        IN  /\ more2 \in [S \cup {v} -> Returns] /\ LinesNow(returns', items, req, more2)
            /\ more2[v] = r /\ \A w \in S : more2[w] = row[w]
    BY <1>4, <1>9, <1>10, <1>12, <2>1, <2>2, OneMoreLine
  <2> QED BY <2>3 DEF more, items
<1> HIDE DEF more
<1>14. CreditsNow(inventory', req, more, client'[p].todo)
  <2> SUFFICES ASSUME NEW x \in Variants
               PROVE  inventory'[x].live =
                        IF req.accept /\ x \in DOMAIN more \ client'[p].todo
                        THEN Applied(inventory'[x].com, "RETURN", req.lines[x], ReturnRef(more[x]))
                        ELSE inventory'[x].com
    BY DEF CreditsNow
  <2>1. inventory'[x].live = IF req.accept /\ x \in DOMAIN row \ client[p].todo
                 THEN Applied(inventory'[x].com, "RETURN", req.lines[x], ReturnRef(row[x]))
                 ELSE inventory'[x].com
    BY <1>5, <1>12 DEF CreditsNow
  <2>2. DOMAIN row = S /\ DOMAIN more = S \cup {v}
    BY <1>12, <1>13
  <2>3. CASE ~req.accept
    BY <2>1, <2>3
  <2>4. CASE req.accept
    <3>1. x \in DOMAIN more \ client'[p].todo <=> x \in DOMAIN row \ client[p].todo
      BY <1>3, <1>6, <2>2, <2>4
    <3>2. x \in DOMAIN row => more[x] = row[x]
      BY <1>13, <2>2
    <3> HIDE DEF req, was, left, S
    <3> QED BY <2>1, <3>1, <3>2
  <2> QED BY <2>3, <2>4
<1>15. OrdersAsWere'
  BY <1>3, <1>5 DEF OrdersAsWere
<1>16. TakingBack(p)'
  <2>1. orders'[client'[p].req.order].com = was
    BY <1>5, <1>6
  <2>2. /\ client'[p].pc \in {"credit", "commit", "eligible"}
        /\ client'[p].pc = "commit" => client'[p].todo = {}
        /\ client'[p].pc = "credit" => v \in client'[p].todo /\ req.accept
        /\ client'[p].todo \subseteq Asked(req.lines)
    BY <1>3, <1>6
  <2>3. /\ more \in [Filing(client'[p]) -> Returns]
        /\ LinesNow(returns', was.items, req, more)
        /\ CreditsNow(inventory', req, more, client'[p].todo)
        /\ client'[p].ret = more[client'[p].line]
    BY <1>6, <1>11, <1>13, <1>14
  <2>4. client'[p].req = req /\ client'[p].line = v
    BY <1>6
  <2> HIDE DEF was, req, v, left, S, new
  <2> QED BY <1>3, <1>15, <2>1, <2>2, <2>3, <2>4 DEF TakingBack
<1>17. IsFiniteSet(OnFile')
  BY <1>9, OneMoreOnFile
<1>18. /\ client'[p].pc # "idle" /\ UNCHANGED orders
       /\ \A x \in Variants : inventory'[x].by \in {inventory[x].by, p}
  BY <1>5, <1>6
<1>19. \A x \in Returns : returns'[x].by \in {returns[x].by, p}
  <2> TAKE x \in Returns
  <2> QED BY <1>9, x = r \/ x # r
<1>20. client'[p].req = client[p].req /\ \A q \in Clients : q # p => client'[q] = client[q]
  BY <1>6
<1> HIDE DEF req, was, v, left, S, new
<1> QED BY <1>1, <1>16, <1>17, <1>18, <1>19, <1>20, TakeStep

\* The units of a line that is taken back come back at once.
LEMMA TakeBackInTurn ==
    ASSUME IInv, Alone, NEW p \in Clients, NEW v \in Variants, MoveLine(p, v), Op(p) = "RETURN"
    PROVE  Alone'
<1> DEFINE req  == client[p].req
           was  == orders[req.order].com
           left == client[p].todo \ {v}
           S    == Filing(client[p])
<1>1. /\ Under(p) /\ client[p].pc \in {"sell", "restore", "credit"} /\ v \in client[p].todo
      /\ client[p].pc = "credit" => v = client[p].line
      /\ inventory[v].live = inventory[v].com
      /\ \A x \in Variants : x # v => inventory'[x] = inventory[x]
      /\ inventory'[v].com = inventory[v].com /\ inventory'[v].by = p
      /\ inventory'[v].live = Applied(inventory[v].com, Movement(p, v).type, Movement(p, v).qty,
                                      Movement(p, v).ref)
      /\ client'[p].todo = left /\ client'[p].pc = AfterMove(p, left)
      /\ client'[p].req = req /\ client'[p].line = client[p].line
      /\ \A q \in Clients : q # p => client'[q] = client[q]
      /\ UNCHANGED <<orders, returns>>
  BY MovedNow
<1>2. TakingBack(p) /\ \A r \in Returns : Return(r, p) = returns[r].live
  BY <1>1, TakingLemma
<1>3. /\ client[p].pc = "credit" /\ OrdersAsWere /\ was.status \in Returnable
      /\ client[p].todo \subseteq Asked(req.lines) /\ req.accept
      /\ \E row \in [S -> Returns] :
            /\ LinesNow(returns, was.items, req, row)
            /\ CreditsNow(inventory, req, row, client[p].todo)
            /\ client[p].ret = row[client[p].line]
  BY <1>1, <1>2 DEF TakingBack
<1>4. PICK row \in [S -> Returns] :
            /\ LinesNow(returns, was.items, req, row)
            /\ CreditsNow(inventory, req, row, client[p].todo)
            /\ client[p].ret = row[v]
  BY <1>1, <1>3
<1>5. client'[p].pc = IF left = {} THEN "commit" ELSE "eligible"
  BY <1>1, <1>3 DEF AfterMove, At, Op, Sales
<1>6. v \in S /\ DOMAIN row = S /\ row[v] \in Returns
  BY <1>1, <1>3, <1>4 DEF Filing
<1>7. Filing(client'[p]) = S
  BY <1>1, <1>3, <1>5 DEF Filing
<1>8. Movement(p, v) = [type |-> "RETURN", qty |-> req.lines[v], ref |-> ReturnRef(row[v])]
  <2>1. Return(row[v], p) = Filed(req, v)
    BY <1>2, <1>4, <1>6 DEF LinesNow
  <2>2. Return(row[v], p).qty = req.lines[v]
    BY <2>1 DEF Filed
  <2> QED BY <1>3, <1>4, <2>2 DEF Movement, At
<1>9. CreditsNow(inventory', req, row, left)
  <2> SUFFICES ASSUME NEW x \in Variants
               PROVE  inventory'[x].live =
                        IF req.accept /\ x \in DOMAIN row \ left
                        THEN Applied(inventory'[x].com, "RETURN", req.lines[x], ReturnRef(row[x]))
                        ELSE inventory'[x].com
    BY DEF CreditsNow
  <2>1. CASE x = v
    <3>1. inventory'[v].live = Applied(inventory'[v].com, "RETURN", req.lines[v], ReturnRef(row[v]))
      BY <1>1, <1>8
    <3> QED BY <1>3, <1>6, <2>1, <3>1
  <2>2. CASE x # v
    <3>1. inventory[x].live = IF req.accept /\ x \in DOMAIN row \ client[p].todo
                 THEN Applied(inventory[x].com, "RETURN", req.lines[x], ReturnRef(row[x]))
                 ELSE inventory[x].com
      BY <1>4 DEF CreditsNow
    <3>2. x \in left <=> x \in client[p].todo
      BY <2>2
    <3>3. inventory'[x] = inventory[x]
      BY <1>1, <2>2
    <3> HIDE DEF left, req
    <3> QED BY <3>1, <3>2, <3>3
  <2> QED BY <2>1, <2>2
<1>10. OrdersAsWere' /\ OnFile' = OnFile
  BY <1>1, <1>3 DEF OrdersAsWere, OnFile
<1>11. TakingBack(p)'
  <2>1. orders'[client'[p].req.order].com = was
    BY <1>1
  <2>2. /\ client'[p].pc \in {"commit", "eligible"}
        /\ client'[p].pc = "commit" => client'[p].todo = {}
        /\ client'[p].todo \subseteq Asked(req.lines)
    BY <1>1, <1>3, <1>5
  <2>3. /\ row \in [Filing(client'[p]) -> Returns]
        /\ LinesNow(returns', was.items, req, row)
        /\ CreditsNow(inventory', req, row, client'[p].todo)
    BY <1>1, <1>4, <1>7, <1>9
  <2>4. client'[p].req = req
    BY <1>1
  <2> HIDE DEF was, req, left, S
  <2> QED BY <1>3, <1>10, <2>1, <2>2, <2>3, <2>4 DEF TakingBack
<1>12. IsFiniteSet(OnFile')
  BY <1>10 DEF Alone
<1>13. /\ client'[p].pc # "idle" /\ client'[p].req = client[p].req
       /\ UNCHANGED orders
       /\ \A x \in Returns : returns'[x].by \in {returns[x].by, p}
       /\ \A x \in Variants : inventory'[x].by \in {inventory[x].by, p}
  BY <1>1, <1>5
<1> HIDE DEF was, req, left, S
<1> QED BY <1>1, <1>11, <1>12, <1>13, TakeStep

\* What has been written by the transaction under way follows from what it
\* has found, initially and after each step.
LEMMA InitAlone == Init => Alone
<1> SUFFICES ASSUME Init
             PROVE  Alone
  OBVIOUS
<1>1. \A row : Cell(row).by = Nobody /\ Cell(row).com = row /\ Cell(row).live = row
  BY DEF Cell
<1>2. /\ \A q \in Clients : ~Under(q)
      /\ \A o \in Orders : orders[o].by = Nobody
      /\ \A r \in Returns : /\ returns[r].by = Nobody
                            /\ returns[r].com = NoReturn /\ returns[r].live = NoReturn
      /\ \A v \in Variants : inventory[v].by = Nobody
  BY <1>1 DEF Init, Under, At, Idle
<1>3. OnFile = {}
  BY <1>2 DEF OnFile
<1> QED BY <1>2, <1>3, FS_EmptySet, NobodyAssumption DEF Alone

LEMMA StepAlone == Serialised /\ IInv /\ Alone /\ [Next]_vars => Alone'
<1> SUFFICES ASSUME Serialised, IInv, Alone, [Next]_vars
             PROVE  Alone'
  OBVIOUS
<1>1. CASE UNCHANGED vars
  <2>1. UNCHANGED <<inventory, orders, returns, client>>
    BY <1>1 DEF vars
  <2>2. /\ OrdersAsWere' <=> OrdersAsWere
        /\ ReturnsAsWere' <=> ReturnsAsWere
        /\ StockAsWas' <=> StockAsWas
        /\ OnFile' = OnFile
    BY <2>1 DEF OrdersAsWere, ReturnsAsWere, StockAsWas, OnFile
  <2>3. ASSUME NEW p \in Clients, Entering(p)
        PROVE  Entering(p)'
    BY <2>1, <2>2, <2>3 DEF Entering, OrderNow, StockMoved
  <2>4. ASSUME NEW p \in Clients, Changing(p)
        PROVE  Changing(p)'
    BY <2>1, <2>2, <2>4 DEF Changing, OrderNow, StockMoved
  <2>5. ASSUME NEW p \in Clients, TakingBack(p)
        PROVE  TakingBack(p)'
    BY <2>1, <2>2, <2>5 DEF TakingBack
  <2>6. ASSUME NEW p \in Clients, Deciding(p)
        PROVE  Deciding(p)'
    BY <2>1, <2>2, <2>6 DEF Deciding
  <2>7. \A p \in Clients : (Under(p)' <=> Under(p)) /\ Op(p)' = Op(p)
    BY <2>1 DEF Under, At, Op
  <2>8. ASSUME NEW p \in Clients, Progress(p)
        PROVE  Progress(p)'
    BY <2>3, <2>4, <2>5, <2>6, <2>7, <2>8 DEF Progress
  <2> QED BY <2>1, <2>2, <2>7, <2>8 DEF Alone
<1>2. CASE Next
  <2>1. PICK p \in Clients : Step(p)
    BY <1>2 DEF Next
  <2>2. ASSUME NEW req \in Requests, Begin(p, req)
        PROVE  Alone'
    BY <2>2, BeginAlone
  <2>3. CASE InsertOrder(p)
    BY <2>3, InsertInTurn
  <2>4. CASE ReadOrder(p)
    <3>1. Op(p) \in {"COMPLETE", "CANCEL", "STATUS", "RETURN"}
      BY <2>4 DEF ReadOrder, Op
    <3> QED BY <2>4, <3>1, ReadInTurn, ReadToReturn
  <2>5. CASE ClaimTicket(p)
    BY <2>5, ClaimInTurn
  <2>6. CASE CountReturns(p) \/ ReadFlag(p)
    <3>1. Under(p) /\ client[p].pc \in {"returns", "commitStock", "releaseStock"}
      BY <2>6 DEF CountReturns, ReadFlag, Under, At
    <3>2. Op(p) \in {"COMPLETE", "STATUS", "CANCEL"}
      BY <3>1, LabelLemma
    <3> QED BY <2>6, <3>2, LookInTurn
  <2>7. CASE ClaimFlag(p)
    BY <2>7, ClaimFlagInTurn
  <2>8. CASE Decide(p)
    BY <2>8, DecideInTurn
  <2>9. ASSUME NEW v \in Variants, MoveLine(p, v)
        PROVE  Alone'
    <3>1. Under(p)
      BY <2>9 DEF MoveLine, Under, At
    <3>2. Op(p) \in Sales \cup {"COMPLETE", "STATUS", "CANCEL", "RETURN", "ACCEPT", "REJECT"}
      BY <3>1, LabelLemma
    <3> QED BY <2>9, <3>2, SellInTurn, ShiftInTurn, TakeBackInTurn, CreditInTurn
  <2>10. ASSUME NEW v \in Variants, CheckEligible(p, v)
         PROVE  Alone'
    BY <2>10, EligibleInTurn
  <2>11. ASSUME NEW r \in Returns, InsertReturn(p, r)
         PROVE  Alone'
    BY <2>11, FileInTurn
  <2>12. CASE ReadReturn(p)
    BY <2>12, ReadReturnInTurn
  <2>13. CASE AcceptReturn(p) \/ RejectReturn(p)
    BY <2>13, SettleInTurn
  <2>14. CASE Commit(p) \/ Rollback(p)
    BY <2>14, EndAlone DEF Commit, Rollback, Under, At
  <2> QED BY <2>1, <2>2, <2>3, <2>4, <2>5, <2>6, <2>7, <2>8, <2>9, <2>10, <2>11, <2>12, <2>13, <2>14
          DEF Step
<1> QED BY <1>1, <1>2

-----------------------------------------------------------------------------
\* A commit is a request of Store.

\* Store moves stock the same way.
LEMMA SerialStock ==
    /\ \A row, type, q, ref : Serial!Applied(row, type, q, ref) = Applied(row, type, q, ref)
    /\ \A row, type, q : Serial!Accepts(row, type, q) <=> Accepts(row, type, q)
    /\ \A id : /\ Serial!OrderRef(id) = OrderRef(id) /\ Serial!CancelRef(id) = CancelRef(id)
               /\ Serial!ReturnRef(id) = ReturnRef(id)
    /\ \A v : Serial!Opened(v) = Opened(v)
<1>1. \A type, q : Serial!Signed(type, q) = Signed(type, q)
  BY DEF Serial!Signed, Signed, Serial!Inbound, Inbound
<1>2. \A row, type, q, ref : Serial!Applied(row, type, q, ref) = Applied(row, type, q, ref)
  BY <1>1 DEF Serial!Applied, Applied
<1>3. \A row, type, q : Serial!Accepts(row, type, q) <=> Accepts(row, type, q)
  BY <1>1 DEF Serial!Accepts, Accepts
<1>4. \A v : Serial!Opened(v) = Opened(v)
  BY <1>2 DEF Serial!Opened, Opened, Serial!EmptyRow, EmptyRow, Serial!Manual, Manual
<1> QED BY <1>2, <1>3, <1>4 DEF Serial!OrderRef, OrderRef, Serial!CancelRef, CancelRef,
                                Serial!ReturnRef, ReturnRef

\* So do its documents.
LEMMA SerialTables ==
    /\ Serial!NoOrder = NoOrder /\ Serial!NoReturn = NoReturn
    /\ Serial!Transitions = Transitions /\ Serial!Cancellable = Cancellable
    /\ Serial!Returnable = Returnable /\ Serial!OpenReturn = OpenReturn
    /\ \A from, to : Serial!MayMove(from, to) <=> MayMove(from, to)
BY DEF Serial!NoOrder, NoOrder, Serial!NoReturn, NoReturn, Serial!Nothing, Nothing,
       Serial!Transitions, Transitions, Serial!Cancellable, Cancellable,
       Serial!Returnable, Returnable, Serial!OpenReturn, OpenReturn, Serial!MayMove, MayMove

\* A commit publishes what its transaction has made of each table.
LEMMA CommitPublishes ==
    ASSUME IInv, Alone, NEW p \in Clients, Commit(p)
    PROVE  /\ Snapshot(inventory) = [v \in Variants |-> inventory[v].com]
           /\ Snapshot(orders) = [o \in Orders |-> orders[o].com]
           /\ Snapshot(returns) = [r \in Returns |-> returns[r].com]
           /\ Snapshot(inventory') = [v \in Variants |-> inventory[v].live]
           /\ Snapshot(orders') = [o \in Orders |-> orders[o].live]
           /\ Snapshot(returns') = [r \in Returns |-> returns[r].live]
<1>1. /\ DOMAIN inventory = Variants /\ DOMAIN orders = Orders /\ DOMAIN returns = Returns
      /\ Under(p)
  BY DEF IInv, TypeOK, Commit, Under, At
<1>2. ASSUME NEW K, NEW table, DOMAIN table = K,
             \A k \in K : table[k].by # p => table[k].live = table[k].com
      PROVE  Snapshot(Committed(table, p)) = [k \in K |-> table[k].live]
  <2>1. \A row : Cell(row).com = row
    BY DEF Cell
  <2>2. DOMAIN Committed(table, p) = K
    BY <1>2 DEF Committed
  <2>3. \A k \in K : Committed(table, p)[k].com = table[k].live
    BY <1>2, <2>1 DEF Committed
  <2> QED BY <2>2, <2>3 DEF Snapshot
<1>3. /\ \A o \in Orders : orders[o].by # p => orders[o].live = orders[o].com
      /\ \A r \in Returns : returns[r].by # p => returns[r].live = returns[r].com
      /\ \A v \in Variants : inventory[v].by # p => inventory[v].live = inventory[v].com
  BY <1>1, TurnLemma
<1>4. /\ inventory' = Committed(inventory, p) /\ orders' = Committed(orders, p)
      /\ returns' = Committed(returns, p)
  BY DEF Commit
<1>5. /\ Snapshot(Committed(inventory, p)) = [v \in Variants |-> inventory[v].live]
      /\ Snapshot(Committed(orders, p)) = [o \in Orders |-> orders[o].live]
      /\ Snapshot(Committed(returns, p)) = [r \in Returns |-> returns[r].live]
  BY <1>1, <1>2, <1>3
<1> QED BY <1>1, <1>4, <1>5 DEF Snapshot

\* Lines that have all moved are moved as one.
LEMMA MovedTogether ==
    ASSUME IInv, Alone, NEW p \in Clients, Commit(p), NEW lines, NEW type, NEW ref,
           StockMoved(lines, {}, type, ref)
    PROVE  Serial!Move(lines, type, ref)
<1> DEFINE I == Snapshot(inventory)
           J == Snapshot(inventory')
<1>1. I = [v \in Variants |-> inventory[v].com] /\ J = [v \in Variants |-> inventory[v].live]
  BY CommitPublishes
<1>2. \A v \in Variants : lines[v] > 0 => Serial!Accepts(I[v], type, lines[v])
  BY <1>1, SerialStock DEF StockMoved
<1>3. \A v \in Variants : J[v] = IF lines[v] > 0 THEN Serial!Applied(I[v], type, lines[v], ref)
                                                 ELSE I[v]
  BY <1>1, SerialStock DEF StockMoved
<1>4. J = [v \in Variants |-> J[v]]
  BY <1>1
<1>5. J = [v \in Variants |-> IF lines[v] > 0 THEN Serial!Applied(I[v], type, lines[v], ref)
                                              ELSE I[v]]
  <2> HIDE DEF I, J
  <2> QED BY <1>3, <1>4
<1> QED BY <1>2, <1>5 DEF Serial!Move

\* The order of a commit, as one UPDATE or INSERT.
LEMMA OrderTogether ==
    ASSUME IInv, Alone, NEW p \in Clients, Commit(p), NEW o \in Orders, NEW row,
           OrderNow(o, row)
    PROVE  /\ Snapshot(orders') = [Snapshot(orders) EXCEPT ![o] = row]
           /\ Snapshot(orders)[o] = orders[o].com
BY CommitPublishes DEF OrderNow

\* What sales and returns ask for is a basket.
LEMMA BasketLemma ==
    ASSUME NEW req \in Requests \cup {Blank}, req.op \in Sales \cup {"RETURN"}
    PROVE  /\ req.lines \in Baskets /\ req.order \in Orders
           /\ req.op = "RETURN" => req.accept \in BOOLEAN
<1>1. req # Blank
  BY DEF Blank, Sales
<1>2. CASE req \in [op : Sales, order : Orders, ret : {"NONE"}, lines : Baskets,
                    next : {"NONE"}, accept : {FALSE}]
  BY <1>2 DEF Sales
<1>3. CASE req \in [op : {"RETURN"}, order : Orders, ret : {"NONE"}, lines : Baskets,
                    next : {"NONE"}, accept : BOOLEAN]
  BY <1>3
<1>4. req \in [op : {"COMPLETE", "CANCEL"}, order : Orders, ret : {"NONE"},
               lines : {Nothing}, next : {"NONE"}, accept : {FALSE}]
         => req.op \in {"COMPLETE", "CANCEL"}
  OBVIOUS
<1>5. req \in [op : {"STATUS"}, order : Orders, ret : {"NONE"}, lines : {Nothing},
               next : Targets, accept : {FALSE}] => req.op = "STATUS"
  OBVIOUS
<1>6. req \in [op : {"ACCEPT", "REJECT"}, order : {"NONE"}, ret : Returns,
               lines : {Nothing}, next : {"NONE"}, accept : {FALSE}]
         => req.op \in {"ACCEPT", "REJECT"}
  OBVIOUS
<1> QED BY <1>1, <1>2, <1>3, <1>4, <1>5, <1>6 DEF Requests, Sales

\* Nothing but the given tables changes for Store.
LEMMA OthersTogether ==
    ASSUME IInv, Alone, NEW p \in Clients, Commit(p)
    PROVE  /\ OrdersAsWere => Snapshot(orders') = Snapshot(orders)
           /\ ReturnsAsWere => Snapshot(returns') = Snapshot(returns)
           /\ StockAsWas => Snapshot(inventory') = Snapshot(inventory)
BY CommitPublishes DEF OrdersAsWere, ReturnsAsWere, StockAsWas

\* A committed sale or ticket is a request of Store.
LEMMA EnteredTogether ==
    ASSUME IInv, Alone, NEW p \in Clients, Commit(p), Op(p) \in Sales
    PROVE  Serial!Next
<1> DEFINE req == client[p].req
           o   == req.order
<1>1. Under(p) /\ client[p].pc = "commit"
  BY DEF Commit, Under, At
<1>2. Entering(p)
  BY <1>1 DEF Alone, Progress
<1>3. /\ ReturnsAsWere /\ orders[o].com = NoOrder /\ OrderNow(o, Entered(req))
      /\ req.op = "OPEN" => StockAsWas
      /\ req.op # "OPEN" => StockMoved(req.lines, {}, "SALE", OrderRef(o))
  BY <1>1, <1>2 DEF Entering
<1>4. req.lines \in Baskets /\ o \in Orders
  BY SeeLemma, BasketLemma DEF Op, Client
<1>5. /\ Snapshot(orders') = [Snapshot(orders) EXCEPT ![o] = Entered(req)]
      /\ Snapshot(orders)[o].status = "NONE"
  BY <1>3, <1>4, OrderTogether DEF NoOrder
<1>6. Snapshot(returns') = Snapshot(returns)
  BY <1>3, OthersTogether
<1>7. CASE req.op = "OPEN"
  <2>1. Entered(req) = [status |-> "PENDING", pay |-> "UNPAID", committed |-> FALSE,
                        source |-> "POS", items |-> req.lines]
    BY <1>7 DEF Entered
  <2>2. Serial!Insert(o, "POS", "PENDING", "UNPAID", FALSE, req.lines)
    BY <1>5, <1>6, <2>1 DEF Serial!Insert
  <2>3. Snapshot(inventory') = Snapshot(inventory)
    BY <1>3, <1>7, OthersTogether
  <2>4. Serial!OpenTicket(o, req.lines)
    BY <2>2, <2>3 DEF Serial!OpenTicket
  <2> QED BY <1>4, <2>4 DEF Serial!Next, Serial!OrderStep
<1>8. CASE req.op # "OPEN"
  <2>1. Serial!Move(req.lines, "SALE", OrderRef(o))
    BY <1>3, <1>8, MovedTogether
  <2>2. Serial!Move(req.lines, "SALE", Serial!OrderRef(o))
    BY <2>1, SerialStock
  <2>3. CASE req.op = "SELL"
    <3>1. Entered(req) = [status |-> "COMPLETED", pay |-> "PAID", committed |-> TRUE,
                          source |-> "POS", items |-> req.lines]
      BY <2>3 DEF Entered
    <3>2. Serial!Insert(o, "POS", "COMPLETED", "PAID", TRUE, req.lines)
      BY <1>5, <1>6, <3>1 DEF Serial!Insert
    <3>3. Serial!SellNow(o, req.lines)
      BY <2>2, <3>2 DEF Serial!SellNow
    <3> QED BY <1>4, <3>3 DEF Serial!Next, Serial!OrderStep
  <2>4. CASE req.op = "CHECKOUT"
    <3>1. Entered(req) = [status |-> "PENDING", pay |-> "UNPAID", committed |-> TRUE,
                          source |-> "ONLINE", items |-> req.lines]
      BY <2>4 DEF Entered
    <3>2. Serial!Insert(o, "ONLINE", "PENDING", "UNPAID", TRUE, req.lines)
      BY <1>5, <1>6, <3>1 DEF Serial!Insert
    <3>3. Serial!CheckOut(o, req.lines)
      BY <2>2, <3>2 DEF Serial!CheckOut
    <3> QED BY <1>4, <3>3 DEF Serial!Next, Serial!OrderStep
  <2> QED BY <1>8, <2>3, <2>4 DEF Op, Sales
<1> QED BY <1>7, <1>8

\* The columns of an order that a commit rewrites, as one UPDATE.
LEMMA WriteTogether ==
    ASSUME IInv, Alone, NEW p \in Clients, Commit(p), NEW o \in Orders, NEW s, NEW y, NEW f,
           ReturnsAsWere,
           OrderNow(o, [status |-> s, pay |-> y, committed |-> f,
                        source |-> orders[o].com.source, items |-> orders[o].com.items])
    PROVE  Serial!Write(o, s, y, f)
<1> DEFINE was == orders[o].com
           row == [status |-> s, pay |-> y, committed |-> f,
                   source |-> was.source, items |-> was.items]
           O   == Snapshot(orders)
           one == [was EXCEPT !.status = s]
           two == [one EXCEPT !.pay = y]
           all == [two EXCEPT !.committed = f]
<1>1. was \in OrderRows
  BY DEF IInv, TypeOK, Cells
<1>2. one = [status |-> s, pay |-> was.pay, committed |-> was.committed,
             source |-> was.source, items |-> was.items]
  BY <1>1 DEF OrderRows
<1> HIDE DEF one
<1>3. two = [status |-> s, pay |-> y, committed |-> was.committed,
             source |-> was.source, items |-> was.items]
  BY <1>2
<1> HIDE DEF two
<1>4. all = row
  BY <1>3
<1>5. [was EXCEPT !.status = s, !.pay = y, !.committed = f] = all
  BY DEF all, two, one
<1>6. Snapshot(orders') = [O EXCEPT ![o] = row] /\ O[o] = was
  BY OrderTogether
<1> HIDE DEF O, was, all, row
<1>7. [O EXCEPT ![o] = [@ EXCEPT !.status = s, !.pay = y, !.committed = f]] = [O EXCEPT ![o] = row]
  BY <1>4, <1>5, <1>6
<1>8. Snapshot(returns') = Snapshot(returns)
  BY OthersTogether
<1> QED BY <1>6, <1>7, <1>8 DEF Serial!Write, O

\* A committed change of an order's status is a request of Store.
LEMMA ChangedTogether ==
    ASSUME IInv, Alone, NEW p \in Clients, Commit(p), Op(p) \in {"COMPLETE", "STATUS", "CANCEL"}
    PROVE  Serial!Next
<1> DEFINE c   == client[p]
           req == c.req
           o   == req.order
           was == orders[o].com
           O   == Snapshot(orders)
<1>1. Under(p) /\ c.pc = "commit"
  BY DEF Commit, Under, At
<1>2. /\ Changing(p) /\ o \in Orders /\ was \in OrderRows
      /\ req.op = "STATUS" => req.next \in Targets
      /\ req.op # "STATUS" => req.next = "NONE"
  BY <1>1, ChangingLemma
<1>3. /\ Legal(req, was) /\ OrderNow(o, RowNow(c, was)) /\ ReturnsAsWere
      /\ Gives(req) =>
            \A r \in Returns : returns[r].com.order = o => returns[r].com.status \notin OpenReturn
      /\ IF FlagNow(c, was) = was.committed THEN StockAsWas
         ELSE IF was.committed
         THEN StockMoved(was.items, {}, "ADJUSTMENT_IN", CancelRef(o))
         ELSE StockMoved(was.items, {}, "SALE", OrderRef(o))
  BY <1>1, <1>2 DEF Changing
<1>4. O[o] = was /\ was.committed \in BOOLEAN
  BY <1>2, CommitPublishes DEF OrderRows
<1> HIDE DEF O
<1>5. ASSUME NEW s, NEW y, NEW f, StatusNow(c, was) = s, PayNow(c, was) = y, FlagNow(c, was) = f
      PROVE  Serial!Write(o, s, y, f)
  BY <1>2, <1>3, <1>5, WriteTogether DEF RowNow
<1>6. Takes(req) => FlagNow(c, was) = TRUE /\ Serial!CommitStock(o)
  <2> SUFFICES ASSUME Takes(req)
               PROVE  FlagNow(c, was) = TRUE /\ Serial!CommitStock(o)
    OBVIOUS
  <2>1. FlagNow(c, was) = TRUE
    BY <1>1 DEF FlagNow, Takes, Gives
  <2>2. CASE was.committed
    <3>1. Snapshot(inventory') = Snapshot(inventory)
      BY <1>3, <1>4, <2>1, <2>2, OthersTogether
    <3> QED BY <1>4, <2>1, <2>2, <3>1 DEF Serial!CommitStock, O
  <2>3. CASE ~was.committed
    <3>1. Serial!Move(was.items, "SALE", Serial!OrderRef(o))
      BY <1>3, <2>1, <2>3, MovedTogether, SerialStock
    <3> QED BY <1>4, <2>1, <2>3, <3>1 DEF Serial!CommitStock, O
  <2> QED BY <1>4, <2>2, <2>3
<1>7. Gives(req) => FlagNow(c, was) = FALSE /\ Serial!ReleaseStock(o)
  <2> SUFFICES ASSUME Gives(req)
               PROVE  FlagNow(c, was) = FALSE /\ Serial!ReleaseStock(o)
    OBVIOUS
  <2>1. FlagNow(c, was) = FALSE
    BY <1>1 DEF FlagNow, Takes, Gives
  <2>2. CASE ~was.committed
    <3>1. Snapshot(inventory') = Snapshot(inventory)
      BY <1>3, <1>4, <2>1, <2>2, OthersTogether
    <3> QED BY <1>4, <2>1, <2>2, <3>1 DEF Serial!ReleaseStock, O
  <2>3. CASE was.committed
    <3>1. Serial!Move(was.items, "ADJUSTMENT_IN", Serial!CancelRef(o))
      BY <1>3, <2>1, <2>3, MovedTogether, SerialStock
    <3> QED BY <1>4, <2>1, <2>3, <3>1 DEF Serial!ReleaseStock, O
  <2> QED BY <1>4, <2>2, <2>3
<1>8. /\ req.op = "COMPLETE" => StatusNow(c, was) = "COMPLETED" /\ PayNow(c, was) = "PAID"
      /\ req.op # "COMPLETE" => /\ StatusNow(c, was) = Target(req)
                                /\ PayNow(c, was) = PaidAfter(was.pay, Target(req))
  BY <1>1 DEF StatusNow, PayNow
<1>9. CASE req.op = "COMPLETE"
  <2>1. /\ was.source = "POS" /\ was.status \notin {"NONE", "COMPLETED"}
        /\ MayMove(was.status, "COMPLETED") /\ Takes(req)
    BY <1>3, <1>9 DEF Legal, Takes
  <2>2. Serial!Write(o, "COMPLETED", "PAID", TRUE) /\ Serial!CommitStock(o)
    BY <1>5, <1>6, <1>8, <1>9, <2>1
  <2>3. Serial!Complete(o)
    BY <1>4, <2>1, <2>2, SerialTables DEF Serial!Complete, O
  <2> QED BY <1>2, <2>3 DEF Serial!Next, Serial!OrderStep
<1>10. CASE Gives(req)
  <2>1. Target(req) = "CANCELLED" /\ req.op # "COMPLETE"
    BY <1>10 DEF Target, Gives
  <2>2. was.status \in Cancellable /\ MayMove(was.status, "CANCELLED")
    <3>1. CASE req.op = "CANCEL"
      BY <1>2, <1>3, <3>1 DEF Legal
    <3>2. CASE req.op = "STATUS"
      <4>1. was.status # "NONE" /\ "CANCELLED" \in Transitions[was.status]
        BY <1>3, <1>10, <3>2 DEF Legal, Gives
      <4>2. was.status \in OrderStatuses \cup {"NONE"}
        BY <1>2 DEF OrderRows
      <4> QED BY <4>1, <4>2 DEF Transitions, OrderStatuses, Cancellable, MayMove
    <3> QED BY <1>10, <3>1, <3>2 DEF Gives
  <2>3. ~Serial!HasOpenReturns(o)
    <3>1. \A r \in Returns : Snapshot(returns)[r] = returns[r].com
      BY CommitPublishes
    <3> QED BY <1>3, <1>10, <3>1, SerialTables DEF Serial!HasOpenReturns
  <2>4. PayNow(c, was) = IF was.pay = "PAID" THEN "REFUNDED" ELSE was.pay
    BY <1>8, <2>1 DEF PaidAfter
  <2>5. Serial!Write(o, "CANCELLED", IF was.pay = "PAID" THEN "REFUNDED" ELSE was.pay, FALSE)
    BY <1>5, <1>7, <1>8, <1>10, <2>1, <2>4
  <2>6. Serial!ReleaseStock(o)
    BY <1>7, <1>10
  <2>7. Serial!Cancel(o)
    BY <1>4, <2>2, <2>3, <2>5, <2>6, SerialTables DEF Serial!Cancel, O
  <2> QED BY <1>2, <2>7 DEF Serial!Next, Serial!OrderStep
<1>11. CASE req.op = "STATUS" /\ req.next \in {"CONFIRMED", "PAID", "COMPLETED"}
  <2>1. was.status # "NONE" /\ req.next \in Transitions[was.status] /\ Takes(req)
    BY <1>3, <1>11 DEF Legal, Takes
  <2>2. Target(req) = req.next
    BY <1>11 DEF Target
  <2>3. PayNow(c, was) = Serial!PayAfter(was.pay, req.next)
    BY <1>8, <1>11, <2>2 DEF PaidAfter, Serial!PayAfter
  <2>4. Serial!Write(o, req.next, Serial!PayAfter(was.pay, req.next), TRUE)
    BY <1>5, <1>6, <1>8, <1>11, <2>1, <2>2, <2>3
  <2>5. Serial!CommitStock(o)
    BY <1>6, <2>1
  <2>6. Serial!Advance(o, req.next)
    <3> DEFINE next == req.next
    <3>1. /\ O[o].status # "NONE" /\ next \in Serial!Transitions[O[o].status]
          /\ Serial!Write(o, next, Serial!PayAfter(O[o].pay, next), TRUE)
      <4> HIDE DEF next, was, o
      <4>1. O[o] = was /\ Serial!Transitions = Transitions
        BY <1>4, SerialTables
      <4>2. was.status # "NONE" /\ next \in Transitions[was.status]
        BY <2>1 DEF next
      <4>3. Serial!Write(o, next, Serial!PayAfter(was.pay, next), TRUE)
        BY <2>4 DEF next
      <4> QED BY <4>1, <4>2, <4>3
    <3> HIDE DEF next, was, o
    <3>2. Serial!Advance(o, next)
      BY <2>5, <3>1 DEF Serial!Advance, O
    <3> QED BY <3>2 DEF next
  <2> QED BY <1>2, <1>11, <2>6 DEF Serial!Next, Serial!OrderStep
<1>12. CASE req.op = "STATUS" /\ req.next = "REFUNDED"
  <2>1. was.status # "NONE" /\ "REFUNDED" \in Transitions[was.status]
    BY <1>3, <1>12 DEF Legal
  <2>2. Target(req) = "REFUNDED" /\ FlagNow(c, was) = was.committed
    BY <1>12 DEF Target, FlagNow, Takes, Gives
  <2>3. Serial!Write(o, "REFUNDED", "REFUNDED", was.committed)
    BY <1>5, <1>8, <1>12, <2>2 DEF PaidAfter
  <2>4. Snapshot(inventory') = Snapshot(inventory)
    BY <1>3, <2>2, OthersTogether
  <2>5. Serial!Refund(o)
    BY <1>4, <2>1, <2>3, <2>4, SerialTables DEF Serial!Refund, O
  <2> QED BY <1>2, <2>5 DEF Serial!Next, Serial!OrderStep
<1> QED BY <1>2, <1>9, <1>10, <1>11, <1>12 DEF Targets, Gives, Op

\* Store adds up with the same operator.
LEMMA SerialSum ==
    ASSUME NEW f, NEW S
    PROVE  Serial!SumFunctionOnSet(f, S) = SumFunctionOnSet(f, S)
<1>1. Serial!SumFunctionOnSet(f, S) = (CHOOSE g : Unfolded(f, g, S))[S]
  BY DEF Serial!SumFunctionOnSet, Serial!FoldFunctionOnSet, Serial!MapThenFoldSet, Unfolded, NextTaken
<1> QED BY <1>1, SumDef

\* What has been returned of a line is what the committed returns say.
LEMMA SerialReturned ==
    ASSUME \A r \in Returns : Snapshot(returns)[r] = returns[r].com, NEW o, NEW v
    PROVE  Serial!AlreadyReturned(o, v) = Returned(returns, o, v)
<1> DEFINE R == Snapshot(returns)
           P == {r \in Returns : R[r].order = o /\ R[r].variant = v /\ R[r].status \in OpenReturn}
           Q == {r \in Returns : /\ returns[r].com.order = o
                                 /\ returns[r].com.variant = v
                                 /\ returns[r].com.status \in OpenReturn}
           f == [r \in Returns |-> R[r].qty]
           g == [r \in Returns |-> returns[r].com.qty]
<1>1. Serial!AlreadyReturned(o, v) = SumFunctionOnSet(f, P)
  BY SerialTables, SerialSum DEF Serial!AlreadyReturned
<1>2. Returned(returns, o, v) = SumFunctionOnSet(g, Q)
  BY DEF Returned
<1>3. P = Q /\ f = g
  OBVIOUS
<1> HIDE DEF P, Q, f, g
<1> QED BY <1>1, <1>2, <1>3

\* A committed request for a return is a request of Store.
LEMMA TakenTogether ==
    ASSUME IInv, Alone, NEW p \in Clients, Commit(p), Op(p) = "RETURN"
    PROVE  Serial!Next
<1> DEFINE c     == client[p]
           req   == c.req
           o     == req.order
           lines == req.lines
           was   == orders[o].com
           asked == {v \in Variants : lines[v] > 0}
           O     == Snapshot(orders)
           R     == Snapshot(returns)
           S     == Snapshot(inventory)
           free  == {r \in Returns : R[r].status = "NONE"}
<1>1. Under(p) /\ c.pc = "commit"
  BY DEF Commit, Under, At
<1>2. lines \in Baskets /\ o \in Orders /\ req.accept \in BOOLEAN
  BY SeeLemma, BasketLemma DEF Op, Client
<1>3. TakingBack(p)
  BY <1>1 DEF Alone, Progress
<1>4. OrdersAsWere /\ was.status \in Returnable /\ c.todo = {} /\ Filing(c) = asked
  BY <1>1, <1>3 DEF TakingBack, Filing, Asked
<1>5. PICK row \in [asked -> Returns] :
        LinesNow(returns, was.items, req, row) /\ CreditsNow(inventory, req, row, {})
  BY <1>1, <1>3, <1>4 DEF TakingBack
<1>6. /\ O = [x \in Orders |-> orders[x].com] /\ R = [r \in Returns |-> returns[r].com]
      /\ S = [v \in Variants |-> inventory[v].com]
      /\ Snapshot(returns') = [r \in Returns |-> returns[r].live]
      /\ Snapshot(inventory') = [v \in Variants |-> inventory[v].live]
  BY CommitPublishes
<1>7. Snapshot(orders') = O
  BY <1>4, OthersTogether
<1>8. DOMAIN row = asked /\ O[o] = was
  BY <1>2, <1>5, <1>6
<1>9. row \in [asked -> free] /\ \A v, w \in asked : row[v] = row[w] => v = w
  BY <1>5, <1>6, <1>8 DEF LinesNow, NoReturn
<1>10. \A v \in asked : was.items[v] > 0 /\ lines[v] <= was.items[v] - Serial!AlreadyReturned(o, v)
  <2>1. \A r \in Returns : R[r] = returns[r].com
    BY <1>6
  <2>2. \A v \in asked : Fits(returns, was.items, req, v)
    BY <1>5, <1>8 DEF LinesNow
  <2>3. \A v : Serial!AlreadyReturned(o, v) = Returned(returns, o, v)
    BY <2>1, SerialReturned
  <2> HIDE DEF asked, was
  <2> QED BY <2>2, <2>3 DEF Fits
<1>11. Snapshot(returns') = [r \in Returns |->
           IF \E v \in asked : row[v] = r
           THEN LET v == CHOOSE v \in asked : row[v] = r
                IN  [status |-> IF req.accept THEN "ACCEPTED" ELSE "REQUESTED",
                     order |-> o, variant |-> v, qty |-> lines[v]]
           ELSE R[r]]
  <2> DEFINE the(r) == CHOOSE v \in asked : row[v] = r
             new(r) == IF \E v \in asked : row[v] = r
                       THEN [status |-> IF req.accept THEN "ACCEPTED" ELSE "REQUESTED",
                             order |-> o, variant |-> the(r), qty |-> lines[the(r)]]
                       ELSE R[r]
  <2>1. ASSUME NEW r \in Returns, NEW v \in asked, row[v] = r
        PROVE  returns[r].live = new(r)
    <3>1. the(r) \in asked /\ row[the(r)] = r
      BY <2>1
    <3>2. the(r) = v
      BY <1>9, <2>1, <3>1
    <3>3. returns[r].live = Filed(req, v)
      BY <1>5, <1>8, <2>1 DEF LinesNow
    <3> HIDE DEF the, asked
    <3> QED BY <2>1, <3>2, <3>3 DEF Filed
  <2>2. ASSUME NEW r \in Returns, \A v \in asked : row[v] # r
        PROVE  returns[r].live = new(r)
    <3>1. returns[r].live = returns[r].com
      BY <1>5, <1>8, <2>2 DEF LinesNow
    <3> QED BY <1>6, <2>2, <3>1
  <2>3. \A r \in Returns : returns[r].live = new(r)
    <3> HIDE DEF new
    <3> QED BY <2>1, <2>2
  <2>4. Snapshot(returns') = [r \in Returns |-> new(r)]
    <3> HIDE DEF new
    <3> QED BY <1>6, <2>3
  <2> QED BY <2>4
<1>12. Snapshot(inventory') = [v \in Variants |->
           IF req.accept /\ v \in asked
           THEN Serial!Applied(S[v], "RETURN", lines[v], Serial!ReturnRef(row[v]))
           ELSE S[v]]
  <2>1. \A v \in Variants :
          inventory[v].live = IF req.accept /\ v \in asked
                              THEN Serial!Applied(inventory[v].com, "RETURN", lines[v],
                                                  Serial!ReturnRef(row[v]))
                              ELSE inventory[v].com
    BY <1>5, <1>8, SerialStock DEF CreditsNow
  <2> HIDE DEF asked
  <2> QED BY <1>6, <2>1
<1>13. Serial!CreateReturn(o, lines, req.accept)
  <2> HIDE DEF O, R, S, was, o, lines
  <2>1. O[o].status \in Serial!Returnable
    BY <1>4, <1>8, SerialTables
  <2>2. \A v \in asked : O[o].items[v] > 0 /\ lines[v] <= Serial!Eligible(o, v)
    BY <1>8, <1>10 DEF Serial!Eligible, O
  <2> HIDE DEF asked, free
  <2>3. \E row_1 \in [asked -> free] :
          /\ \A v, w \in asked : row_1[v] = row_1[w] => v = w
          /\ Snapshot(returns') = [r \in Returns |->
               IF \E v \in asked : row_1[v] = r
               THEN LET v == CHOOSE v \in asked : row_1[v] = r
                    IN  [status |-> IF req.accept THEN "ACCEPTED" ELSE "REQUESTED",
                         order |-> o, variant |-> v, qty |-> lines[v]]
               ELSE R[r]]
          /\ Snapshot(inventory') = [v \in Variants |->
               IF req.accept /\ v \in asked
               THEN Serial!Applied(S[v], "RETURN", lines[v], Serial!ReturnRef(row_1[v]))
               ELSE S[v]]
    BY <1>9, <1>11, <1>12
  <2> QED BY <1>7, <2>1, <2>2, <2>3 DEF Serial!CreateReturn, O, R, S, asked, free
<1> QED BY <1>2, <1>13 DEF Serial!Next, Serial!OrderStep

\* A committed decision about a return is a request of Store.
LEMMA SettledTogether ==
    ASSUME IInv, Alone, NEW p \in Clients, Commit(p), Op(p) \in {"ACCEPT", "REJECT"}
    PROVE  Serial!Next
<1> DEFINE c   == client[p]
           r   == c.req.ret
           was == returns[r].com
           s   == IF c.req.op = "ACCEPT" THEN "ACCEPTED" ELSE "REJECTED"
           R   == Snapshot(returns)
           S   == Snapshot(inventory)
<1>1. Under(p) /\ c.pc = "commit"
  BY DEF Commit, Under, At
<1>2. Deciding(p) /\ r \in Returns
  BY <1>1, DecidingLemma
<1>3. /\ OrdersAsWere /\ was.status = "REQUESTED"
      /\ \A x \in Returns :
            returns[x].live = IF x = r THEN [was EXCEPT !.status = s] ELSE returns[x].com
      /\ \A v \in Variants :
            inventory[v].live = IF c.req.op = "ACCEPT" /\ v = was.variant
                                THEN Applied(inventory[v].com, "RETURN", was.qty, ReturnRef(r))
                                ELSE inventory[v].com
  BY <1>1, <1>2 DEF Deciding
<1>4. /\ R = [x \in Returns |-> returns[x].com] /\ S = [v \in Variants |-> inventory[v].com]
      /\ Snapshot(returns') = [x \in Returns |-> returns[x].live]
      /\ Snapshot(inventory') = [v \in Variants |-> inventory[v].live]
  BY CommitPublishes
<1>5. Snapshot(orders') = Snapshot(orders)
  BY <1>3, OthersTogether
<1>6. R[r] = was
  BY <1>2, <1>4
<1>7. Snapshot(returns') = [R EXCEPT ![r].status = s]
  <2>1. Snapshot(returns') = [R EXCEPT ![r] = [was EXCEPT !.status = s]]
    <3> DEFINE new == [was EXCEPT !.status = s]
    <3>1. \A x \in Returns : returns[x].live = IF x = r THEN new ELSE returns[x].com
      BY <1>3
    <3> HIDE DEF new, r, R
    <3>2. Snapshot(returns') = [x \in Returns |-> IF x = r THEN new ELSE returns[x].com]
      BY <1>4, <3>1
    <3>3. [R EXCEPT ![r] = new] = [x \in Returns |-> IF x = r THEN new ELSE returns[x].com]
      BY <1>4
    <3> QED BY <3>2, <3>3 DEF new
  <2> HIDE DEF R, was, s
  <2> QED BY <1>6, <2>1
<1>8. CASE c.req.op = "ACCEPT"
  <2>1. Snapshot(inventory') = [S EXCEPT ![was.variant] =
                                  Serial!Applied(@, "RETURN", was.qty, Serial!ReturnRef(r))]
    <3>1. \A v \in Variants :
            inventory[v].live = IF v = was.variant
                                THEN Serial!Applied(inventory[v].com, "RETURN", was.qty,
                                                    Serial!ReturnRef(r))
                                ELSE inventory[v].com
      BY <1>3, <1>8, SerialStock
    <3> HIDE DEF was
    <3> QED BY <1>4, <3>1
  <2>2. Serial!AcceptReturn(r)
    <3>1. s = "ACCEPTED"
      BY <1>8
    <3> HIDE DEF R, S, was, s, r
    <3>2. R[r].status = "REQUESTED"
      BY <1>3, <1>6
    <3>3. Snapshot(inventory') = [S EXCEPT ![R[r].variant] =
                                    Serial!Applied(@, "RETURN", R[r].qty, Serial!ReturnRef(r))]
      BY <1>6, <2>1
    <3>4. Snapshot(returns') = [R EXCEPT ![r].status = "ACCEPTED"]
      BY <1>7, <3>1
    <3> QED BY <1>5, <3>2, <3>3, <3>4 DEF Serial!AcceptReturn, R, S
  <2> QED BY <1>2, <2>2 DEF Serial!Next, Serial!ReturnStep
<1>9. CASE c.req.op = "REJECT"
  <2>1. Snapshot(inventory') = S
    BY <1>3, <1>4, <1>9
  <2>2. Serial!RejectReturn(r)
    <3>1. s = "REJECTED"
      BY <1>9
    <3> HIDE DEF R, S, was, s, r
    <3>2. R[r].status = "REQUESTED"
      BY <1>3, <1>6
    <3>3. Snapshot(returns') = [R EXCEPT ![r].status = "REJECTED"]
      BY <1>7, <3>1
    <3> QED BY <1>5, <2>1, <3>2, <3>3 DEF Serial!RejectReturn, R, S
  <2> QED BY <1>2, <2>2 DEF Serial!Next, Serial!ReturnStep
<1> QED BY <1>8, <1>9 DEF Op

\* Until a transaction commits nobody sees anything of it.
LEMMA OthersShowNothing ==
    ASSUME IInv, NEW p \in Clients, Step(p), ~Commit(p)
    PROVE  /\ Snapshot(inventory') = Snapshot(inventory)
           /\ Snapshot(orders') = Snapshot(orders)
           /\ Snapshot(returns') = Snapshot(returns)
<1>1. IInv'
  BY StepIInv DEF Next
<1>2. /\ DOMAIN orders = Orders /\ DOMAIN orders' = Orders
      /\ DOMAIN returns = Returns /\ DOMAIN returns' = Returns
  BY <1>1 DEF IInv, TypeOK
<1>3. /\ \A o \in Orders : orders'[o].com = orders[o].com
      /\ \A r \in Returns : returns'[r].com = returns[r].com
  BY OthersSettleNothing, OthersDecideNothing
<1> QED BY <1>2, <1>3, OthersMoveNothing DEF Snapshot

\* Only one transaction is ever under way.
LEMMA AlwaysAlone ==
    ASSUME Serialised
    PROVE  Spec => []Alone
<1>1. Init => Alone
  BY InitAlone
<1>2. IInv /\ Alone /\ [Next]_vars => Alone'
  BY StepAlone
<1> QED BY <1>1, <1>2, Invariant, PTL DEF Spec

\* Transactions that do not overlap are the atomic requests of Store: each
\* commit is one, and nothing else shows.
THEOREM SerialRefinesStore ==
    ASSUME Serialised
    PROVE  Spec => SerialRunsAreAtomic
<1> DEFINE Shown == <<Snapshot(inventory), Snapshot(orders), Snapshot(returns)>>
<1>1. Init => Serial!Init
  <2> SUFFICES ASSUME Init
               PROVE  Serial!Init
    OBVIOUS
  <2>1. \A row : Cell(row).com = row
    BY DEF Cell
  <2>2. /\ Snapshot(inventory) = [v \in Variants |-> Opened(v)]
        /\ Snapshot(orders) = [o \in Orders |-> NoOrder]
        /\ Snapshot(returns) = [r \in Returns |-> NoReturn]
    BY <2>1 DEF Init, Snapshot
  <2>3. Serial!NoPurchase = NoPurchase
    BY DEF Serial!NoPurchase, NoPurchase, Serial!Nothing, Nothing
  <2>4. Serial!LedgerInit
    BY <2>2, SerialStock DEF Serial!LedgerInit
  <2> QED BY <2>2, <2>3, <2>4, SerialTables DEF Serial!Init
<1>2. IInv /\ Alone /\ [Next]_vars => [Serial!Next]_(Serial!vars)
  <2> SUFFICES ASSUME IInv, Alone, [Next]_vars
               PROVE  Serial!Next \/ UNCHANGED Serial!vars
    OBVIOUS
  <2>1. CASE UNCHANGED vars
    BY <2>1 DEF vars, Serial!vars, Snapshot
  <2>2. ASSUME NEW p \in Clients, Commit(p)
        PROVE  Serial!Next
    <3>1. Under(p)
      BY <2>2 DEF Commit, Under, At
    <3>2. Op(p) \in Sales \cup {"COMPLETE", "STATUS", "CANCEL", "RETURN", "ACCEPT", "REJECT"}
      BY <3>1, LabelLemma
    <3> QED BY <2>2, <3>2, EnteredTogether, ChangedTogether, TakenTogether, SettledTogether
  <2>3. ASSUME NEW p \in Clients, Step(p), ~Commit(p)
        PROVE  UNCHANGED Serial!vars
    BY <2>3, OthersShowNothing DEF Serial!vars, Snapshot
  <2> QED BY <2>1, <2>2, <2>3 DEF Next
<1> QED BY <1>1, <1>2, AlwaysAlone, Invariant, PTL DEF Spec, SerialRunsAreAtomic, Serial!Spec

-----------------------------------------------------------------------------
\* The promises that overlapping requests break (README, sections 7 and 8) are
\* kept when they do not overlap.

\* Store's machine over the committed tables again, with what is proved of it.
Promised == INSTANCE Store_proofs WITH
            inventory <- Snapshot(inventory), orders <- Snapshot(orders),
            returns <- Snapshot(returns), purchases <- [p \in Purchases |-> NoPurchase],
            adjustments <- 0, Amounts <- {}, MaxAdjustments <- 0

\* Sums in the promise are sums.
LEMMA PromisedSum ==
    ASSUME NEW f, NEW S
    PROVE  Promised!SumFunctionOnSet(f, S) = SumFunctionOnSet(f, S)
<1>1. Promised!SumFunctionOnSet(f, S) = (CHOOSE g : Unfolded(f, g, S))[S]
  BY DEF Promised!SumFunctionOnSet, Promised!FoldFunctionOnSet, Promised!MapThenFoldSet,
         Unfolded, NextTaken
<1> QED BY <1>1, SumDef

\* What has been returned of a line is the same.
LEMMA SameReturned ==
    ASSUME NEW o, NEW v
    PROVE  Serial!AlreadyReturned(o, v) = Promised!AlreadyReturned(o, v)
BY SerialSum, PromisedSum
   DEF Serial!AlreadyReturned, Promised!AlreadyReturned, Serial!OpenReturn,
       Promised!OpenReturn

\* The serial machine and the one the promise is proved of are the same: one
\* step per operator, from the helpers up.
LEMMA SameNext == Serial!Next <=> Promised!Next
<1>1. Serial!Inbound = Promised!Inbound
  BY DEF Serial!Inbound, Promised!Inbound
<1>2. Serial!Transitions = Promised!Transitions
  BY DEF Serial!Transitions, Promised!Transitions
<1>3. Serial!Cancellable = Promised!Cancellable
  BY DEF Serial!Cancellable, Promised!Cancellable
<1>4. Serial!Returnable = Promised!Returnable
  BY DEF Serial!Returnable, Promised!Returnable
<1>5. Serial!OpenReturn = Promised!OpenReturn
  BY DEF Serial!OpenReturn, Promised!OpenReturn
<1>6. \A from, to : Serial!MayMove(from, to) <=> Promised!MayMove(from, to)
  BY <1>2 DEF Serial!MayMove, Promised!MayMove
<1>7. \A type, quantity : Serial!Signed(type, quantity) = Promised!Signed(type, quantity)
  BY <1>1 DEF Serial!Signed, Promised!Signed
<1>8. Serial!Manual = Promised!Manual
  BY DEF Serial!Manual, Promised!Manual
<1>9. \A row, type, q : Serial!Accepts(row, type, q) <=> Promised!Accepts(row, type, q)
  BY <1>7 DEF Serial!Accepts, Promised!Accepts
<1>10. \A row, type, q, ref :
          Serial!Applied(row, type, q, ref) = Promised!Applied(row, type, q, ref)
  BY <1>7 DEF Serial!Applied, Promised!Applied
<1>11. \A d : Serial!Magnitude(d) = Promised!Magnitude(d)
  BY DEF Serial!Magnitude, Promised!Magnitude
<1>12. \A o : Serial!OrderRef(o) = Promised!OrderRef(o)
  BY DEF Serial!OrderRef, Promised!OrderRef
<1>13. \A o : Serial!CancelRef(o) = Promised!CancelRef(o)
  BY DEF Serial!CancelRef, Promised!CancelRef
<1>14. \A r : Serial!ReturnRef(r) = Promised!ReturnRef(r)
  BY DEF Serial!ReturnRef, Promised!ReturnRef
<1>15. \A p : Serial!PurchaseRef(p) = Promised!PurchaseRef(p)
  BY DEF Serial!PurchaseRef, Promised!PurchaseRef
<1>16. \A lines, type, ref :
          Serial!Move(lines, type, ref) <=> Promised!Move(lines, type, ref)
  BY <1>9, <1>10 DEF Serial!Move, Promised!Move
<1>17. \A o : Serial!CommitStock(o) <=> Promised!CommitStock(o)
  BY <1>12, <1>16 DEF Serial!CommitStock, Promised!CommitStock
<1>18. \A o : Serial!ReleaseStock(o) <=> Promised!ReleaseStock(o)
  BY <1>13, <1>16 DEF Serial!ReleaseStock, Promised!ReleaseStock
<1>19. \A o, source, status, pay, committed, items :
          Serial!Insert(o, source, status, pay, committed, items)
          <=> Promised!Insert(o, source, status, pay, committed, items)
  BY DEF Serial!Insert, Promised!Insert
<1>20. \A o, items : Serial!OpenTicket(o, items) <=> Promised!OpenTicket(o, items)
  BY <1>19 DEF Serial!OpenTicket, Promised!OpenTicket
<1>21. \A o, items : Serial!SellNow(o, items) <=> Promised!SellNow(o, items)
  BY <1>12, <1>16, <1>19 DEF Serial!SellNow, Promised!SellNow
<1>22. \A o, items : Serial!CheckOut(o, items) <=> Promised!CheckOut(o, items)
  BY <1>12, <1>16, <1>19 DEF Serial!CheckOut, Promised!CheckOut
<1>23. \A o, status, pay, committed :
          Serial!Write(o, status, pay, committed)
          <=> Promised!Write(o, status, pay, committed)
  BY DEF Serial!Write, Promised!Write
<1>24. \A o : Serial!Complete(o) <=> Promised!Complete(o)
  BY <1>6, <1>17, <1>23 DEF Serial!Complete, Promised!Complete
<1>25. \A pay, next : Serial!PayAfter(pay, next) = Promised!PayAfter(pay, next)
  BY DEF Serial!PayAfter, Promised!PayAfter
<1>26. \A o, next : Serial!Advance(o, next) <=> Promised!Advance(o, next)
  BY <1>2, <1>17, <1>23, <1>25 DEF Serial!Advance, Promised!Advance
<1>27. \A o : Serial!Refund(o) <=> Promised!Refund(o)
  BY <1>2, <1>23 DEF Serial!Refund, Promised!Refund
<1>28. \A o : Serial!HasOpenReturns(o) <=> Promised!HasOpenReturns(o)
  BY <1>5 DEF Serial!HasOpenReturns, Promised!HasOpenReturns
<1>29. \A o : Serial!Cancel(o) <=> Promised!Cancel(o)
  BY <1>3, <1>6, <1>18, <1>23, <1>28 DEF Serial!Cancel, Promised!Cancel
<1>30. \A o, v : Serial!AlreadyReturned(o, v) = Promised!AlreadyReturned(o, v)
  BY SameReturned
<1>31. \A o, v : Serial!Eligible(o, v) = Promised!Eligible(o, v)
  BY <1>30 DEF Serial!Eligible, Promised!Eligible
<1>32. \A o, lines, accept :
          Serial!CreateReturn(o, lines, accept) <=> Promised!CreateReturn(o, lines, accept)
  <2> SUFFICES ASSUME NEW o, NEW lines, NEW accept
               PROVE  Serial!CreateReturn(o, lines, accept)
                      <=> Promised!CreateReturn(o, lines, accept)
    OBVIOUS
  <2> DEFINE O == Snapshot(orders)
             R == Snapshot(returns)
             S == Snapshot(inventory)
             asked == {v \in Variants : lines[v] > 0}
             free == {r \in Returns : R[r].status = "NONE"}
             filed(row) ==
                 /\ \A v, w \in asked : row[v] = row[w] => v = w
                 /\ Snapshot(returns)' = [r \in Returns |->
                      IF \E v \in asked : row[v] = r
                      THEN LET v == CHOOSE v \in asked : row[v] = r
                           IN  [status |-> IF accept THEN "ACCEPTED" ELSE "REQUESTED",
                                order |-> o, variant |-> v, qty |-> lines[v]]
                      ELSE R[r]]
             same == UNCHANGED <<Snapshot(orders), [p \in Purchases |-> NoPurchase], 0>>
             credit(row) == [v \in Variants |->
                      IF accept /\ v \in asked
                      THEN Serial!Applied(S[v], "RETURN", lines[v], Serial!ReturnRef(row[v]))
                      ELSE S[v]]
             credited(row) == [v \in Variants |->
                      IF accept /\ v \in asked
                      THEN Promised!Applied(S[v], "RETURN", lines[v], Promised!ReturnRef(row[v]))
                      ELSE S[v]]
  <2>1. Serial!CreateReturn(o, lines, accept) <=>
          /\ O[o].status \in Serial!Returnable
          /\ \A v \in asked : O[o].items[v] > 0 /\ lines[v] <= Serial!Eligible(o, v)
          /\ \E row \in [asked -> free] : filed(row) /\ Snapshot(inventory)' = credit(row)
          /\ same
    BY Zenon DEF Serial!CreateReturn
  <2>2. Promised!CreateReturn(o, lines, accept) <=>
          /\ O[o].status \in Promised!Returnable
          /\ \A v \in asked : O[o].items[v] > 0 /\ lines[v] <= Promised!Eligible(o, v)
          /\ \E row \in [asked -> free] : filed(row) /\ Snapshot(inventory)' = credited(row)
          /\ same
    BY Zenon DEF Promised!CreateReturn
  <2>3. \A row : credit(row) = credited(row)
    BY <1>10, <1>14
  <2> HIDE DEF asked, free, filed, same, credit, credited
  <2> QED BY <1>4, <1>31, <2>1, <2>2, <2>3
<1>33. \A r : Serial!AcceptReturn(r) <=> Promised!AcceptReturn(r)
  BY <1>10, <1>14 DEF Serial!AcceptReturn, Promised!AcceptReturn
<1>34. \A r : Serial!RejectReturn(r) <=> Promised!RejectReturn(r)
  BY DEF Serial!RejectReturn, Promised!RejectReturn
<1>35. \A p, items, receiveNow :
          Serial!CreatePurchase(p, items, receiveNow)
          <=> Promised!CreatePurchase(p, items, receiveNow)
  BY <1>15, <1>16 DEF Serial!CreatePurchase, Promised!CreatePurchase
<1>36. \A p : Serial!ReceivePurchase(p) <=> Promised!ReceivePurchase(p)
  BY <1>15, <1>16 DEF Serial!ReceivePurchase, Promised!ReceivePurchase
<1>37. \A p : Serial!CancelPurchase(p) <=> Promised!CancelPurchase(p)
  BY DEF Serial!CancelPurchase, Promised!CancelPurchase
<1>38. \A v, type, q : Serial!ManualMove(v, type, q) <=> Promised!ManualMove(v, type, q)
  BY <1>8, <1>9, <1>10 DEF Serial!ManualMove, Promised!ManualMove
<1>39. \A v, type, q : Serial!Adjust(v, type, q) <=> Promised!Adjust(v, type, q)
  BY <1>38 DEF Serial!Adjust, Promised!Adjust
<1>40. \A v, target : Serial!SetAbsolute(v, target) <=> Promised!SetAbsolute(v, target)
  BY <1>11, <1>38 DEF Serial!SetAbsolute, Promised!SetAbsolute
<1>41. \A o : Serial!OrderStep(o) <=> Promised!OrderStep(o)
  BY <1>20, <1>21, <1>22, <1>24, <1>26, <1>27, <1>29, <1>32 DEF Serial!OrderStep, Promised!OrderStep
<1>42. \A r : Serial!ReturnStep(r) <=> Promised!ReturnStep(r)
  BY <1>33, <1>34 DEF Serial!ReturnStep, Promised!ReturnStep
<1>43. \A p : Serial!PurchaseStep(p) <=> Promised!PurchaseStep(p)
  BY <1>35, <1>36, <1>37 DEF Serial!PurchaseStep, Promised!PurchaseStep
<1>44. \A v : Serial!ManualStep(v) <=> Promised!ManualStep(v)
  BY <1>39, <1>40 DEF Serial!ManualStep, Promised!ManualStep
<1>45. Serial!Next <=> Promised!Next
  BY <1>41, <1>42, <1>43, <1>44 DEF Serial!Next, Promised!Next
<1> QED BY <1>45

\* Both start from the same tables.
LEMMA SameInit == Serial!Init <=> Promised!Init
<1>1. /\ Serial!Manual = Promised!Manual /\ Serial!Inbound = Promised!Inbound
      /\ Serial!Nothing = Promised!Nothing
  BY DEF Serial!Manual, Promised!Manual, Serial!Inbound, Promised!Inbound,
         Serial!Nothing, Promised!Nothing
<1>2. \A v : Serial!Opened(v) = Promised!Opened(v)
  BY <1>1 DEF Serial!Opened, Promised!Opened, Serial!Applied, Promised!Applied,
              Serial!Signed, Promised!Signed, Serial!EmptyRow, Promised!EmptyRow
<1>3. /\ Serial!NoOrder = Promised!NoOrder /\ Serial!NoReturn = Promised!NoReturn
      /\ Serial!NoPurchase = Promised!NoPurchase
  BY <1>1 DEF Serial!NoOrder, Promised!NoOrder, Serial!NoReturn, Promised!NoReturn,
              Serial!NoPurchase, Promised!NoPurchase
<1> QED BY <1>2, <1>3 DEF Serial!Init, Promised!Init, Serial!LedgerInit, Promised!LedgerInit

\* What Store assumes of its constants.
LEMMA PromisedConstants ==
    ASSUME IsFiniteSet(Variants)
    PROVE  /\ Promised!IsFiniteSet(Variants)
           /\ {} \subseteq Nat /\ 0 \in Nat
           /\ Baskets \subseteq [Variants -> Nat] /\ \A b \in Baskets : \E v \in Variants : b[v] > 0
BY RequestsAssumption DEF IsFiniteSet, Promised!IsFiniteSet

\* When transactions do not overlap, all that is proved of Store is so here.
LEMMA PromiseApplies ==
    ASSUME Serialised
    PROVE  Spec => Promised!Spec
<1>1. [Serial!Next]_(Serial!vars) => [Promised!Next]_(Promised!vars)
  BY SameNext DEF Serial!vars, Promised!vars
<1> QED BY <1>1, SameInit, SerialRefinesStore, PTL
   DEF Serial!Spec, Promised!Spec, SerialRunsAreAtomic

\* Nobody gets back more units than the order sold.
THEOREM WithinOrderAlone ==
    ASSUME Serialised, IsFiniteSet(Variants)
    PROVE  Spec => []ReturnsWithinOrder
<1>1. Promised!Spec => []Promised!ReturnsWithinOrder
  BY PromisedConstants, NobodyAssumption, OpeningAssumption, DocumentsAssumption,
     Promised!ReturnsStayWithin
<1>2. Promised!ReturnsWithinOrder => ReturnsWithinOrder
  BY SameReturned DEF ReturnsWithinOrder, Serial!ReturnsWithinOrder, Promised!ReturnsWithinOrder
<1> QED BY <1>1, <1>2, PromiseApplies, PTL

\* A cancelled order has given its stock back.
THEOREM CancelledAlone ==
    ASSUME Serialised, IsFiniteSet(Variants)
    PROVE  Spec => []CancelledHoldsNoStock
<1>1. Promised!Spec => []Promised!StatusPaymentStockAgree
  BY PromisedConstants, NobodyAssumption, OpeningAssumption, DocumentsAssumption,
     Promised!OrdersAgree
<1>2. IInv /\ Promised!StatusPaymentStockAgree => CancelledHoldsNoStock
  <2> SUFFICES ASSUME IInv, Promised!StatusPaymentStockAgree,
                      NEW o \in Orders, orders[o].com.status = "CANCELLED"
               PROVE  ~orders[o].com.committed
    BY DEF CancelledHoldsNoStock
  <2>1. Snapshot(orders)[o] = orders[o].com
    BY DEF Snapshot, IInv, TypeOK
  <2>2. Promised!RowAgrees(orders[o].com)
    BY <2>1 DEF Promised!StatusPaymentStockAgree
  <2> QED BY <2>2 DEF Promised!RowAgrees
<1> QED BY <1>1, <1>2, Invariant, PromiseApplies, PTL

\* A cancellation and the returns of an order never credit the same units.
THEOREM CreditedAlone ==
    ASSUME Serialised, IsFiniteSet(Variants)
    PROVE  Spec => []UnitsCreditedOnce
<1>1. Promised!Spec => []Promised!CreditsFitSales
  BY PromisedConstants, NobodyAssumption, OpeningAssumption, DocumentsAssumption,
     Promised!CreditsFit
<1>2. IInv /\ Promised!CreditsFitSales => UnitsCreditedOnce
  <2> SUFFICES ASSUME IInv, Promised!CreditsFitSales
               PROVE  UnitsCreditedOnce
    OBVIOUS
  <2>1. /\ DOMAIN inventory = Variants /\ DOMAIN returns = Returns
        /\ \A v \in Variants : Snapshot(inventory)[v] = inventory[v].com
        /\ \A r \in Returns : Snapshot(returns)[r] = returns[r].com
    BY DEF IInv, TypeOK, Snapshot
  <2>2. \A v \in Variants : \A refs : Promised!BookedOn(v, refs) = Net(v, refs)
    BY <2>1, PromisedSum DEF Promised!BookedOn, Promised!Delta, Net, Committing
  <2>3. \A o : Promised!CreditRefs(o) =
                  {CancelRef(o)} \cup {ReturnRef(r) : r \in {x \in Returns : returns[x].com.order = o}}
    BY <2>1 DEF Promised!CreditRefs, Promised!ReturnsOf, Promised!CancelRef, CancelRef,
                Promised!ReturnRef, ReturnRef
  <2>4. \A o : Promised!OrderRef(o) = OrderRef(o)
    BY DEF Promised!OrderRef, OrderRef
  <2> QED BY <2>2, <2>3, <2>4 DEF Promised!CreditsFitSales, UnitsCreditedOnce
<1> QED BY <1>1, <1>2, Invariant, PromiseApplies, PTL

\* No further mutation is possible after a terminal status.
THEOREM FinalAlone ==
    ASSUME Serialised, IsFiniteSet(Variants)
    PROVE  Spec => TerminalStatusIsFinal
<1>1. Promised!Spec => Promised!TerminalRowsAreFinal
  BY PromisedConstants, NobodyAssumption, OpeningAssumption, DocumentsAssumption,
     Promised!TerminalIsFinal
<1>2. IInv /\ IInv' /\ [Promised!DecidedRowsKept]_(Promised!vars)
        => [\A o \in Orders : orders[o].com.status \in Terminal
                            => orders'[o].com.status = orders[o].com.status]_vars
  <2> SUFFICES ASSUME IInv, IInv', [Promised!DecidedRowsKept]_(Promised!vars),
                      NEW o \in Orders, orders[o].com.status \in Terminal
               PROVE  orders'[o].com.status = orders[o].com.status
    OBVIOUS
  <2>1. Snapshot(orders)[o] = orders[o].com /\ Snapshot(orders')[o] = orders'[o].com
    BY DEF IInv, TypeOK, Snapshot
  <2>2. Snapshot(orders)' = Snapshot(orders')
    BY DEF Snapshot
  <2>3. CASE Promised!DecidedRowsKept
    BY <2>1, <2>2, <2>3 DEF Promised!DecidedRowsKept, Promised!Terminal, Terminal
  <2>4. CASE UNCHANGED Promised!vars
    BY <2>1, <2>2, <2>4 DEF Promised!vars
  <2> QED BY <2>3, <2>4
<1> QED BY <1>1, <1>2, Invariant, PromiseApplies, PTL
   DEF TerminalStatusIsFinal, Promised!TerminalRowsAreFinal

\* A return whose rejection was answered is rejected.
THEOREM RejectedAlone ==
    ASSUME Serialised
    PROVE  Spec => RejectionsHold
<1>1. IInv /\ Alone /\ [Next]_vars =>
        [\A p \in Clients :
            Commit(p) /\ Op(p) = "REJECT"
                => returns'[client[p].req.ret].com.status = "REJECTED"]_vars
  <2> SUFFICES ASSUME IInv, Alone, NEW p \in Clients, Commit(p), Op(p) = "REJECT"
               PROVE  returns'[client[p].req.ret].com.status = "REJECTED"
    OBVIOUS
  <2> DEFINE r == client[p].req.ret
  <2>1. Under(p) /\ client[p].pc = "commit" /\ client[p].req.op = "REJECT"
    BY DEF Commit, Under, At, Op
  <2>2. Deciding(p) /\ r \in Returns
    BY <2>1, DecidingLemma
  <2>3. returns[r].live = [returns[r].com EXCEPT !.status = "REJECTED"]
    BY <2>1, <2>2 DEF Deciding
  <2>4. returns[r].com \in ReturnRows
    BY <2>2 DEF IInv, TypeOK, Cells
  <2>5. returns[r].live.status = "REJECTED"
    BY <2>3, <2>4 DEF ReturnRows
  <2>6. Snapshot(returns') = [x \in Returns |-> returns[x].live] /\ DOMAIN returns' = Returns
    BY CommitPublishes DEF IInv, TypeOK, Commit, Committed
  <2>7. returns'[r].com = returns[r].live
    BY <2>2, <2>6 DEF Snapshot
  <2> QED BY <2>5, <2>7
<1> QED BY <1>1, Invariant, AlwaysAlone, PTL DEF Spec, RejectionsHold
=============================================================================
