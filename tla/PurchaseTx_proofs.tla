-------------------------- MODULE PurchaseTx_proofs --------------------------
(***************************************************************************)
(* Proofs about PurchaseTx, for any number of clients, purchases and       *)
(* requests, whatever their statements' order.                             *)
(***************************************************************************)
EXTENDS PurchaseTx, ApplyChange, Shared_proofs

Client == [pc : Labels, req : Requests \cup {Blank}, before : Nat,
           type : AdjustmentTypes \cup {"NONE"}, qty : Nat, todo : SUBSET Variants]

-----------------------------------------------------------------------------
\* What a request for an operation carries.
LEMMA RequestLemma ==
    ASSUME NEW req \in Requests \cup {Blank}
    PROVE  /\ req.items \in [Variants -> Nat] /\ req.amount \in Nat
           /\ req.op \in {"CREATE", "RECEIVE", "CANCEL"} => req.purchase \in Purchases
           /\ req.op \in {"ADJUST", "SET"} => req.variant \in Variants
           /\ req.type \in AdjustmentTypes \cup {"NONE"}
           /\ req.op = "ADJUST" => req.type \in AdjustmentTypes
           /\ req \in Requests => req.op \in {"CREATE", "RECEIVE", "CANCEL", "ADJUST", "SET"}
<1>1. CASE req = Blank
  BY <1>1 DEF Blank, Nothing, Requests
<1>2. CASE req \in [op : {"CREATE"}, purchase : Purchases, items : Baskets, now : BOOLEAN,
                    variant : {"NONE"}, type : {"NONE"}, amount : {0}]
  BY <1>2, BasketsAssumption
<1>3. CASE req \in [op : {"RECEIVE", "CANCEL"}, purchase : Purchases, items : {Nothing},
                    now : {FALSE}, variant : {"NONE"}, type : {"NONE"}, amount : {0}]
  BY <1>3 DEF Nothing
<1>4. CASE req \in [op : {"ADJUST"}, purchase : {"NONE"}, items : {Nothing}, now : {FALSE},
                    variant : Variants, type : AdjustmentTypes, amount : Amounts]
  <2>1. /\ req.op = "ADJUST" /\ req.items = Nothing /\ req.variant \in Variants
        /\ req.type \in AdjustmentTypes /\ req.amount \in Amounts
    BY <1>4
  <2>2. req.items \in [Variants -> Nat]
    BY <2>1 DEF Nothing
  <2>3. req.amount \in Nat
    BY <2>1, AmountsAssumption
  <2> QED BY <2>1, <2>2, <2>3
<1>5. CASE req \in [op : {"SET"}, purchase : {"NONE"}, items : {Nothing}, now : {FALSE},
                    variant : Variants, type : {"NONE"}, amount : Amounts]
  <2>1. /\ req.op = "SET" /\ req.items = Nothing /\ req.variant \in Variants
        /\ req.type = "NONE" /\ req.amount \in Amounts
    BY <1>5
  <2>2. req.items \in [Variants -> Nat]
    BY <2>1 DEF Nothing
  <2>3. req.amount \in Nat
    BY <2>1, AmountsAssumption
  <2> QED BY <2>1, <2>2, <2>3
<1> QED BY <1>1, <1>2, <1>3, <1>4, <1>5 DEF Requests

\* Idle clients are well formed.
LEMMA IdleLemma == Idle \in Client /\ NoPurchase \in PurchaseRows
BY DEF Idle, Client, Labels, NoPurchase, PurchaseRows, Nothing, Blank

\* A movement the guard accepts turns a row into a row, by one movement that
\* appends one entry.
LEMMA MovementLemma ==
    ASSUME NEW row \in Rows, NEW type \in MovementTypes, NEW q \in Nat,
           NEW ref \in References, Accepts(row, type, q)
    PROVE  /\ Applied(row, type, q, ref) \in Rows
           /\ Ledger!OneMovement(row, Applied(row, type, q, ref))
<1> DEFINE d == Signed(type, q)
           e == [type |-> type, delta |-> d, prev |-> (row.qty + d) - d,
                 new |-> row.qty + d, ref |-> ref]
<1>1. d \in Int /\ row.qty \in Nat /\ row.log \in Seq(Entries)
  BY DEF Rows, Signed
<1>2. row.qty + d \in Nat /\ (row.qty + d) - d = row.qty
  BY <1>1 DEF Accepts
<1>3. e \in Entries
  BY <1>1, <1>2 DEF Entries
<1>4. Applied(row, type, q, ref) = [qty |-> row.qty + d, log |-> Append(row.log, e)]
  BY DEF Applied
<1>5. Magnitude(d) = q
  BY DEF Magnitude, Signed, Accepts
<1>6. e.type = type /\ e.delta = d /\ e.ref = ref
  OBVIOUS
<1> HIDE DEF d, e
<1>7. /\ Append(row.log, e) \in Seq(Entries)
      /\ Len(Append(row.log, e)) = Len(row.log) + 1
      /\ Append(row.log, e)[Len(row.log) + 1] = e
  BY <1>1, <1>3
<1>8. Applied(row, type, q, ref) \in Rows
  BY <1>2, <1>4, <1>7 DEF Rows
<1>9. Ledger!OneMovement(row, Applied(row, type, q, ref))
  <2>1. Ledger!Accepts(row, type, q) /\ Ledger!Magnitude(d) = q
    BY <1>5 DEF Ledger!Accepts, Accepts, Ledger!Signed, Signed, Ledger!Inbound, Inbound,
                Ledger!Magnitude, Magnitude
  <2>2. Ledger!Applied(row, type, q, ref) = Applied(row, type, q, ref)
    BY DEF Ledger!Applied, Applied, Ledger!Signed, Signed, Ledger!Inbound, Inbound
  <2> DEFINE new == Applied(row, type, q, ref)
  <2>3. /\ new.log = Append(row.log, e)
        /\ Len(new.log) = Len(row.log) + 1
        /\ new.log[Len(new.log)] = e
    BY <1>4, <1>7
  <2> HIDE DEF new
  <2>4. Ledger!Accepts(row, e.type, Ledger!Magnitude(e.delta))
    BY <1>6, <2>1
  <2>5. new = Ledger!Applied(row, e.type, Ledger!Magnitude(e.delta), e.ref)
    BY <1>6, <2>1, <2>2 DEF new
  <2>6. Ledger!OneMovement(row, new)
    BY <2>3, <2>4, <2>5 DEF Ledger!OneMovement
  <2> QED BY <2>6 DEF new
<1> QED BY <1>8, <1>9

\* The entries that cite a purchase, after one movement more.
LEMMA ReceiptsLemma ==
    ASSUME NEW row \in Rows, NEW type, NEW q, NEW ref, NEW d
    PROVE  LET new  == Applied(row, type, q, ref)
               last == Len(row.log) + 1
           IN  /\ Receipts(new, d) =
                     Receipts(row, d) \cup (IF ref = PurchaseRef(d) THEN {last} ELSE {})
               /\ \A i \in Receipts(row, d) : new.log[i] = row.log[i] /\ i # last
               /\ new.log[last].delta = Signed(type, q)
<1> DEFINE e == [type |-> type, delta |-> Signed(type, q),
                 prev |-> (row.qty + Signed(type, q)) - Signed(type, q),
                 new |-> row.qty + Signed(type, q), ref |-> ref]
           new == Applied(row, type, q, ref)
           last == Len(row.log) + 1
<1>1. new.log = Append(row.log, e)
  BY DEF Applied
<1>2. e.delta = Signed(type, q) /\ e.ref = ref
  OBVIOUS
<1> HIDE DEF e
<1>3. row.log \in Seq(Entries)
  BY DEF Rows
<1>4. /\ DOMAIN Append(row.log, e) = DOMAIN row.log \cup {last}
      /\ last \notin DOMAIN row.log
      /\ Append(row.log, e)[last] = e
      /\ \A i \in DOMAIN row.log : Append(row.log, e)[i] = row.log[i]
  BY <1>3
<1> HIDE DEF new, last
<1> QED BY <1>1, <1>2, <1>4 DEF Receipts, new, last

-----------------------------------------------------------------------------
\* What a client sees has the shape of the tables.
LEMMA SeeLemma ==
    ASSUME IInv, NEW p \in Clients
    PROVE  /\ client[p] \in Client
           /\ client[p].req \in Requests \cup {Blank}
           /\ client[p].req.purchase \in Purchases => Purchase(p) \in PurchaseRows
           /\ \A v \in Variants : See(inventory[v], p) \in Rows
BY DEF IInv, TypeOK, Client, Cells, See, Purchase

\* What a client does leaves another one sound: rows it holds stay, and a
\* purchase once made keeps its items and exists from then on.
LEMMA OthersLemma ==
    ASSUME IInv, NEW q \in Clients, client'[q] = client[q],
           \A v \in Variants : inventory[v].by = q \/ inventory'[v].by = q
                               => inventory'[v] = inventory[v],
           \A d \in Purchases : purchases[d].by = q \/ purchases'[d].by = q
                                => purchases'[d] = purchases[d],
           \A d \in Purchases : purchases[d].com.status # "NONE"
                                => /\ purchases'[d].com.status # "NONE"
                                   /\ purchases'[d].com.items = purchases[d].com.items
    PROVE  Sound(q)'
<1>1. Sound(q) /\ client[q].req \in Requests \cup {Blank}
  BY SeeLemma DEF IInv
<1>2. Placed(q)'
  BY <1>1 DEF Sound, Placed, Op
<1>3. KnowsItsPurchase(q)'
  <2>1. Op(q) \in {"CREATE", "RECEIVE", "CANCEL"} => client[q].req.purchase \in Purchases
    BY <1>1, RequestLemma DEF Op
  <2> QED BY <1>1, <2>1 DEF Sound, KnowsItsPurchase, Op
<1>4. HoldsItsPurchase(q)'
  <2> SUFFICES ASSUME NEW d \in Purchases, purchases'[d].by = q
               PROVE  LET c    == client'[q]
                          cell == purchases'[d]
                      IN  /\ c.req.purchase = d
                          /\ \/ /\ Op(q)' = "CREATE" /\ c.pc # "insert"
                                /\ cell.com = NoPurchase
                                /\ cell.live = [status |-> IF c.pc = "commit" /\ c.req.now
                                                           THEN "RECEIVED" ELSE "DRAFT",
                                                items  |-> c.req.items]
                             \/ /\ Op(q)' = "RECEIVE" /\ c.pc = "commit"
                                /\ cell.com.status = "DRAFT"
                                /\ cell.live = [cell.com EXCEPT !.status = "RECEIVED"]
                             \/ /\ Op(q)' = "CANCEL" /\ c.pc = "commit"
                                /\ cell.com.status # "NONE"
                                /\ cell.live = [cell.com EXCEPT !.status = "CANCELLED"]
    BY DEF HoldsItsPurchase
  <2>1. purchases'[d] = purchases[d] /\ purchases[d].by = q
    OBVIOUS
  <2> QED BY <1>1, <2>1 DEF Sound, HoldsItsPurchase, Op
<1>5. Receiving(q)' = Receiving(q)
  BY DEF Receiving, Op
<1>6. ASSUME Receiving(q)
      PROVE  Purchase(q)'.items = Purchase(q).items /\ Taken(q)' = Taken(q)
  <2>1. client[q].req.purchase \in Purchases
    BY <1>1, <1>6, RequestLemma DEF Receiving, Op
  <2> DEFINE d == client[q].req.purchase
  <2>2. CASE purchases[d].by = q
    BY <2>1, <2>2 DEF Purchase, Taken
  <2>3. CASE purchases[d].by # q
    <3>1. purchases[d].com.status # "NONE"
      BY <1>1, <1>6, <2>3 DEF Sound, KnowsItsPurchase, Receiving
    <3>2. purchases'[d].by # q
      BY <2>1, <2>3
    <3>3. Purchase(q)'.items = Purchase(q).items
      BY <2>1, <2>3, <3>1, <3>2 DEF Purchase, See
    <3> QED BY <3>3 DEF Taken
  <2> QED BY <2>2, <2>3
<1>7. HoldsItsGoods(q)'
  <2>1. Receiving(q)' => \A v \in Taken(q)' : inventory'[v].by = q
    BY <1>1, <1>5, <1>6 DEF Sound, HoldsItsGoods, Taken
  <2>2. ASSUME NEW v \in Variants, inventory'[v].by = q
        PROVE  LET cell == inventory'[v]
               IN  /\ Ledger!OneMovement(cell.com, cell.live)
                   /\ \/ /\ Receiving(q)' /\ v \in Taken(q)'
                         /\ cell.live = Applied(cell.com, "PURCHASE", Purchase(q)'.items[v],
                                                PurchaseRef(client'[q].req.purchase))
                      \/ /\ At(q, "commit")' /\ Op(q)' \in {"ADJUST", "SET"}
                         /\ cell.live = Applied(cell.com, client'[q].type, client'[q].qty, Manual)
    <3>1. inventory'[v] = inventory[v] /\ inventory[v].by = q
      BY <2>2
    <3> QED BY <1>1, <1>5, <1>6, <3>1 DEF Sound, HoldsItsGoods, At, Op
  <2> QED BY <2>1, <2>2 DEF HoldsItsGoods
<1> QED BY <1>2, <1>3, <1>4, <1>7 DEF Sound

\* GoodsTakenInOnce of the row of one variant and that of one purchase.
Once(row, bought, d, v) ==
    LET receipts == Receipts(row, d)
    IN  /\ \A i, j \in receipts : i = j
        /\ bought.status \in {"NONE", "DRAFT"} => receipts = {}
        /\ bought.status = "RECEIVED" => (receipts # {} <=> bought.items[v] > 0)
        /\ \A i \in receipts : row.log[i].delta = bought.items[v]

\* A statement that writes only free rows, and publishes nothing, keeps the
\* invariant when its client is sound afterwards.
LEMMA StepLemma ==
    ASSUME IInv, NEW p \in Clients, NEW c \in Client, client' = [client EXCEPT ![p] = c],
           inventory' \in [Variants -> Cells(Rows)],
           \A v \in Variants : \/ inventory'[v] = inventory[v]
                               \/ /\ Free(inventory[v], p) /\ inventory'[v].by = p
                                  /\ inventory'[v].com = inventory[v].com,
           purchases' \in [Purchases -> Cells(PurchaseRows)],
           \A d \in Purchases : \/ purchases'[d] = purchases[d]
                                \/ /\ Free(purchases[d], p) /\ purchases'[d].by = p
                                   /\ purchases'[d].com = purchases[d].com,
           sequence' \in Clients \cup {Nobody}, made' \in 0..MaxRequests,
           Sound(p)'
    PROVE  IInv'
<1>1. /\ client' \in [Clients -> Client] /\ client'[p] = c
      /\ \A q \in Clients : q # p => client'[q] = client[q]
  BY DEF IInv, TypeOK, Client
<1>2. p # Nobody /\ \A q \in Clients : q # Nobody
  BY NobodyAssumption
<1>3. TypeOK'
  BY <1>1 DEF TypeOK, Client
<1>4. ASSUME NEW q \in Clients
      PROVE  Sound(q)'
  <2>1. CASE q # p
    <3>1. \A v \in Variants : inventory[v].by = q \/ inventory'[v].by = q
                              => inventory'[v] = inventory[v]
      BY <2>1, <1>2 DEF Free
    <3>2. \A d \in Purchases : purchases[d].by = q \/ purchases'[d].by = q
                               => purchases'[d] = purchases[d]
      BY <2>1, <1>2 DEF Free
    <3> QED BY <2>1, <1>1, <3>1, <3>2, OthersLemma
  <2> QED BY <2>1
<1>5. FreeRowsAreCommitted'
  BY <1>2 DEF IInv, FreeRowsAreCommitted
<1>6. GoodsTakenInOnce'
  <2>1. /\ \A v \in Variants : inventory'[v].com = inventory[v].com
        /\ \A d \in Purchases : purchases'[d].com = purchases[d].com
    OBVIOUS
  <2>2. \A d \in Purchases, v \in Variants : Once(inventory[v].com, purchases[d].com, d, v)
    BY DEF IInv, GoodsTakenInOnce, Once
  <2>3. \A d \in Purchases, v \in Variants : Once(inventory'[v].com, purchases'[d].com, d, v)
    BY <2>1, <2>2
  <2> QED BY <2>3 DEF GoodsTakenInOnce, Once
<1> QED BY <1>3, <1>4, <1>5, <1>6 DEF IInv

\* So does one that only looks.
LEMMA LookLemma ==
    ASSUME IInv, NEW p \in Clients, NEW c \in Client, Reads,
           client' = [client EXCEPT ![p] = c], Sound(p)'
    PROVE  IInv'
BY StepLemma DEF IInv, TypeOK, Reads

-----------------------------------------------------------------------------
\* Who holds what.

\* A client holds variants only while it takes goods in and at its end.
LEMMA EmptyHanded ==
    ASSUME IInv, NEW p \in Clients, client[p].pc \notin {"goods", "flip", "commit"}
    PROVE  \A v \in Variants : inventory[v].by # p
BY DEF IInv, Sound, HoldsItsGoods, Receiving, At

\* A client that did not create it holds a purchase only at its end.
LEMMA NotYetHeld ==
    ASSUME IInv, NEW p \in Clients,
           client[p].pc = "insert" \/ (Op(p) # "CREATE" /\ client[p].pc # "commit")
    PROVE  \A d \in Purchases : purchases[d].by # p
BY DEF IInv, Sound, HoldsItsPurchase

\* A client that holds no variant and receives nothing holds its goods.
LEMMA NoGoods ==
    ASSUME NEW p, \A v \in Variants : inventory'[v].by # p, ~Receiving(p)'
    PROVE  HoldsItsGoods(p)'
BY DEF HoldsItsGoods

\* A client that holds no purchase holds its own.
LEMMA NoPurchases ==
    ASSUME NEW p, \A d \in Purchases : purchases'[d].by # p
    PROVE  HoldsItsPurchase(p)'
BY DEF HoldsItsPurchase

\* Moving to another label keeps a client in shape.
LEMMA GotoLemma ==
    ASSUME IInv, NEW p \in Clients, NEW label \in Labels, Goto(p, label)
    PROVE  LET c == [client[p] EXCEPT !.pc = label]
           IN  /\ client' = [client EXCEPT ![p] = c] /\ client'[p] = c
               /\ c \in Client /\ c.pc = label /\ c.req = client[p].req /\ c.todo = client[p].todo
               /\ c.type = client[p].type /\ c.qty = client[p].qty
<1>1. client[p] \in Client /\ client \in [Clients -> Client]
  BY DEF IInv, TypeOK, Client
<1> QED BY <1>1 DEF Goto, Client

-----------------------------------------------------------------------------
\* The statements.

\* A request begins.
LEMMA BeginLemma ==
    ASSUME IInv, NEW p \in Clients, NEW req \in Requests, Begin(p, req)
    PROVE  IInv'
<1> DEFINE c == [client[p] EXCEPT !.req = req,
                                  !.pc = IF req.op = "CREATE" THEN "insert" ELSE "read"]
<1>1. client[p] \in Client /\ client \in [Clients -> Client]
  BY DEF IInv, TypeOK, Client
<1>2. /\ client' = [client EXCEPT ![p] = c] /\ client'[p] = c
      /\ c \in Client /\ c.req = req /\ c.todo = client[p].todo
      /\ c.pc = IF req.op = "CREATE" THEN "insert" ELSE "read"
  BY <1>1 DEF Begin, Client, Labels
<1> HIDE DEF c
<1>3. client[p].pc = "idle" /\ client[p].todo = {} /\ Op(p) = "NONE"
  BY DEF Begin, At, IInv, Sound, Placed, Op
<1>4. Placed(p)'
  BY <1>2, <1>3, RequestLemma DEF Placed, Op
<1>5. HoldsItsGoods(p)'
  BY <1>2, <1>3, EmptyHanded, NoGoods DEF Begin, Receiving
<1>6. HoldsItsPurchase(p)'
  BY <1>3, NotYetHeld, NoPurchases DEF Begin
<1>7. KnowsItsPurchase(p)'
  BY <1>2 DEF KnowsItsPurchase, Op
<1>8. made' \in 0..MaxRequests
  BY AmountsAssumption DEF Begin, IInv, TypeOK
<1> QED BY <1>2, <1>4, <1>5, <1>6, <1>7, <1>8, StepLemma DEF Begin, Sound, IInv, TypeOK

\* A purchase is written as a new row.
LEMMA InsertPurchaseLemma ==
    ASSUME IInv, NEW p \in Clients, InsertPurchase(p)
    PROVE  IInv'
<1> DEFINE req == client[p].req
           d   == req.purchase
           row == [status |-> "DRAFT", items |-> req.items]
           label == IF req.now THEN "read" ELSE "commit"
           c == [client[p] EXCEPT !.pc = label]
<1>1. Op(p) = "CREATE" /\ client[p].pc = "insert" /\ client[p].todo = {}
  BY DEF InsertPurchase, At, IInv, Sound, Placed, Op
<1>2. d \in Purchases /\ req.items \in [Variants -> Nat]
  BY <1>1, SeeLemma, RequestLemma DEF Op
<1>3. /\ client' = [client EXCEPT ![p] = c] /\ client'[p] = c
      /\ c \in Client /\ c.pc = label /\ c.req = req /\ c.todo = {}
  <2>1. label \in Labels
    BY DEF Labels
  <2>2. Goto(p, label)
    BY DEF InsertPurchase
  <2> HIDE DEF label
  <2> QED BY <1>1, <2>1, <2>2, GotoLemma
<1>4. row \in PurchaseRows
  BY <1>2 DEF PurchaseRows, PurchaseStatuses
<1>5. /\ purchases \in [Purchases -> Cells(PurchaseRows)]
      /\ purchases[d] = Cell(NoPurchase)
      /\ purchases' = [purchases EXCEPT ![d] = Written(@, p, row)]
  BY DEF InsertPurchase, IInv, TypeOK
<1> HIDE DEF row, c
<1>6. /\ purchases' \in [Purchases -> Cells(PurchaseRows)]
      /\ \A x \in Purchases : x # d => purchases'[x] = purchases[x]
      /\ purchases'[d].by = p /\ purchases'[d].live = row
      /\ purchases'[d].com = purchases[d].com
  BY <1>2, <1>4, <1>5, WriteLemma
<1>7. purchases[d].by = Nobody /\ purchases[d].com = NoPurchase
  BY <1>5 DEF Cell
<1>8. Placed(p)'
  BY <1>1, <1>3 DEF Placed, Op
<1>9. HoldsItsGoods(p)'
  <2>1. ~Receiving(p)'
    BY <1>1, <1>3 DEF Receiving, Op
  <2>2. \A v \in Variants : inventory'[v].by # p
    BY <1>1, EmptyHanded DEF InsertPurchase
  <2> QED BY <2>1, <2>2, NoGoods
<1>10. HoldsItsPurchase(p)'
  <2>1. \A x \in Purchases : x # d => purchases'[x].by # p
    BY <1>1, <1>6, NotYetHeld
  <2>2. row = [status |-> IF c.pc = "commit" /\ c.req.now THEN "RECEIVED" ELSE "DRAFT",
               items  |-> c.req.items]
    BY <1>3 DEF row
  <2> QED BY <1>1, <1>3, <1>6, <1>7, <2>1, <2>2 DEF HoldsItsPurchase, Op
<1>11. KnowsItsPurchase(p)'
  BY <1>1, <1>3, <1>6 DEF KnowsItsPurchase, Op
<1>12. Sound(p)'
  BY <1>8, <1>9, <1>10, <1>11 DEF Sound
<1>13. UNCHANGED <<inventory, made>> /\ sequence' = p
  BY DEF InsertPurchase
<1> QED BY <1>3, <1>6, <1>7, <1>12, <1>13, StepLemma DEF Free, IInv, TypeOK

\* What a client sees of its purchase before it has written it.
LEMMA SeenLemma ==
    ASSUME IInv, NEW p \in Clients,
           Op(p) \in {"RECEIVE", "CANCEL"}, client[p].pc # "commit"
    PROVE  Purchase(p) = purchases[client[p].req.purchase].com
<1>1. client[p].req.purchase \in Purchases
  BY SeeLemma, RequestLemma DEF Op
<1> QED BY <1>1, NotYetHeld DEF Purchase, See

\* What one sees that has created it.
LEMMA CreatedLemma ==
    ASSUME IInv, NEW p \in Clients, Op(p) = "CREATE", client[p].pc # "insert"
    PROVE  LET d == client[p].req.purchase
           IN  /\ purchases[d].by = p
               /\ purchases[d].com = NoPurchase
               /\ Purchase(p) = purchases[d].live
               /\ Purchase(p).items = client[p].req.items
<1>1. client[p].req.purchase \in Purchases
  BY SeeLemma, RequestLemma DEF Op
<1> DEFINE d == client[p].req.purchase
<1>2. purchases[d].by = p
  BY DEF IInv, Sound, KnowsItsPurchase
<1>3. /\ purchases[d].com = NoPurchase
      /\ purchases[d].live = [status |-> IF client[p].pc = "commit" /\ client[p].req.now
                                        THEN "RECEIVED" ELSE "DRAFT",
                             items  |-> client[p].req.items]
  BY <1>1, <1>2 DEF IInv, Sound, HoldsItsPurchase
<1>4. purchases[d].live.items = client[p].req.items
  BY <1>3
<1> QED BY <1>2, <1>3, <1>4 DEF Purchase, See

\* The SELECT of a receipt.
LEMMA ReadForReceiptLemma ==
    ASSUME IInv, NEW p \in Clients, ReadForReceipt(p)
    PROVE  IInv'
<1> DEFINE lines == {v \in Variants : Purchase(p).items[v] > 0}
           c == [client[p] EXCEPT !.pc = "goods", !.todo = lines]
<1>1. client[p] \in Client /\ client \in [Clients -> Client]
  BY DEF IInv, TypeOK, Client
<1>2. /\ client[p].pc = "read" /\ Op(p) \in {"CREATE", "RECEIVE"}
      /\ Purchase(p).status = "DRAFT" /\ Placed(p)
  BY DEF ReadForReceipt, At, IInv, Sound
<1>3. /\ client' = [client EXCEPT ![p] = c] /\ client'[p] = c
      /\ c \in Client /\ c.pc = "goods" /\ c.req = client[p].req /\ c.todo = lines
  BY <1>1 DEF ReadForReceipt, Client, Labels
<1> HIDE DEF c
<1>4. UNCHANGED <<inventory, purchases, sequence, made>>
  BY DEF ReadForReceipt, Reads
<1>5. Placed(p)'
  BY <1>2, <1>3 DEF Placed, Op
<1>6. HoldsItsGoods(p)'
  <2>1. \A v \in Variants : inventory'[v].by # p
    BY <1>2, <1>4, EmptyHanded
  <2>2. Purchase(p)' = Purchase(p)
    BY <1>3, <1>4 DEF Purchase
  <2>3. Taken(p)' = {}
    BY <1>3, <2>2 DEF Taken
  <2> QED BY <2>1, <2>3 DEF HoldsItsGoods
<1>7. HoldsItsPurchase(p)'
  <2>1. CASE Op(p) = "CREATE"
    BY <1>2, <1>3, <1>4, <2>1 DEF IInv, Sound, HoldsItsPurchase, Op
  <2>2. CASE Op(p) = "RECEIVE"
    BY <1>2, <1>4, <2>2, NotYetHeld, NoPurchases
  <2> QED BY <1>2, <2>1, <2>2
<1>8. KnowsItsPurchase(p)'
  <2>1. CASE Op(p) = "CREATE"
    BY <1>2, <1>3, <1>4, <2>1, CreatedLemma DEF KnowsItsPurchase, Op
  <2>2. CASE Op(p) = "RECEIVE"
    BY <1>2, <1>3, <1>4, <2>2, SeenLemma DEF KnowsItsPurchase, Op
  <2> QED BY <1>2, <2>1, <2>2
<1>9. Sound(p)'
  BY <1>5, <1>6, <1>7, <1>8 DEF Sound
<1> QED BY <1>3, <1>9, LookLemma DEF ReadForReceipt

\* The goods of one line are taken in.
LEMMA TakeInLemma ==
    ASSUME IInv, NEW p \in Clients, NEW v \in Variants, TakeIn(p, v)
    PROVE  IInv'
<1> DEFINE d    == client[p].req.purchase
           qty  == Purchase(p).items[v]
           left == client[p].todo \ {v}
           label == IF left = {} THEN "flip" ELSE "goods"
           c    == [client[p] EXCEPT !.todo = left, !.pc = label]
           old  == See(inventory[v], p)
           row  == Applied(old, "PURCHASE", qty, PurchaseRef(d))
<1>1. client[p] \in Client /\ client \in [Clients -> Client]
  BY DEF IInv, TypeOK, Client
<1>2. /\ client[p].pc = "goods" /\ Placed(p) /\ Op(p) \in {"CREATE", "RECEIVE"}
      /\ v \in client[p].todo
  BY DEF TakeIn, At, IInv, Sound, Placed
<1>3. /\ client' = [client EXCEPT ![p] = c] /\ client'[p] = c
      /\ c \in Client /\ c.pc = label /\ c.req = client[p].req /\ c.todo = left
  BY <1>1 DEF TakeIn, Client, Labels
<1> HIDE DEF c
<1>4. d \in Purchases
  BY <1>2, SeeLemma, RequestLemma DEF Op
<1>5. qty \in Nat /\ old \in Rows /\ Accepts(old, "PURCHASE", qty) /\ qty > 0
  BY <1>4, SeeLemma DEF PurchaseRows, TakeIn, Accepts
<1>6. PurchaseRef(d) \in References
  BY <1>4, DocumentsAssumption DEF PurchaseRef, References, ReferenceTypes
<1>7. row \in Rows /\ Ledger!OneMovement(old, row)
  BY <1>5, <1>6, MovementLemma DEF MovementTypes
<1>8. inventory[v].by = Nobody
  BY <1>2 DEF TakeIn, Free, IInv, Sound, HoldsItsGoods, Taken, At
<1>9. old = inventory[v].com
  BY <1>8, NobodyAssumption DEF See
<1>10. /\ inventory' = [inventory EXCEPT ![v] = Written(@, p, row)]
       /\ inventory \in [Variants -> Cells(Rows)]
       /\ UNCHANGED <<purchases, sequence, made>>
  BY DEF TakeIn, IInv, TypeOK
<1> HIDE DEF row
<1>11. /\ inventory' \in [Variants -> Cells(Rows)]
       /\ \A x \in Variants : x # v => inventory'[x] = inventory[x]
       /\ inventory'[v].by = p /\ inventory'[v].live = row
       /\ inventory'[v].com = inventory[v].com
  BY <1>7, <1>10, WriteLemma
<1>12. Placed(p)'
  BY <1>2, <1>3 DEF Placed, Op
<1>13. /\ Receiving(p) /\ Receiving(p)'
       /\ Purchase(p)' = Purchase(p)
       /\ Taken(p)' = Taken(p) \cup {v}
  <2>1. Receiving(p) /\ Receiving(p)'
    BY <1>2, <1>3 DEF Placed, Receiving, Op
  <2>2. Purchase(p)' = Purchase(p)
    BY <1>3, <1>10 DEF Purchase
  <2> QED BY <1>3, <1>5, <2>1, <2>2 DEF Taken
<1>14. HoldsItsGoods(p)'
  <2>1. \A x \in Taken(p)' : inventory'[x].by = p
    BY <1>11, <1>13 DEF IInv, Sound, HoldsItsGoods, Taken
  <2>2. ASSUME NEW x \in Variants, inventory'[x].by = p
        PROVE  /\ Ledger!OneMovement(inventory'[x].com, inventory'[x].live)
               /\ x \in Taken(p)'
               /\ inventory'[x].live = Applied(inventory'[x].com, "PURCHASE",
                                              Purchase(p)'.items[x],
                                              PurchaseRef(client'[p].req.purchase))
    <3>1. CASE x = v
      BY <1>3, <1>7, <1>9, <1>11, <1>13, <3>1 DEF row
    <3>2. CASE x # v
      BY <1>2, <1>3, <1>11, <1>13, <2>2, <3>2 DEF IInv, Sound, HoldsItsGoods, At
    <3> QED BY <3>1, <3>2
  <2> QED BY <1>13, <2>1, <2>2 DEF HoldsItsGoods
<1>15. HoldsItsPurchase(p)'
  BY <1>2, <1>3, <1>10 DEF IInv, Sound, HoldsItsPurchase, Op
<1>16. KnowsItsPurchase(p)'
  BY <1>2, <1>3, <1>10 DEF IInv, Sound, KnowsItsPurchase, Op
<1>17. Sound(p)'
  BY <1>12, <1>14, <1>15, <1>16 DEF Sound
<1> QED BY <1>3, <1>8, <1>10, <1>11, <1>17, StepLemma DEF Free, IInv, TypeOK

\* What writing the status of its purchase makes of the table.
LEMMA PurchaseWritten ==
    ASSUME IInv, NEW p \in Clients, NEW status \in PurchaseStatuses,
           client[p].req.purchase \in Purchases, WritePurchase(p, status)
    PROVE  LET d == client[p].req.purchase
           IN  /\ purchases' \in [Purchases -> Cells(PurchaseRows)]
               /\ \A x \in Purchases : x # d => purchases'[x] = purchases[x]
               /\ purchases'[d].by = p
               /\ purchases'[d].live = [Purchase(p) EXCEPT !.status = status]
               /\ purchases'[d].com = purchases[d].com
               /\ Free(purchases[d], p)
<1> DEFINE d   == client[p].req.purchase
           row == [See(purchases[d], p) EXCEPT !.status = status]
<1>1. row \in PurchaseRows /\ row = [Purchase(p) EXCEPT !.status = status]
  BY SeeLemma DEF PurchaseRows, Purchase
<1>2. /\ purchases' = [purchases EXCEPT ![d] = Written(@, p, row)]
      /\ Free(purchases[d], p)
  BY DEF WritePurchase
<1>3. purchases \in [Purchases -> Cells(PurchaseRows)]
  BY DEF IInv, TypeOK
<1> HIDE DEF row
<1> QED BY <1>1, <1>2, <1>3, WriteLemma

\* A client writes the status of its purchase and goes on to its commit.
LEMMA WritePurchaseLemma ==
    ASSUME IInv, NEW p \in Clients, NEW status \in PurchaseStatuses,
           client[p].req.purchase \in Purchases, WritePurchase(p, status),
           Goto(p, "commit"), Sound(p)'
    PROVE  IInv'
<1> DEFINE c == [client[p] EXCEPT !.pc = "commit"]
<1>1. c \in Client /\ client' = [client EXCEPT ![p] = c]
  BY GotoLemma DEF Labels
<1> HIDE DEF c
<1>2. UNCHANGED <<inventory, sequence, made>>
  BY DEF WritePurchase
<1> QED BY <1>1, <1>2, PurchaseWritten, StepLemma DEF IInv, TypeOK

\* The flip to RECEIVED.
LEMMA FlipReceivedLemma ==
    ASSUME IInv, NEW p \in Clients, FlipReceived(p)
    PROVE  IInv'
<1> DEFINE d == client[p].req.purchase
<1>1. /\ client[p].pc = "flip" /\ Op(p) \in {"CREATE", "RECEIVE"} /\ client[p].todo = {}
      /\ Op(p) = "CREATE" => client[p].req.now
      /\ Sound(p)
  BY DEF FlipReceived, At, IInv, Sound, Placed, Op
<1>2. d \in Purchases /\ "RECEIVED" \in PurchaseStatuses /\ Purchase(p) \in PurchaseRows
  BY <1>1, SeeLemma, RequestLemma DEF Op, PurchaseStatuses
<1>3. /\ \A x \in Purchases : x # d => purchases'[x] = purchases[x]
      /\ purchases'[d].by = p
      /\ purchases'[d].live = [Purchase(p) EXCEPT !.status = "RECEIVED"]
      /\ purchases'[d].com = purchases[d].com
  BY <1>2, PurchaseWritten DEF FlipReceived
<1>4. /\ client'[p].pc = "commit" /\ client'[p].req = client[p].req
      /\ client'[p].todo = client[p].todo
  <2>1. "commit" \in Labels /\ Goto(p, "commit")
    BY DEF FlipReceived, Labels
  <2> DEFINE c == [client[p] EXCEPT !.pc = "commit"]
  <2>2. /\ client'[p] = c /\ c.pc = "commit" /\ c.req = client[p].req
        /\ c.todo = client[p].todo
    BY <2>1, GotoLemma
  <2> HIDE DEF c
  <2> QED BY <2>2
<1>5. inventory' = inventory
  BY DEF FlipReceived, WritePurchase
<1>6. Placed(p)'
  BY <1>1, <1>4 DEF Placed, Op
<1>7. HoldsItsGoods(p)'
  <2>1. Receiving(p) /\ Receiving(p)'
    BY <1>1, <1>4 DEF Receiving, Op
  <2>2. Purchase(p)' = purchases'[d].live
    BY <1>3, <1>4 DEF Purchase, See
  <2>3. Purchase(p)'.items = Purchase(p).items
    BY <1>2, <1>3, <2>2 DEF PurchaseRows
  <2>4. Taken(p)' = Taken(p)
    BY <1>4, <2>3 DEF Taken
  <2>5. \A v \in Taken(p)' : inventory'[v].by = p
    BY <1>1, <1>5, <2>1, <2>4 DEF Sound, HoldsItsGoods
  <2>6. ASSUME NEW v \in Variants, inventory'[v].by = p
        PROVE  /\ Ledger!OneMovement(inventory'[v].com, inventory'[v].live)
               /\ v \in Taken(p)'
               /\ inventory'[v].live = Applied(inventory'[v].com, "PURCHASE",
                                              Purchase(p)'.items[v],
                                              PurchaseRef(client'[p].req.purchase))
    BY <1>1, <1>4, <1>5, <2>3, <2>4, <2>6 DEF Sound, HoldsItsGoods, At
  <2> QED BY <2>1, <2>5, <2>6 DEF HoldsItsGoods
<1>8. HoldsItsPurchase(p)'
  <2>1. \A x \in Purchases : x # d => purchases'[x].by # p
    BY <1>1, <1>3 DEF Sound, HoldsItsPurchase
  <2>2. CASE Op(p) = "CREATE"
    <3>1. purchases'[d].com = NoPurchase /\ Purchase(p).items = client[p].req.items
      BY <1>1, <1>3, <2>2, CreatedLemma
    <3>2. purchases'[d].live = [status |-> "RECEIVED", items |-> client[p].req.items]
      BY <1>2, <1>3, <3>1 DEF PurchaseRows
    <3>3. [status |-> IF client'[p].pc = "commit" /\ client'[p].req.now
                      THEN "RECEIVED" ELSE "DRAFT",
           items |-> client'[p].req.items] = [status |-> "RECEIVED", items |-> client[p].req.items]
      BY <1>1, <1>4, <2>2
    <3>4. purchases'[d].live = [status |-> IF client'[p].pc = "commit" /\ client'[p].req.now
                                           THEN "RECEIVED" ELSE "DRAFT",
                                items |-> client'[p].req.items]
      BY <3>2, <3>3
    <3> QED BY <1>3, <1>4, <2>1, <2>2, <3>1, <3>4 DEF HoldsItsPurchase, Op
  <2>3. CASE Op(p) = "RECEIVE"
    <3>1. Purchase(p) = purchases[d].com
      BY <1>1, <2>3, SeenLemma
    <3>2. Purchase(p).status = "DRAFT"
      BY DEF FlipReceived
    <3> QED BY <1>3, <1>4, <2>1, <2>3, <3>1, <3>2 DEF HoldsItsPurchase, Op
  <2> QED BY <1>1, <2>2, <2>3
<1>9. KnowsItsPurchase(p)'
  BY <1>1, <1>3, <1>4 DEF Sound, KnowsItsPurchase, Op
<1>10. Sound(p)'
  BY <1>6, <1>7, <1>8, <1>9 DEF Sound
<1> QED BY <1>2, <1>10, WritePurchaseLemma DEF FlipReceived

\* The SELECT of a cancellation.
LEMMA ReadForCancelLemma ==
    ASSUME IInv, NEW p \in Clients, ReadForCancel(p)
    PROVE  IInv'
<1> DEFINE c == [client[p] EXCEPT !.pc = "void"]
<1>1. client[p].pc = "read" /\ Op(p) = "CANCEL" /\ Placed(p) /\ Purchase(p).status = "DRAFT"
  BY DEF ReadForCancel, At, IInv, Sound
<1>2. /\ client' = [client EXCEPT ![p] = c] /\ client'[p] = c
      /\ c \in Client /\ c.pc = "void" /\ c.req = client[p].req /\ c.todo = client[p].todo
  BY GotoLemma DEF ReadForCancel, Labels
<1> HIDE DEF c
<1>3. UNCHANGED <<inventory, purchases>>
  BY DEF ReadForCancel, Reads
<1>4. Placed(p)'
  BY <1>1, <1>2 DEF Placed, Op
<1>5. HoldsItsGoods(p)'
  BY <1>1, <1>2, <1>3, EmptyHanded, NoGoods DEF Receiving
<1>6. HoldsItsPurchase(p)'
  BY <1>1, <1>3, NotYetHeld, NoPurchases
<1>7. KnowsItsPurchase(p)'
  BY <1>1, <1>2, <1>3, SeenLemma DEF KnowsItsPurchase, Op
<1> QED BY <1>2, <1>4, <1>5, <1>6, <1>7, LookLemma DEF ReadForCancel, Sound

\* The UPDATE of a cancellation.
LEMMA WriteCancelledLemma ==
    ASSUME IInv, NEW p \in Clients, WriteCancelled(p)
    PROVE  IInv'
<1> DEFINE d == client[p].req.purchase
<1>1. client[p].pc = "void" /\ Op(p) = "CANCEL" /\ client[p].todo = {} /\ Sound(p)
  BY DEF WriteCancelled, At, IInv, Sound, Placed, Op
<1>2. d \in Purchases /\ "CANCELLED" \in PurchaseStatuses
  BY <1>1, SeeLemma, RequestLemma DEF Op, PurchaseStatuses
<1>3. /\ \A x \in Purchases : x # d => purchases'[x] = purchases[x]
      /\ purchases'[d].by = p
      /\ purchases'[d].live = [Purchase(p) EXCEPT !.status = "CANCELLED"]
      /\ purchases'[d].com = purchases[d].com
  BY <1>2, PurchaseWritten DEF WriteCancelled
<1>4. /\ client'[p].pc = "commit" /\ client'[p].req = client[p].req
      /\ client'[p].todo = client[p].todo
  <2>1. "commit" \in Labels /\ Goto(p, "commit")
    BY DEF WriteCancelled, Labels
  <2> DEFINE c == [client[p] EXCEPT !.pc = "commit"]
  <2>2. /\ client'[p] = c /\ c.pc = "commit" /\ c.req = client[p].req
        /\ c.todo = client[p].todo
    BY <2>1, GotoLemma
  <2> HIDE DEF c
  <2> QED BY <2>2
<1>5. inventory' = inventory
  BY DEF WriteCancelled, WritePurchase
<1>6. Placed(p)'
  BY <1>1, <1>4 DEF Placed, Op
<1>7. HoldsItsGoods(p)'
  BY <1>1, <1>4, <1>5, EmptyHanded, NoGoods DEF Receiving, Op
<1>8. HoldsItsPurchase(p)'
  <2>1. \A x \in Purchases : x # d => purchases'[x].by # p
    BY <1>1, <1>3 DEF Sound, HoldsItsPurchase
  <2>2. Purchase(p) = purchases[d].com /\ purchases[d].com.status # "NONE"
    BY <1>1, SeenLemma DEF Sound, KnowsItsPurchase
  <2> QED BY <1>1, <1>3, <1>4, <2>1, <2>2 DEF HoldsItsPurchase, Op
<1>9. KnowsItsPurchase(p)'
  BY <1>1, <1>3, <1>4 DEF Sound, KnowsItsPurchase, Op
<1>10. Sound(p)'
  BY <1>6, <1>7, <1>8, <1>9 DEF Sound
<1> QED BY <1>2, <1>10, WritePurchaseLemma DEF WriteCancelled

\* The SELECT of an adjustment.
LEMMA ReadForAdjustLemma ==
    ASSUME IInv, NEW p \in Clients, ReadForAdjust(p)
    PROVE  IInv'
<1> DEFINE req == client[p].req
           label == IF req.op = "SET" THEN "target" ELSE "adjust"
           c == [client[p] EXCEPT !.before = See(inventory[req.variant], p).qty,
                                  !.type = req.type, !.qty = req.amount, !.pc = label]
<1>1. client[p] \in Client /\ client \in [Clients -> Client]
  BY DEF IInv, TypeOK, Client
<1>2. client[p].pc = "read" /\ Op(p) \in {"ADJUST", "SET"} /\ client[p].todo = {}
  BY DEF ReadForAdjust, At, IInv, Sound, Placed, Op
<1>3. /\ req.variant \in Variants /\ req.amount \in Nat
      /\ req.type \in AdjustmentTypes \cup {"NONE"}
      /\ req.op = "ADJUST" => req.type \in AdjustmentTypes
  BY <1>2, SeeLemma, RequestLemma DEF Op
<1>4. See(inventory[req.variant], p).qty \in Nat
  BY <1>3, SeeLemma DEF Rows
<1>5. label \in Labels
  BY DEF Labels
<1>6. /\ client' = [client EXCEPT ![p] = c] /\ client'[p] = c
      /\ c \in Client /\ c.pc = label /\ c.req = req /\ c.todo = {} /\ c.type = req.type
  BY <1>1, <1>2, <1>3, <1>4, <1>5 DEF ReadForAdjust, Client
<1> HIDE DEF c
<1>7. UNCHANGED <<inventory, purchases>>
  BY DEF ReadForAdjust, Reads
<1>8. Placed(p)'
  BY <1>2, <1>3, <1>6 DEF Placed, Op
<1>9. HoldsItsGoods(p)'
  BY <1>2, <1>6, <1>7, EmptyHanded, NoGoods DEF Receiving
<1>10. HoldsItsPurchase(p)'
  BY <1>2, <1>7, NotYetHeld, NoPurchases
<1>11. KnowsItsPurchase(p)'
  BY <1>2, <1>6 DEF KnowsItsPurchase, Op
<1> QED BY <1>6, <1>8, <1>9, <1>10, <1>11, LookLemma DEF ReadForAdjust, Sound

\* The difference to a target is decided on.
LEMMA SetTargetLemma ==
    ASSUME IInv, NEW p \in Clients, SetTarget(p)
    PROVE  IInv'
<1> DEFINE req == client[p].req
           now == See(inventory[req.variant], p).qty
           move == Difference(now, req.amount)
           label == IF now = req.amount THEN "commit" ELSE "adjust"
           c == [client[p] EXCEPT !.type = move.type, !.qty = move.qty, !.pc = label]
<1>1. client[p] \in Client /\ client \in [Clients -> Client]
  BY DEF IInv, TypeOK, Client
<1>2. client[p].pc = "target" /\ Op(p) \in {"ADJUST", "SET"} /\ client[p].todo = {}
  BY DEF SetTarget, At, IInv, Sound, Placed, Op
<1>3. req.variant \in Variants /\ req.amount \in Nat
  BY <1>2, SeeLemma, RequestLemma DEF Op
<1>4. now \in Nat
  BY <1>3, SeeLemma DEF Rows
<1>5. move.type \in AdjustmentTypes /\ move.qty \in Nat
  BY <1>3, <1>4 DEF Difference, AdjustmentTypes
<1>6. label \in Labels
  BY DEF Labels
<1>7. client' = [client EXCEPT ![p] = c]
  BY DEF SetTarget
<1> HIDE DEF now, move
<1>8. /\ client'[p] = c
      /\ c \in Client /\ c.pc = label /\ c.req = req /\ c.todo = {} /\ c.type = move.type
  BY <1>1, <1>2, <1>5, <1>6, <1>7 DEF Client
<1> HIDE DEF c
<1>9. UNCHANGED <<inventory, purchases>>
  BY DEF SetTarget, Reads
<1>10. Placed(p)'
  BY <1>2, <1>5, <1>8 DEF Placed, Op
<1>11. HoldsItsGoods(p)'
  BY <1>2, <1>8, <1>9, EmptyHanded, NoGoods DEF Receiving, Op
<1>12. HoldsItsPurchase(p)'
  BY <1>2, <1>9, NotYetHeld, NoPurchases
<1>13. KnowsItsPurchase(p)'
  BY <1>2, <1>8 DEF KnowsItsPurchase, Op
<1> QED BY <1>7, <1>8, <1>10, <1>11, <1>12, <1>13, LookLemma DEF SetTarget, Sound

\* The movement of an adjustment.
LEMMA AdjustStockLemma ==
    ASSUME IInv, NEW p \in Clients, AdjustStock(p)
    PROVE  IInv'
<1> DEFINE v   == client[p].req.variant
           old == See(inventory[v], p)
           row == Applied(old, client[p].type, client[p].qty, Manual)
           c   == [client[p] EXCEPT !.pc = "commit"]
<1>1. /\ client[p].pc = "adjust" /\ Op(p) \in {"ADJUST", "SET"} /\ client[p].todo = {}
      /\ client[p].type \in AdjustmentTypes
  BY DEF AdjustStock, At, IInv, Sound, Placed, Op
<1>2. v \in Variants
  BY <1>1, SeeLemma, RequestLemma DEF Op
<1>3. old \in Rows /\ client[p].qty \in Nat /\ Accepts(old, client[p].type, client[p].qty)
  BY <1>2, SeeLemma DEF AdjustStock, Client
<1>4. Manual \in References /\ client[p].type \in MovementTypes
  BY <1>1 DEF Manual, References, ReferenceTypes, AdjustmentTypes, MovementTypes
<1>5. row \in Rows /\ Ledger!OneMovement(old, row)
  BY <1>3, <1>4, MovementLemma
<1>6. inventory[v].by = Nobody
  BY <1>1, <1>2, EmptyHanded DEF AdjustStock, Free
<1>7. old = inventory[v].com
  BY <1>6, NobodyAssumption DEF See
<1>8. /\ inventory' = [inventory EXCEPT ![v] = Written(@, p, row)]
      /\ inventory \in [Variants -> Cells(Rows)]
      /\ UNCHANGED <<purchases, sequence, made>>
  BY DEF AdjustStock, IInv, TypeOK
<1>9. row = Applied(inventory[v].com, client[p].type, client[p].qty, Manual)
  BY <1>7
<1> HIDE DEF row
<1>10. /\ inventory' \in [Variants -> Cells(Rows)]
       /\ \A x \in Variants : x # v => inventory'[x] = inventory[x]
       /\ inventory'[v].by = p /\ inventory'[v].live = row
       /\ inventory'[v].com = inventory[v].com
  BY <1>2, <1>5, <1>8, WriteLemma
<1>11. Goto(p, "commit") /\ "commit" \in Labels
  BY DEF AdjustStock, Labels
<1>12. /\ client' = [client EXCEPT ![p] = c] /\ client'[p] = c
       /\ c \in Client /\ c.pc = "commit" /\ c.req = client[p].req /\ c.todo = {}
       /\ c.type = client[p].type /\ c.qty = client[p].qty
  BY <1>1, <1>11, GotoLemma
<1> HIDE DEF c
<1>13. Placed(p)'
  BY <1>1, <1>12 DEF Placed, Op
<1>14. HoldsItsGoods(p)'
  <2>1. ~Receiving(p)'
    BY <1>1, <1>12 DEF Receiving, Op
  <2>2. \A x \in Variants : inventory'[x].by = p => x = v
    BY <1>1, <1>10, EmptyHanded
  <2>3. /\ At(p, "commit")' /\ Op(p)' \in {"ADJUST", "SET"}
        /\ Ledger!OneMovement(inventory'[v].com, inventory'[v].live)
        /\ inventory'[v].live = Applied(inventory'[v].com, client'[p].type, client'[p].qty, Manual)
    BY <1>1, <1>5, <1>7, <1>9, <1>10, <1>12 DEF At, Op
  <2> QED BY <2>1, <2>2, <2>3 DEF HoldsItsGoods
<1>15. HoldsItsPurchase(p)'
  BY <1>1, <1>8, NotYetHeld, NoPurchases
<1>16. KnowsItsPurchase(p)'
  BY <1>1, <1>12 DEF KnowsItsPurchase, Op
<1>17. Sound(p)'
  BY <1>13, <1>14, <1>15, <1>16 DEF Sound
<1> QED BY <1>6, <1>8, <1>10, <1>12, <1>17, StepLemma DEF Free, IInv, TypeOK

-----------------------------------------------------------------------------
\* The ends of a transaction.

\* An end that keeps the purchases there are, and the promise, keeps the
\* invariant.
LEMMA EndStepLemma ==
    ASSUME IInv, NEW p \in Clients, client' = [client EXCEPT ![p] = Idle],
           inventory' \in [Variants -> Cells(Rows)], Ended(inventory, inventory', p),
           purchases' \in [Purchases -> Cells(PurchaseRows)], Ended(purchases, purchases', p),
           \A d \in Purchases : purchases[d].com.status # "NONE"
                                => /\ purchases'[d].com.status # "NONE"
                                   /\ purchases'[d].com.items = purchases[d].com.items,
           sequence' = IF sequence = p THEN Nobody ELSE sequence, UNCHANGED made,
           GoodsTakenInOnce'
    PROVE  IInv'
<1>1. /\ client' \in [Clients -> Client] /\ client'[p] = Idle
      /\ \A q \in Clients : q # p => client'[q] = client[q]
  BY IdleLemma DEF IInv, TypeOK, Client
<1>2. /\ DOMAIN inventory = Variants /\ DOMAIN purchases = Purchases
      /\ p # Nobody /\ \A q \in Clients : q # Nobody
  BY NobodyAssumption DEF IInv, TypeOK
<1>3. TypeOK'
  <2>1. sequence' \in Clients \cup {Nobody} /\ made' \in 0..MaxRequests
    BY DEF IInv, TypeOK
  <2> QED BY <1>1, <2>1 DEF TypeOK, Client
<1>4. /\ \A v \in Variants : IF inventory[v].by = p
                             THEN inventory'[v].by = Nobody /\ inventory'[v].live = inventory'[v].com
                             ELSE inventory'[v] = inventory[v]
      /\ \A d \in Purchases : IF purchases[d].by = p
                              THEN purchases'[d].by = Nobody /\ purchases'[d].live = purchases'[d].com
                              ELSE purchases'[d] = purchases[d]
  BY <1>2 DEF Ended, Cell
<1>5. ASSUME NEW q \in Clients
      PROVE  Sound(q)'
  <2>1. CASE q = p
    <3>1. Op(p)' = "NONE" /\ client'[p].pc = "idle" /\ client'[p].todo = {}
      BY <1>1 DEF Op, Idle, Blank
    <3>2. Placed(p)'
      BY <3>1 DEF Placed, Op
    <3>3. HoldsItsGoods(p)'
      BY <1>2, <1>4, <3>1, NoGoods DEF Receiving
    <3>4. HoldsItsPurchase(p)'
      BY <1>2, <1>4, NoPurchases
    <3>5. KnowsItsPurchase(p)'
      BY <3>1 DEF KnowsItsPurchase
    <3> QED BY <2>1, <3>2, <3>3, <3>4, <3>5 DEF Sound
  <2>2. CASE q # p
    <3>1. \A v \in Variants : inventory[v].by = q \/ inventory'[v].by = q
                              => inventory'[v] = inventory[v]
      BY <2>2, <1>2, <1>4
    <3>2. \A d \in Purchases : purchases[d].by = q \/ purchases'[d].by = q
                               => purchases'[d] = purchases[d]
      BY <2>2, <1>2, <1>4
    <3> QED BY <2>2, <1>1, <3>1, <3>2, OthersLemma
  <2> QED BY <2>1, <2>2
<1>6. FreeRowsAreCommitted'
  BY <1>4 DEF IInv, FreeRowsAreCommitted
<1> QED BY <1>3, <1>5, <1>6 DEF IInv

\* A rollback leaves what is committed alone.
LEMMA RollbackLemma ==
    ASSUME IInv, NEW p \in Clients, Rollback(p)
    PROVE  /\ IInv'
           /\ \A v \in Variants : inventory'[v].com = inventory[v].com
<1>1. /\ inventory \in [Variants -> Cells(Rows)]
      /\ purchases \in [Purchases -> Cells(PurchaseRows)]
      /\ inventory' = RolledBack(inventory, p) /\ purchases' = RolledBack(purchases, p)
  BY DEF IInv, TypeOK, Rollback
<1>2. /\ inventory' \in [Variants -> Cells(Rows)] /\ Ended(inventory, inventory', p)
      /\ purchases' \in [Purchases -> Cells(PurchaseRows)] /\ Ended(purchases, purchases', p)
  BY <1>1, EndLemma, ClosedLemma
<1>3. \A v \in Variants : inventory'[v].com = inventory[v].com
  <2> SUFFICES ASSUME NEW v \in Variants
               PROVE  inventory'[v].com = inventory[v].com
    OBVIOUS
  <2>1. inventory'[v] = IF inventory[v].by = p THEN Cell(inventory[v].com) ELSE inventory[v]
    BY <1>1, EndLemma
  <2>2. Cell(inventory[v].com).com = inventory[v].com
    BY DEF Cell
  <2> QED BY <2>1, <2>2
<1>4. \A d \in Purchases : purchases'[d].com = purchases[d].com
  <2> SUFFICES ASSUME NEW d \in Purchases
               PROVE  purchases'[d].com = purchases[d].com
    OBVIOUS
  <2>1. purchases'[d] = IF purchases[d].by = p THEN Cell(purchases[d].com) ELSE purchases[d]
    BY <1>1, EndLemma
  <2>2. Cell(purchases[d].com).com = purchases[d].com
    BY DEF Cell
  <2> QED BY <2>1, <2>2
<1>5. GoodsTakenInOnce'
  <2>1. \A d \in Purchases, v \in Variants : Once(inventory[v].com, purchases[d].com, d, v)
    BY DEF IInv, GoodsTakenInOnce, Once
  <2>2. \A d \in Purchases, v \in Variants : Once(inventory'[v].com, purchases'[d].com, d, v)
    BY <1>3, <1>4, <2>1
  <2> QED BY <2>2 DEF GoodsTakenInOnce, Once
<1> QED BY <1>2, <1>3, <1>4, <1>5, EndStepLemma DEF Rollback

\* What a commit makes of the committed rows.
LEMMA CommittedRows ==
    ASSUME IInv, NEW p \in Clients, Commit(p)
    PROVE  /\ \A v \in Variants : inventory'[v].com =
                 IF inventory[v].by = p THEN inventory[v].live ELSE inventory[v].com
           /\ \A d \in Purchases : purchases'[d].com =
                 IF purchases[d].by = p THEN purchases[d].live ELSE purchases[d].com
<1>1. /\ inventory \in [Variants -> Cells(Rows)]
      /\ purchases \in [Purchases -> Cells(PurchaseRows)]
      /\ inventory' = Committed(inventory, p) /\ purchases' = Committed(purchases, p)
  BY DEF IInv, TypeOK, Commit
<1>2. ASSUME NEW v \in Variants
      PROVE  inventory'[v].com = IF inventory[v].by = p THEN inventory[v].live ELSE inventory[v].com
  <2>1. inventory'[v] = IF inventory[v].by = p THEN Cell(inventory[v].live) ELSE inventory[v]
    BY <1>1, EndLemma
  <2>2. Cell(inventory[v].live).com = inventory[v].live
    BY DEF Cell
  <2> QED BY <2>1, <2>2
<1>3. ASSUME NEW d \in Purchases
      PROVE  purchases'[d].com = IF purchases[d].by = p THEN purchases[d].live ELSE purchases[d].com
  <2>1. purchases'[d] = IF purchases[d].by = p THEN Cell(purchases[d].live) ELSE purchases[d]
    BY <1>1, EndLemma
  <2>2. Cell(purchases[d].live).com = purchases[d].live
    BY DEF Cell
  <2> QED BY <2>1, <2>2
<1> QED BY <1>2, <1>3

\* A movement for something else leaves the receipts of a purchase alone.
LEMMA OtherMovement ==
    ASSUME NEW row \in Rows, NEW bought, NEW d, NEW v, Once(row, bought, d, v),
           NEW type, NEW q, NEW ref, ref # PurchaseRef(d)
    PROVE  Once(Applied(row, type, q, ref), bought, d, v)
<1> DEFINE new == Applied(row, type, q, ref)
<1>1. /\ Receipts(new, d) = Receipts(row, d)
      /\ \A i \in Receipts(row, d) : new.log[i] = row.log[i]
  <2> DEFINE last == Len(row.log) + 1
  <2>1. /\ Receipts(new, d) =
              Receipts(row, d) \cup (IF ref = PurchaseRef(d) THEN {last} ELSE {})
        /\ \A i \in Receipts(row, d) : new.log[i] = row.log[i]
    BY ReceiptsLemma
  <2> HIDE DEF new, last
  <2>2. Receipts(new, d) = Receipts(row, d) \cup {}
    BY <2>1
  <2> QED BY <2>1, <2>2
<1> HIDE DEF new
<1> QED BY <1>1 DEF Once, new

\* The receipt of a purchase nothing was taken in for.
LEMMA FirstReceipt ==
    ASSUME NEW row \in Rows, NEW bought, NEW d, NEW v, Receipts(row, d) = {},
           bought.status = "RECEIVED", bought.items[v] \in Nat, bought.items[v] > 0
    PROVE  Once(Applied(row, "PURCHASE", bought.items[v], PurchaseRef(d)), bought, d, v)
<1> DEFINE q   == bought.items[v]
           new == Applied(row, "PURCHASE", q, PurchaseRef(d))
           last == Len(row.log) + 1
<1>1. Receipts(new, d) = {last} /\ new.log[last].delta = Signed("PURCHASE", q)
  BY ReceiptsLemma
<1>2. Signed("PURCHASE", q) = q
  BY DEF Signed, Inbound
<1> HIDE DEF new, last
<1>3. \A i \in Receipts(new, d) : i = last /\ new.log[i].delta = q
  BY <1>1, <1>2
<1> QED BY <1>1, <1>3 DEF Once, new

\* What a client commits of a purchase it has created or received.
LEMMA ReceivedVersion ==
    ASSUME IInv, NEW p \in Clients, At(p, "commit"), Receiving(p)
    PROVE  LET d == client[p].req.purchase
           IN  /\ d \in Purchases /\ purchases[d].by = p
               /\ purchases[d].com.status \in {"NONE", "DRAFT"}
               /\ purchases[d].live.status = "RECEIVED"
               /\ purchases[d].live = Purchase(p)
               /\ Taken(p) = {v \in Variants : Purchase(p).items[v] > 0}
<1> DEFINE d == client[p].req.purchase
<1>1. client[p].pc = "commit" /\ client[p].todo = {}
  BY DEF At, IInv, Sound, Placed
<1>2. d \in Purchases /\ purchases[d].by = p
  <2>1. Op(p) \in {"CREATE", "RECEIVE"}
    BY DEF Receiving
  <2>2. d \in Purchases
    BY <2>1, SeeLemma, RequestLemma DEF Op
  <2> QED BY <1>1, <2>1, <2>2 DEF IInv, Sound, KnowsItsPurchase
<1>3. Purchase(p) = purchases[d].live
  BY <1>2 DEF Purchase, See
<1>4. purchases[d].com \in PurchaseRows
  BY <1>2 DEF IInv, TypeOK, Cells
<1>5. CASE Op(p) = "CREATE" /\ client[p].req.now
  <2>1. /\ purchases[d].com = NoPurchase
        /\ purchases[d].live = [status |-> IF client[p].pc = "commit" /\ client[p].req.now
                                          THEN "RECEIVED" ELSE "DRAFT",
                               items  |-> client[p].req.items]
    BY <1>2, <1>5 DEF IInv, Sound, HoldsItsPurchase
  <2>2. purchases[d].live.status = "RECEIVED"
    BY <1>1, <1>5, <2>1
  <2>3. purchases[d].com.status = "NONE"
    BY <2>1 DEF NoPurchase
  <2> QED BY <1>1, <1>2, <1>3, <2>2, <2>3 DEF Taken
<1>6. CASE Op(p) = "RECEIVE"
  <2>1. /\ purchases[d].com.status = "DRAFT"
        /\ purchases[d].live = [purchases[d].com EXCEPT !.status = "RECEIVED"]
    BY <1>2, <1>6 DEF IInv, Sound, HoldsItsPurchase
  <2> QED BY <1>1, <1>2, <1>3, <1>4, <2>1 DEF Taken, PurchaseRows
<1> QED BY <1>5, <1>6 DEF Receiving

\* A commit keeps the promise: it publishes the flip and the movements of a
\* receipt together.
LEMMA CommitOnce ==
    ASSUME IInv, NEW p \in Clients, Commit(p)
    PROVE  GoodsTakenInOnce'
<1> SUFFICES ASSUME NEW d \in Purchases, NEW v \in Variants
             PROVE  Once(inventory'[v].com, purchases'[d].com, d, v)
  BY DEF GoodsTakenInOnce, Once
<1> DEFINE row    == inventory[v].com
           bought == purchases[d].com
           D      == client[p].req.purchase
<1>1. Once(row, bought, d, v)
  BY DEF IInv, GoodsTakenInOnce, Once
<1>2. /\ row \in Rows /\ bought \in PurchaseRows /\ purchases[d].live \in PurchaseRows
  BY DEF IInv, TypeOK, Cells
<1>3. /\ client[p].pc = "commit" /\ At(p, "commit") /\ Sound(p)
  BY DEF Commit, At, IInv
<1>4. /\ inventory'[v].com = IF inventory[v].by = p THEN inventory[v].live ELSE row
      /\ purchases'[d].com = IF purchases[d].by = p THEN purchases[d].live ELSE bought
  BY CommittedRows
<1>5. CASE Receiving(p) /\ d = D
  <2>1. /\ purchases[d].by = p /\ bought.status \in {"NONE", "DRAFT"}
        /\ purchases[d].live.status = "RECEIVED" /\ purchases[d].live = Purchase(p)
        /\ Taken(p) = {x \in Variants : Purchase(p).items[x] > 0}
    BY <1>3, <1>5, ReceivedVersion
  <2>2. Receipts(row, d) = {}
    BY <1>1, <2>1 DEF Once
  <2> DEFINE q == purchases[d].live.items[v]
  <2>3. q \in Nat
    BY <1>2 DEF PurchaseRows
  <2>4. CASE inventory[v].by = p
    <3>1. /\ v \in Taken(p)
          /\ inventory[v].live = Applied(row, "PURCHASE", q, PurchaseRef(d))
      BY <1>3, <1>5, <2>1, <2>4 DEF Sound, HoldsItsGoods, Receiving
    <3>2. q > 0
      BY <2>1, <3>1
    <3>3. Once(Applied(row, "PURCHASE", q, PurchaseRef(d)), purchases[d].live, d, v)
      BY <1>2, <2>1, <2>2, <2>3, <3>2, FirstReceipt
    <3> QED BY <1>4, <2>1, <2>4, <3>1, <3>3
  <2>5. CASE inventory[v].by # p
    <3>1. v \notin Taken(p)
      BY <1>3, <1>5, <2>5 DEF Sound, HoldsItsGoods
    <3>2. ~(q > 0)
      BY <2>1, <3>1
    <3>3. Once(row, purchases[d].live, d, v)
      BY <2>1, <2>2, <3>2 DEF Once
    <3> QED BY <1>4, <2>1, <2>5, <3>3
  <2> QED BY <2>4, <2>5
<1>6. CASE Receiving(p) /\ d # D
  <2>1. purchases[d].by # p
    BY <1>3, <1>6 DEF Sound, HoldsItsPurchase
  <2>2. CASE inventory[v].by = p
    <3>1. PICK q : inventory[v].live = Applied(row, "PURCHASE", q, PurchaseRef(D))
      BY <1>3, <1>6, <2>2 DEF Sound, HoldsItsGoods, Receiving
    <3>2. PurchaseRef(D) # PurchaseRef(d)
      BY <1>6 DEF PurchaseRef
    <3>3. Once(Applied(row, "PURCHASE", q, PurchaseRef(D)), bought, d, v)
      BY <1>1, <1>2, <3>2, OtherMovement
    <3> QED BY <1>4, <2>1, <2>2, <3>1, <3>3
  <2> QED BY <1>1, <1>4, <2>1, <2>2
<1>7. CASE ~Receiving(p)
  <2>1. Once(row, purchases'[d].com, d, v)
    <3>1. CASE purchases[d].by = p
      <4>1. CASE Op(p) = "CREATE"
        <5>1. /\ bought = NoPurchase
              /\ purchases[d].live = [status |-> IF client[p].pc = "commit" /\ client[p].req.now
                                                THEN "RECEIVED" ELSE "DRAFT",
                                     items  |-> client[p].req.items]
          BY <1>3, <3>1, <4>1 DEF Sound, HoldsItsPurchase
        <5>2. ~client[p].req.now
          BY <1>3, <1>7, <4>1 DEF Receiving
        <5>3. purchases[d].live.status = "DRAFT"
          BY <5>1, <5>2
        <5>4. Receipts(row, d) = {}
          BY <1>1, <5>1 DEF Once, NoPurchase
        <5> QED BY <1>4, <3>1, <5>3, <5>4 DEF Once
      <4>2. CASE Op(p) = "CANCEL"
        <5>1. purchases[d].live = [bought EXCEPT !.status = "CANCELLED"]
          BY <1>3, <3>1, <4>2 DEF Sound, HoldsItsPurchase
        <5>2. /\ purchases[d].live.status = "CANCELLED"
              /\ purchases[d].live.items = bought.items
          BY <1>2, <5>1 DEF PurchaseRows
        <5> QED BY <1>1, <1>4, <3>1, <5>2 DEF Once
      <4> QED BY <1>3, <1>7, <3>1, <4>1, <4>2 DEF Sound, HoldsItsPurchase, Receiving
    <3> QED BY <1>1, <1>4, <3>1
  <2>2. CASE inventory[v].by = p
    <3>1. PICK type, q : inventory[v].live = Applied(row, type, q, Manual)
      BY <1>3, <1>7, <2>2 DEF Sound, HoldsItsGoods
    <3>2. Manual # PurchaseRef(d)
      BY DEF Manual, PurchaseRef
    <3>3. Once(Applied(row, type, q, Manual), purchases'[d].com, d, v)
      BY <1>2, <2>1, <3>2, OtherMovement
    <3> QED BY <1>4, <2>2, <3>1, <3>3
  <2> QED BY <1>4, <2>1, <2>2
<1> QED BY <1>5, <1>6, <1>7

\* A commit keeps the invariant.
LEMMA CommitLemma ==
    ASSUME IInv, NEW p \in Clients, Commit(p)
    PROVE  IInv'
<1>1. /\ inventory \in [Variants -> Cells(Rows)]
      /\ purchases \in [Purchases -> Cells(PurchaseRows)]
      /\ inventory' = Committed(inventory, p) /\ purchases' = Committed(purchases, p)
  BY DEF IInv, TypeOK, Commit
<1>2. /\ inventory' \in [Variants -> Cells(Rows)] /\ Ended(inventory, inventory', p)
      /\ purchases' \in [Purchases -> Cells(PurchaseRows)] /\ Ended(purchases, purchases', p)
  BY <1>1, EndLemma, ClosedLemma
<1>3. ASSUME NEW d \in Purchases, purchases[d].com.status # "NONE"
      PROVE  /\ purchases'[d].com.status # "NONE"
             /\ purchases'[d].com.items = purchases[d].com.items
  <2>1. CASE purchases[d].by = p
    <3>1. purchases[d].com # NoPurchase /\ purchases[d].com \in PurchaseRows
      BY <1>1, <1>3 DEF NoPurchase, Cells
    <3>2. \/ purchases[d].live = [purchases[d].com EXCEPT !.status = "RECEIVED"]
          \/ purchases[d].live = [purchases[d].com EXCEPT !.status = "CANCELLED"]
      BY <2>1, <3>1 DEF IInv, Sound, HoldsItsPurchase
    <3> QED BY <2>1, <3>1, <3>2, CommittedRows DEF PurchaseRows
  <2> QED BY <1>3, <2>1, CommittedRows
<1> QED BY <1>2, <1>3, CommitOnce, EndStepLemma DEF Commit

-----------------------------------------------------------------------------
\* The invariant.

\* The shelf as it is first opened is a row without receipts.
LEMMA OpenedLemma ==
    ASSUME NEW v \in Variants
    PROVE  Opened(v) \in Rows /\ \A d : Receipts(Opened(v), d) = {}
<1>1. Opening[v] \in Nat /\ EmptyRow \in Rows
  BY OpeningAssumption DEF EmptyRow, Rows
<1>2. \A d : Receipts(EmptyRow, d) = {}
  BY DEF Receipts, EmptyRow
<1>3. CASE Opening[v] > 0
  <2> DEFINE row == Applied(EmptyRow, "ADJUSTMENT_IN", Opening[v], Manual)
  <2>1. Accepts(EmptyRow, "ADJUSTMENT_IN", Opening[v])
    BY <1>1, <1>3 DEF Accepts, EmptyRow, Signed, Inbound
  <2>2. "ADJUSTMENT_IN" \in MovementTypes /\ Manual \in References
    BY DEF MovementTypes, Manual, References, ReferenceTypes
  <2>3. row \in Rows
    BY <1>1, <2>1, <2>2, MovementLemma
  <2>4. ASSUME NEW d
        PROVE  Receipts(row, d) = {}
    <3> DEFINE last == Len(EmptyRow.log) + 1
    <3>1. Manual # PurchaseRef(d)
      BY DEF Manual, PurchaseRef
    <3>2. Receipts(row, d) =
             Receipts(EmptyRow, d) \cup (IF Manual = PurchaseRef(d) THEN {last} ELSE {})
      BY <1>1, ReceiptsLemma
    <3> HIDE DEF row, last
    <3> QED BY <1>2, <3>1, <3>2
  <2>5. Opened(v) = row
    BY <1>3 DEF Opened
  <2> HIDE DEF row
  <2> QED BY <2>3, <2>4, <2>5
<1>4. CASE ~(Opening[v] > 0)
  BY <1>1, <1>2, <1>4 DEF Opened
<1> QED BY <1>3, <1>4

\* The invariant holds at first.
LEMMA InitIInv == Init => IInv
<1> SUFFICES ASSUME Init
             PROVE  IInv
  OBVIOUS
<1>1. /\ \A v \in Variants : inventory[v] = Cell(Opened(v))
      /\ \A d \in Purchases : purchases[d] = Cell(NoPurchase)
      /\ \A p \in Clients : client[p] = Idle
  BY DEF Init
<1>2. \A row : Cell(row).by = Nobody /\ Cell(row).live = row /\ Cell(row).com = row
  BY DEF Cell
<1>3. /\ \A v \in Variants : /\ inventory[v].by = Nobody
                             /\ inventory[v].live = Opened(v) /\ inventory[v].com = Opened(v)
      /\ \A d \in Purchases : /\ purchases[d].by = Nobody
                              /\ purchases[d].live = NoPurchase /\ purchases[d].com = NoPurchase
      /\ \A p \in Clients : p # Nobody
  BY <1>1, <1>2, NobodyAssumption
<1>4. TypeOK
  <2>1. \A R : \A row \in R : Cell(row) \in Cells(R)
    BY DEF Cell, Cells
  <2>2. inventory \in [Variants -> Cells(Rows)]
    BY <2>1, OpenedLemma DEF Init
  <2>3. purchases \in [Purchases -> Cells(PurchaseRows)]
    BY <2>1, IdleLemma DEF Init
  <2>4. client \in [Clients -> Client]
    BY IdleLemma DEF Init
  <2>5. sequence \in Clients \cup {Nobody} /\ made \in 0..MaxRequests
    BY AmountsAssumption DEF Init
  <2> QED BY <2>2, <2>3, <2>4, <2>5 DEF TypeOK, Client
<1>5. ASSUME NEW p \in Clients
      PROVE  Sound(p)
  <2>1. Op(p) = "NONE" /\ client[p].pc = "idle" /\ client[p].todo = {}
    BY <1>1 DEF Op, Idle, Blank
  <2>2. Placed(p) /\ KnowsItsPurchase(p)
    BY <2>1 DEF Placed, KnowsItsPurchase, Op
  <2>3. HoldsItsGoods(p) /\ HoldsItsPurchase(p)
    BY <1>3, <2>1 DEF HoldsItsGoods, HoldsItsPurchase, Receiving
  <2> QED BY <2>2, <2>3 DEF Sound
<1>6. FreeRowsAreCommitted
  BY <1>3 DEF FreeRowsAreCommitted
<1>7. GoodsTakenInOnce
  <2> SUFFICES ASSUME NEW d \in Purchases, NEW v \in Variants
               PROVE  Once(inventory[v].com, purchases[d].com, d, v)
    BY DEF GoodsTakenInOnce, Once
  <2>1. Receipts(inventory[v].com, d) = {} /\ purchases[d].com.status = "NONE"
    BY <1>3, OpenedLemma DEF NoPurchase
  <2> QED BY <2>1 DEF Once
<1> QED BY <1>4, <1>5, <1>6, <1>7 DEF IInv

\* Every step keeps it.
LEMMA StepIInv == IInv /\ [Next]_vars => IInv'
<1> SUFFICES ASSUME IInv, [Next]_vars
             PROVE  IInv'
  OBVIOUS
<1>1. CASE UNCHANGED vars
  <2>1. /\ inventory' = inventory /\ purchases' = purchases /\ client' = client
        /\ sequence' = sequence /\ made' = made
    BY <1>1 DEF vars
  <2>2. \A q \in Clients : Sound(q)'
    BY <2>1, OthersLemma
  <2>3. FreeRowsAreCommitted' /\ TypeOK'
    BY <2>1 DEF IInv, FreeRowsAreCommitted, TypeOK
  <2>4. GoodsTakenInOnce'
    BY <2>1 DEF IInv, GoodsTakenInOnce
  <2> QED BY <2>2, <2>3, <2>4 DEF IInv
<1>2. ASSUME NEW p \in Clients, Step(p)
      PROVE  IInv'
  BY <1>2, BeginLemma, InsertPurchaseLemma, ReadForReceiptLemma, TakeInLemma, FlipReceivedLemma,
     ReadForCancelLemma, WriteCancelledLemma, ReadForAdjustLemma, SetTargetLemma,
     AdjustStockLemma, CommitLemma, RollbackLemma DEF Step
<1> QED BY <1>1, <1>2 DEF Next

\* The inductive invariant holds, whatever order the statements of however
\* many clients come in.
THEOREM Invariant == Spec => []IInv
BY InitIInv, StepIInv, PTL DEF Spec

\* Every row keeps the shape of its table while transactions interleave; in
\* particular no committed or pending quantity is negative.
THEOREM TypeCorrect == Spec => []TypeOK
<1>1. IInv => TypeOK
  BY DEF IInv
<1> QED BY <1>1, Invariant, PTL

\* However many receipts and cancellations of a purchase interleave, its
\* goods are taken in at most once: the flip of receiveInTx matches a DRAFT
\* only, under the row lock, and is published with the movements.
THEOREM GoodsAreTakenInOnce == Spec => []GoodsTakenInOnce
<1>1. IInv => GoodsTakenInOnce
  BY DEF IInv
<1> QED BY <1>1, Invariant, PTL

-----------------------------------------------------------------------------
\* The stock ledger.

\* What a commit makes of the inventory.
LEMMA CommitMoves ==
    ASSUME IInv, NEW p \in Clients, Commit(p)
    PROVE  Ledger!LedgerNext
<1>1. DOMAIN inventory = Variants /\ DOMAIN inventory' = Variants
  BY CommitLemma DEF IInv, TypeOK
<1>2. ASSUME NEW v \in Variants
      PROVE  \/ Snapshot(inventory')[v] = Snapshot(inventory)[v]
             \/ Ledger!OneMovement(Snapshot(inventory)[v], Snapshot(inventory')[v])
  <2>1. /\ Snapshot(inventory)[v] = inventory[v].com
        /\ Snapshot(inventory')[v] = inventory'[v].com
    BY <1>1 DEF Snapshot
  <2>2. inventory[v].by = p => Ledger!OneMovement(inventory[v].com, inventory[v].live)
    BY DEF IInv, Sound, HoldsItsGoods
  <2> QED BY <2>1, <2>2, CommittedRows
<1>3. Snapshot(inventory') = [v \in Variants |-> Snapshot(inventory')[v]]
  BY <1>1 DEF Snapshot
<1> QED BY <1>2, <1>3 DEF Ledger!LedgerNext

\* Every other step leaves the committed stock alone.
LEMMA OthersMoveNothing ==
    ASSUME IInv, NEW p \in Clients, Step(p), ~Commit(p)
    PROVE  Snapshot(inventory') = Snapshot(inventory)
<1>1. inventory \in [Variants -> Cells(Rows)] /\ DOMAIN inventory = Variants
  BY DEF IInv, TypeOK
<1>2. DOMAIN inventory' = Variants
  BY StepIInv DEF Next, IInv, TypeOK
<1>3. CASE UNCHANGED inventory
  BY <1>3
<1>4. ASSUME NEW v \in Variants, NEW row, inventory' = [inventory EXCEPT ![v] = Written(@, p, row)]
      PROVE  Snapshot(inventory') = Snapshot(inventory)
  <2>1. inventory[v] \in Cells(Rows)
    BY <1>1
  <2>2. Written(inventory[v], p, row).com = inventory[v].com
    BY <2>1 DEF Written, Cells
  <2>3. inventory'[v] = Written(inventory[v], p, row)
    BY <1>1, <1>4
  <2>4. \A x \in Variants : inventory'[x].com = inventory[x].com
    BY <1>1, <1>4, <2>2, <2>3
  <2> QED BY <1>1, <1>2, <2>4 DEF Snapshot
<1>5. CASE Rollback(p)
  BY <1>1, <1>2, <1>5, RollbackLemma DEF Snapshot
<1>6. ASSUME NEW v \in Variants, TakeIn(p, v)
      PROVE  Snapshot(inventory') = Snapshot(inventory)
  BY <1>4, <1>6 DEF TakeIn
<1>7. CASE AdjustStock(p)
  <2>1. client[p].req.variant \in Variants
    BY <1>7, SeeLemma, RequestLemma DEF AdjustStock, At, IInv, Sound, Placed
  <2> QED BY <1>4, <1>7, <2>1 DEF AdjustStock
<1> QED BY <1>3, <1>5, <1>6, <1>7 DEF Step, Begin, InsertPurchase, ReadForReceipt, FlipReceived,
           ReadForCancel, WriteCancelled, ReadForAdjust, SetTarget, WritePurchase, Reads

\* The statements of interleaving receipts, cancellations and adjustments
\* implement the promise of InventoryService: the committed stock changes by
\* ledgered movements only and never falls below zero.
THEOREM StockIsSafe == Spec => StockIsLedgered
<1>1. Init => Ledger!LedgerInit
  <2> SUFFICES ASSUME Init
               PROVE  Ledger!LedgerInit
    OBVIOUS
  <2>1. inventory = [v \in Variants |-> Cell(Opened(v))]
    BY DEF Init
  <2>2. Snapshot(inventory) = [v \in Variants |-> Opened(v)]
    BY <2>1 DEF Snapshot, Cell
  <2>3. \A v \in Variants : Ledger!Opened(v) = Opened(v)
    BY DEF Ledger!Opened, Opened, Ledger!Applied, Applied, Ledger!Signed, Signed,
           Ledger!Inbound, Inbound, Ledger!EmptyRow, EmptyRow, Ledger!Manual, Manual
  <2> QED BY <2>2, <2>3 DEF Ledger!LedgerInit
<1>2. IInv /\ [Next]_vars => [Ledger!LedgerNext]_(Snapshot(inventory))
  <2> SUFFICES ASSUME IInv, [Next]_vars
               PROVE  Ledger!LedgerNext \/ Snapshot(inventory)' = Snapshot(inventory)
    OBVIOUS
  <2>1. CASE UNCHANGED vars
    BY <2>1 DEF vars, Snapshot
  <2>2. ASSUME NEW p \in Clients, Step(p)
        PROVE  Ledger!LedgerNext \/ Snapshot(inventory)' = Snapshot(inventory)
    BY <2>2, CommitMoves, OthersMoveNothing DEF Snapshot
  <2> QED BY <2>1, <2>2 DEF Next
<1> QED BY <1>1, <1>2, Invariant, PTL DEF Spec, StockIsLedgered, Ledger!LedgerSpec

-----------------------------------------------------------------------------
\* ApplyChange: the three statements that make a movement.

Mover == [at : {"rest", "next", "updated", "read"}, todo : SUBSET Changes,
          change : Changes \cup {NoChange}, newQuantity : Nat,
          entries : [Variants -> Seq(Entries)]]

\* A client with nothing in hand is well formed.
LEMMA RestingLemma == Resting \in Mover /\ NoEntries \in [Variants -> Seq(Entries)]
<1>1. << >> \in Seq(Entries)
  OBVIOUS
<1>2. NoEntries \in [Variants -> Seq(Entries)]
  BY <1>1 DEF NoEntries
<1> QED BY <1>2 DEF Resting, Mover

\* What a client holds and has in hand is its own affair: a step that leaves
\* its record and its rows alone, and does not give it any, does not disturb it.
LEMMA OtherMovers ==
    ASSUME MoveTypeOK, NEW q \in Clients, HoldsWhatItRecords(q), mover'[q] = mover[q],
           \A v \in Variants : quantity[v].by = q \/ quantity'[v].by = q
                                  => quantity'[v] = quantity[v]
    PROVE  HoldsWhatItRecords(q)'
<1>1. mover[q].todo \subseteq Changes
  BY DEF MoveTypeOK
<1>2. /\ mover[q].at \in {"updated", "read"} =>
            mover[q].change \in mover[q].todo /\ quantity'[mover[q].change.variant].by = q
      /\ mover[q].at = "rest" => mover[q].entries = NoEntries
      /\ \A c, d \in mover[q].todo : c.variant = d.variant => c = d
  BY <1>1 DEF HoldsWhatItRecords, Changes
<1>3. ASSUME NEW v \in Variants
      PROVE  IF quantity'[v].by = q
             THEN \/ InRecording(q, v)'
                  \/ Recorded(q, v)' /\ \A c \in mover[q].todo : c.variant # v
             ELSE mover[q].entries[v] = << >>
  <2>1. quantity'[v].by = q <=> quantity[v].by = q
    OBVIOUS
  <2>2. CASE quantity[v].by = q
    <3>1. quantity'[v] = quantity[v]
      BY <2>2
    <3>2. InRecording(q, v)' = InRecording(q, v) /\ Recorded(q, v)' = Recorded(q, v)
      BY <3>1 DEF InRecording, Recorded
    <3> QED BY <2>2, <3>1, <3>2 DEF HoldsWhatItRecords
  <2>3. CASE quantity[v].by # q
    BY <2>1, <2>3 DEF HoldsWhatItRecords
  <2> QED BY <2>2, <2>3
<1> QED BY <1>2, <1>3 DEF HoldsWhatItRecords

\* At first nobody holds anything.
LEMMA MoveInitInv == MoveInit => MoveInv
<1> SUFFICES ASSUME MoveInit
             PROVE  MoveInv
  OBVIOUS
<1>1. ASSUME NEW v \in Variants
      PROVE  /\ quantity[v] = Cell(Opened(v).qty) /\ quantity[v] \in Cells(Nat)
             /\ quantity[v].by = Nobody /\ quantity[v].live = quantity[v].com
             /\ ledger[v] \in Seq(Entries)
  BY OpenedLemma DEF MoveInit, Rows, Cell, Cells
<1>2. /\ quantity \in [Variants -> Cells(Nat)] /\ ledger \in [Variants -> Seq(Entries)]
      /\ mover \in [Clients -> Mover] /\ begun \in 0..MaxBatches
  BY <1>1, RestingLemma, BatchesAssumption DEF MoveInit
<1>3. ASSUME NEW p \in Clients
      PROVE  HoldsWhatItRecords(p)
  <2>1. mover[p] = Resting
    BY DEF MoveInit
  <2> QED BY <1>1, <2>1, NobodyAssumption DEF HoldsWhatItRecords, Resting, NoEntries
<1> QED BY <1>1, <1>2, <1>3 DEF MoveInv, MoveTypeOK, Mover

\* The UPDATE: the row is the client's, and the change is in hand.
LEMMA UpdateKeeps ==
    ASSUME MoveInv, NEW p \in Clients, NEW c \in mover[p].todo, UpdateQuantity(p, c)
    PROVE  MoveInv'
<1> DEFINE v == c.variant
           row == See(quantity[v], p) + Delta(c)
<1>1. /\ c \in Changes /\ v \in Variants /\ c.quantity \in Nat /\ c.quantity > 0
      /\ Delta(c) \in Int /\ mover[p] \in Mover /\ quantity[v] \in Cells(Nat)
  BY DEF MoveInv, MoveTypeOK, Mover, Changes, Delta, Signed, UpdateQuantity
<1>2. See(quantity[v], p) \in Nat /\ row \in Nat
  BY <1>1 DEF See, Cells, UpdateQuantity
<1>3. quantity \in [Variants -> Cells(Nat)]
  BY DEF MoveInv, MoveTypeOK
<1>4. quantity' = [quantity EXCEPT ![v] = Written(@, p, row)]
  BY DEF UpdateQuantity
<1> HIDE DEF row
<1>5. /\ quantity' \in [Variants -> Cells(Nat)]
      /\ \A x \in Variants : x # v => quantity'[x] = quantity[x]
      /\ quantity'[v].by = p /\ quantity'[v].live = row /\ quantity'[v].com = quantity[v].com
  BY <1>1, <1>2, <1>3, <1>4, WriteLemma
<1>6. mover' = [mover EXCEPT ![p].at = "updated", ![p].change = c]
  BY DEF UpdateQuantity
<1>7. /\ mover'[p] = [mover[p] EXCEPT !.at = "updated", !.change = c]
      /\ \A q \in Clients : q # p => mover'[q] = mover[q]
  BY <1>6 DEF MoveInv, MoveTypeOK
<1>8. MoveTypeOK'
  <2>1. mover'[p] \in Mover
    BY <1>1, <1>7 DEF Mover
  <2>2. mover' \in [Clients -> Mover]
    BY <1>6, <1>7, <2>1 DEF MoveInv, MoveTypeOK, Mover
  <2> QED BY <1>5, <2>2 DEF MoveInv, MoveTypeOK, UpdateQuantity, Mover
<1>9. \A x \in Variants : quantity'[x].by = Nobody => quantity'[x].live = quantity'[x].com
  BY <1>5, NobodyAssumption DEF MoveInv
<1>10. Free(quantity[v], p) /\ mover[p].at = "next"
  BY DEF UpdateQuantity
<1>11. HoldsWhatItRecords(p)'
  \* The row was nobody's, for one the client held has no change left.
  <2>1. quantity[v].by # p
    <3>1. ~InRecording(p, v) /\ c \in mover[p].todo
      BY <1>10 DEF InRecording
    <3> QED BY <1>1, <3>1 DEF MoveInv, HoldsWhatItRecords
  <2>2. row = quantity[v].com + Delta(c) /\ mover[p].entries[v] = << >>
    BY <1>1, <1>10, <2>1 DEF row, See, MoveInv, HoldsWhatItRecords
  <2>3. /\ mover'[p].at = "updated" /\ mover'[p].change = c
        /\ mover'[p].todo = mover[p].todo /\ mover'[p].entries = mover[p].entries
    BY <1>1, <1>7 DEF Mover
  <2>4. InRecording(p, v)'
    BY <1>1, <1>5, <2>2, <2>3 DEF InRecording
  <2>5. ASSUME NEW x \in Variants, x # v
        PROVE  IF quantity'[x].by = p
               THEN Recorded(p, x)' /\ \A d \in mover'[p].todo : d.variant # x
               ELSE mover'[p].entries[x] = << >>
    <3>1. ~InRecording(p, x) /\ quantity'[x] = quantity[x]
      BY <1>5, <1>10, <2>5 DEF InRecording
    <3>2. Recorded(p, x)' = Recorded(p, x)
      BY <2>3, <3>1 DEF Recorded
    <3> QED BY <2>3, <3>1, <3>2 DEF MoveInv, HoldsWhatItRecords
  <2>6. \A d, e \in mover[p].todo : d.variant = e.variant => d = e
    BY DEF MoveInv, HoldsWhatItRecords
  <2> QED BY <1>5, <2>3, <2>4, <2>5, <2>6 DEF HoldsWhatItRecords
<1>12. ASSUME NEW q \in Clients, q # p
       PROVE  HoldsWhatItRecords(q)'
  <2>1. quantity[v].by # q
    BY <1>1, <1>10, <1>12, NobodyAssumption DEF Free
  <2>2. \A x \in Variants : quantity[x].by = q \/ quantity'[x].by = q
                               => quantity'[x] = quantity[x]
    BY <1>5, <1>12, <2>1
  <2> QED BY <1>7, <1>12, <2>2, OtherMovers DEF MoveInv
<1> QED BY <1>8, <1>9, <1>11, <1>12 DEF MoveInv

\* A new transaction has nothing in hand.
LEMMA StartKeeps ==
    ASSUME MoveInv, NEW p \in Clients, NEW batch \in Batches, Start(p, batch)
    PROVE  MoveInv'
<1>1. /\ quantity' = quantity /\ mover[p].at = "rest" /\ mover[p] \in Mover
      /\ mover'[p] = [mover[p] EXCEPT !.at = "next", !.todo = batch]
      /\ \A q \in Clients : q # p => mover'[q] = mover[q]
  BY DEF MoveInv, MoveTypeOK, Start, Mover
<1>2. batch \subseteq Changes /\ \A c, d \in batch : c.variant = d.variant => c = d
  BY BatchesAssumption
<1>3. MoveTypeOK'
  <2>1. mover'[p] \in Mover
    BY <1>1, <1>2 DEF Mover
  <2>2. mover' \in [Clients -> Mover]
    BY <1>1, <2>1 DEF MoveInv, MoveTypeOK, Mover, Start
  <2>3. begun' \in 0..MaxBatches
    BY BatchesAssumption DEF Start, MoveInv, MoveTypeOK
  <2> QED BY <1>1, <2>2, <2>3 DEF MoveInv, MoveTypeOK, Start, Mover
<1>4. HoldsWhatItRecords(p)'
  <2>1. /\ mover'[p].at = "next" /\ mover'[p].todo = batch
        /\ mover'[p].entries = NoEntries
    BY <1>1 DEF Mover, MoveInv, HoldsWhatItRecords
  <2>2. \A v \in Variants : quantity[v].by # p /\ NoEntries[v] = << >>
    BY <1>1 DEF MoveInv, HoldsWhatItRecords, InRecording, Recorded, NoEntries
  <2> QED BY <1>1, <1>2, <2>1, <2>2 DEF HoldsWhatItRecords
<1>5. \A q \in Clients : q # p => HoldsWhatItRecords(q)'
  BY <1>1, OtherMovers DEF MoveInv
<1> QED BY <1>1, <1>3, <1>4, <1>5 DEF MoveInv

\* The SELECT reads what the UPDATE left, for the row is held.
LEMMA ReadBackKeeps ==
    ASSUME MoveInv, NEW p \in Clients, ReadBack(p)
    PROVE  MoveInv'
<1> DEFINE v == mover[p].change.variant
<1>1. /\ quantity' = quantity /\ mover[p].at = "updated" /\ mover[p] \in Mover
      /\ mover'[p] = [mover[p] EXCEPT !.at = "read", !.newQuantity = See(quantity[v], p)]
      /\ \A q \in Clients : q # p => mover'[q] = mover[q]
  BY DEF MoveInv, MoveTypeOK, ReadBack, Mover
<1>2. mover[p].change \in mover[p].todo /\ v \in Variants /\ quantity[v].by = p
  BY <1>1 DEF MoveInv, HoldsWhatItRecords, Mover, Changes
<1>3. See(quantity[v], p) = quantity[v].live /\ quantity[v].live \in Nat
  BY <1>2 DEF See, MoveInv, MoveTypeOK, Cells
<1> HIDE DEF v
<1>4. MoveTypeOK'
  <2>1. mover'[p] \in Mover
    BY <1>1, <1>3 DEF Mover
  <2>2. mover' \in [Clients -> Mover]
    BY <1>1, <2>1 DEF MoveInv, MoveTypeOK, Mover, ReadBack
  <2> QED BY <1>1, <2>2 DEF MoveInv, MoveTypeOK, ReadBack, Mover
<1>5. HoldsWhatItRecords(p)'
  <2>1. /\ mover'[p].at = "read" /\ mover'[p].newQuantity = quantity[v].live
        /\ mover'[p].todo = mover[p].todo /\ mover'[p].entries = mover[p].entries
        /\ mover'[p].change = mover[p].change
    BY <1>1, <1>3 DEF Mover
  <2>2. ASSUME NEW x \in Variants
        PROVE  /\ Recorded(p, x)' = Recorded(p, x)
               /\ InRecording(p, x) => InRecording(p, x)'
    BY <1>1, <2>1, <2>2 DEF Recorded, InRecording, v
  <2> QED BY <1>1, <1>2, <2>1, <2>2 DEF MoveInv, HoldsWhatItRecords, v
<1>6. \A q \in Clients : q # p => HoldsWhatItRecords(q)'
  BY <1>1, OtherMovers DEF MoveInv
<1> QED BY <1>1, <1>4, <1>5, <1>6 DEF MoveInv

\* The INSERT: the movement in hand is recorded.
LEMMA InsertKeeps ==
    ASSUME MoveInv, NEW p \in Clients, InsertEntry(p)
    PROVE  MoveInv'
<1> PICK c : c = mover[p].change
  OBVIOUS
<1> PICK v : v = c.variant
  OBVIOUS
<1> PICK e : e = EntryOf(c, mover[p].newQuantity)
  OBVIOUS
<1>1. /\ quantity' = quantity /\ mover[p].at = "read" /\ mover[p] \in Mover
      /\ \A q \in Clients : q # p => mover'[q] = mover[q]
  BY DEF MoveInv, MoveTypeOK, InsertEntry, Mover
<1>2. /\ c \in mover[p].todo /\ c \in Changes /\ v \in Variants /\ quantity[v].by = p
      /\ \A d \in mover[p].todo : d.variant = v => d = c
  BY <1>1 DEF MoveInv, HoldsWhatItRecords, Mover, Changes
<1>3. InRecording(p, v)
  <2>1. c \in mover[p].todo /\ c.variant = v
    BY <1>2
  <2> QED BY <1>2, <2>1 DEF MoveInv, HoldsWhatItRecords
<1>4. /\ mover[p].newQuantity = quantity[v].live /\ mover[p].entries[v] = << >>
      /\ quantity[v].live = quantity[v].com + Delta(c) /\ c.quantity > 0
  BY <1>1, <1>3 DEF InRecording
<1>5. /\ quantity[v].live \in Nat /\ quantity[v].com \in Nat /\ c.quantity \in Nat
      /\ Delta(c) \in Int /\ c.type \in MovementTypes /\ c.ref \in References
  BY <1>2 DEF MoveInv, MoveTypeOK, Cells, Changes, Delta, Signed
<1>6. /\ e \in Entries /\ e.delta = Delta(c) /\ e.type = c.type
      /\ e.prev = quantity[v].com /\ e.new = quantity[v].live
  <2>1. mover[p].newQuantity - Delta(c) = quantity[v].com
    BY <1>4, <1>5
  <2>2. e = [type |-> c.type, delta |-> Delta(c), prev |-> quantity[v].com,
             new |-> quantity[v].live, ref |-> c.ref]
    BY <1>4, <2>1 DEF EntryOf
  <2> QED BY <1>5, <2>2 DEF Entries
<1>7. e.delta # 0 /\ e.delta = Signed(e.type, Magnitude(e.delta))
  BY <1>4, <1>5, <1>6 DEF Delta, Signed, Magnitude
<1>8. Append(mover[p].entries[v], e) = <<e>> /\ <<e>> \in Seq(Entries)
  BY <1>4, <1>6
<1>9. mover'[p] = [at |-> "next", todo |-> mover[p].todo \ {c}, change |-> NoChange,
                   newQuantity |-> 0,
                   entries |-> [mover[p].entries EXCEPT ![v] = Append(@, e)]]
  BY DEF InsertEntry, MoveInv, MoveTypeOK
<1>10. /\ mover'[p].at = "next" /\ mover'[p].todo = mover[p].todo \ {c}
       /\ mover'[p].change = NoChange
       /\ mover'[p].entries \in [Variants -> Seq(Entries)]
       /\ mover'[p].entries[v] = <<e>>
       /\ \A x \in Variants : x # v => mover'[p].entries[x] = mover[p].entries[x]
  <2>1. mover[p].entries \in [Variants -> Seq(Entries)]
    BY <1>1 DEF Mover
  <2> DEFINE new == [mover[p].entries EXCEPT ![v] = Append(@, e)]
  <2>2. /\ mover'[p].at = "next" /\ mover'[p].todo = mover[p].todo \ {c}
        /\ mover'[p].change = NoChange /\ mover'[p].entries = new
    BY <1>9
  <2>3. new[v] = <<e>> /\ \A x \in Variants : x # v => new[x] = mover[p].entries[x]
    BY <1>2, <1>8, <2>1
  <2>4. new \in [Variants -> Seq(Entries)]
    BY <1>2, <1>8, <2>1
  <2> QED BY <2>2, <2>3, <2>4
<1>11. MoveTypeOK'
  <2>1. mover'[p] \in Mover
    BY <1>1, <1>9, <1>10 DEF Mover
  <2>2. mover' \in [Clients -> Mover]
    BY <1>1, <2>1 DEF MoveInv, MoveTypeOK, Mover, InsertEntry
  <2> QED BY <1>1, <2>2 DEF MoveInv, MoveTypeOK, InsertEntry, Mover
<1>12. HoldsWhatItRecords(p)'
  <2>1. Recorded(p, v)' /\ \A d \in mover'[p].todo : d.variant # v
    <3>1. <<e>>[1] = e /\ Len(<<e>>) = 1
      OBVIOUS
    <3>2. mover'[p].entries[v][1] = e /\ Len(mover'[p].entries[v]) = 1
      BY <1>10, <3>1
    <3>3. e.new = e.prev + e.delta
      BY <1>4, <1>6
    <3>4. Recorded(p, v)'
      BY <1>1, <1>6, <1>7, <3>2, <3>3 DEF Recorded
    <3> QED BY <1>2, <1>10, <3>4
  <2>2. ASSUME NEW x \in Variants, x # v
        PROVE  IF quantity'[x].by = p
               THEN Recorded(p, x)' /\ \A d \in mover'[p].todo : d.variant # x
               ELSE mover'[p].entries[x] = << >>
    <3>1. ~InRecording(p, x)
      BY <2>2 DEF InRecording
    <3>2. Recorded(p, x)' = Recorded(p, x)
      BY <1>1, <1>10, <2>2 DEF Recorded
    <3> QED BY <1>1, <1>10, <2>2, <3>1, <3>2 DEF MoveInv, HoldsWhatItRecords
  <2>3. \A d, f \in mover[p].todo : d.variant = f.variant => d = f
    BY DEF MoveInv, HoldsWhatItRecords
  <2>4. ASSUME NEW x \in Variants
        PROVE  IF quantity'[x].by = p
               THEN \/ InRecording(p, x)'
                    \/ Recorded(p, x)' /\ \A d \in mover'[p].todo : d.variant # x
               ELSE mover'[p].entries[x] = << >>
    <3>1. CASE x = v
      BY <1>1, <1>2, <2>1, <3>1
    <3>2. CASE x # v
      BY <2>2, <3>2
    <3> QED BY <3>1, <3>2
  <2>5. \A d, f \in mover'[p].todo : d.variant = f.variant => d = f
    BY <1>10, <2>3
  <2> QED BY <1>10, <2>4, <2>5 DEF HoldsWhatItRecords
<1>13. \A q \in Clients : q # p => HoldsWhatItRecords(q)'
  BY <1>1, OtherMovers DEF MoveInv
<1> QED BY <1>1, <1>11, <1>12, <1>13 DEF MoveInv

\* Either end leaves the client with nothing and its rows with nobody.
LEMMA BatchEnds ==
    ASSUME MoveInv, NEW p \in Clients, CommitBatch(p) \/ UndoBatch(p)
    PROVE  /\ quantity' \in [Variants -> Cells(Nat)] /\ mover' \in [Clients -> Mover]
           /\ \A v \in Variants : quantity'[v].by = Nobody => quantity'[v].live = quantity'[v].com
           /\ \A q \in Clients : HoldsWhatItRecords(q)'
<1>1. quantity \in [Variants -> Cells(Nat)]
  BY DEF MoveInv, MoveTypeOK
<1>2. quantity' \in [Variants -> Cells(Nat)] /\ Ended(quantity, quantity', p)
  <2>1. /\ Committed(quantity, p) \in [Variants -> Cells(Nat)]
        /\ RolledBack(quantity, p) \in [Variants -> Cells(Nat)]
        /\ Ended(quantity, Committed(quantity, p), p) /\ Ended(quantity, RolledBack(quantity, p), p)
    BY <1>1, EndLemma, ClosedLemma
  <2> QED BY <2>1 DEF CommitBatch, UndoBatch
<1>3. ASSUME NEW v \in Variants
      PROVE  IF quantity[v].by = p
             THEN quantity'[v].by = Nobody /\ quantity'[v].live = quantity'[v].com
             ELSE quantity'[v] = quantity[v]
  BY <1>1, <1>2 DEF Ended, Cell
<1>4. mover' = [mover EXCEPT ![p] = Resting]
  BY DEF CommitBatch, UndoBatch
<1>5. /\ mover' \in [Clients -> Mover] /\ mover'[p] = Resting
      /\ \A q \in Clients : q # p => mover'[q] = mover[q]
  BY <1>4, RestingLemma DEF MoveInv, MoveTypeOK, Mover
<1>6. HoldsWhatItRecords(p)'
  <2>1. \A v \in Variants : quantity'[v].by # p
    BY <1>3, NobodyAssumption
  <2> QED BY <1>5, <2>1 DEF HoldsWhatItRecords, Resting, NoEntries
<1>7. ASSUME NEW q \in Clients, q # p
      PROVE  HoldsWhatItRecords(q)'
  <2>1. \A v \in Variants : quantity[v].by = q \/ quantity'[v].by = q
                               => quantity'[v] = quantity[v]
    BY <1>3, <1>7, NobodyAssumption
  <2> QED BY <1>5, <1>7, <2>1, OtherMovers DEF MoveInv
<1> QED BY <1>2, <1>3, <1>5, <1>6, <1>7 DEF MoveInv

\* What a commit publishes of a variant: nothing, or the one movement that the
\* client has recorded.
LEMMA PublishedLemma ==
    ASSUME MoveInv, NEW p \in Clients, CommitBatch(p), NEW v \in Variants
    PROVE  /\ ledger'[v] \in Seq(Entries)
           /\ \/ CommittedStock'[v] = CommittedStock[v]
              \/ Promise!OneMovement(CommittedStock[v], CommittedStock'[v])
<1>1. /\ quantity \in [Variants -> Cells(Nat)] /\ ledger[v] \in Seq(Entries)
      /\ mover[p].entries[v] \in Seq(Entries) /\ mover[p].todo = {} /\ mover[p].at = "next"
  BY DEF MoveInv, MoveTypeOK, CommitBatch
<1>2. /\ quantity'[v] = IF quantity[v].by = p THEN Cell(quantity[v].live) ELSE quantity[v]
      /\ ledger'[v] = ledger[v] \o mover[p].entries[v]
  <2>1. Committed(quantity, p)[v] = IF quantity[v].by = p THEN Cell(quantity[v].live) ELSE quantity[v]
    BY <1>1, EndLemma
  <2> QED BY <2>1 DEF CommitBatch
<1>3. /\ CommittedStock[v] = [qty |-> quantity[v].com, log |-> ledger[v]]
      /\ CommittedStock'[v] = [qty |-> quantity'[v].com, log |-> ledger'[v]]
  BY DEF CommittedStock
<1>4. ledger'[v] \in Seq(Entries)
  BY <1>1, <1>2
<1>5. CASE quantity[v].by # p
  <2>1. mover[p].entries[v] = << >>
    BY <1>5 DEF MoveInv, HoldsWhatItRecords
  <2>2. ledger[v] \o << >> = ledger[v]
    BY <1>1
  <2> QED BY <1>2, <1>3, <1>4, <1>5, <2>1, <2>2
<1>6. CASE quantity[v].by = p
  <2> DEFINE e == mover[p].entries[v][1]
             old == CommittedStock[v]
             new == CommittedStock'[v]
  <2>1. Recorded(p, v)
    BY <1>1, <1>6 DEF MoveInv, HoldsWhatItRecords, InRecording
  <2>2. /\ Len(mover[p].entries[v]) = 1 /\ e.delta # 0
        /\ e.delta = Signed(e.type, Magnitude(e.delta))
        /\ e.prev = quantity[v].com /\ e.new = quantity[v].live /\ e.new = e.prev + e.delta
    BY <2>1 DEF Recorded
  <2>3. e \in Entries
    <3>1. 1 \in 1..Len(mover[p].entries[v])
      BY <2>2
    <3> QED BY <1>1, <3>1
  <2>4. ledger[v] \o mover[p].entries[v] = Append(ledger[v], e)
    <3>1. mover[p].entries[v] = <<e>>
      BY ONLY <1>1, <2>2
    <3>2. \A s \in Seq(Entries), x \in Entries : s \o <<x>> = Append(s, x)
      OBVIOUS
    <3> QED BY ONLY <1>1, <2>3, <3>1, <3>2
  <2>5. old.qty = e.prev /\ old.log = ledger[v]
    BY <1>3, <2>2
  <2>6. new = [qty |-> e.new, log |-> Append(ledger[v], e)]
    BY <1>2, <1>3, <1>6, <2>2, <2>4 DEF Cell
  <2> HIDE DEF e, old, new
  <2>7. /\ e.delta \in Int /\ e.prev \in Nat /\ e.new \in Nat
        /\ e = [type |-> e.type, delta |-> e.delta, prev |-> e.prev, new |-> e.new, ref |-> e.ref]
    BY <2>3 DEF Entries
  <2>8. Promise!Magnitude(e.delta) > 0 /\ e.delta = Promise!Signed(e.type, Promise!Magnitude(e.delta))
    BY <2>2, <2>7 DEF Promise!Magnitude, Magnitude, Promise!Signed, Signed, Promise!Inbound, Inbound
  <2>9. Promise!Accepts(old, e.type, Promise!Magnitude(e.delta))
    BY <2>2, <2>5, <2>7, <2>8 DEF Promise!Accepts
  <2>10. new = Promise!Applied(old, e.type, Promise!Magnitude(e.delta), e.ref)
    <3>1. e.new - e.delta = e.prev /\ old.qty + e.delta = e.new
      BY <2>2, <2>5, <2>7
    <3> QED BY <2>5, <2>6, <2>7, <2>8, <3>1 DEF Promise!Applied
  <2>11. /\ new.log = Append(ledger[v], e) /\ Len(new.log) = Len(old.log) + 1
         /\ new.log[Len(new.log)] = e
    BY <1>1, <2>3, <2>5, <2>6
  <2>12. Promise!OneMovement(old, new)
    BY <2>9, <2>10, <2>11 DEF Promise!OneMovement
  <2> QED BY <1>4, <2>12 DEF old, new
<1> QED BY <1>5, <1>6

\* The invariant of applyChange, statement by statement.
LEMMA MoveStepInv == MoveInv /\ [MoveNext]_moveVars => MoveInv'
<1> SUFFICES ASSUME MoveInv, [MoveNext]_moveVars
             PROVE  MoveInv'
  OBVIOUS
<1>1. CASE UNCHANGED moveVars
  BY <1>1 DEF moveVars, MoveInv, MoveTypeOK, HoldsWhatItRecords, InRecording, Recorded
<1>2. ASSUME NEW p \in Clients, CommitBatch(p)
      PROVE  MoveInv'
  <2>1. \A v \in Variants : ledger'[v] \in Seq(Entries)
    BY <1>2, PublishedLemma
  <2>2. ledger' \in [Variants -> Seq(Entries)]
    BY <1>2, <2>1 DEF CommitBatch
  <2> QED BY <1>2, <2>2, BatchEnds DEF MoveInv, MoveTypeOK, CommitBatch, Mover
<1>3. ASSUME NEW p \in Clients, UndoBatch(p)
      PROVE  MoveInv'
  BY <1>3, BatchEnds DEF MoveInv, MoveTypeOK, UndoBatch, Mover
<1> QED BY <1>1, <1>2, <1>3, StartKeeps, UpdateKeeps, ReadBackKeeps, InsertKeeps DEF MoveNext, MoveStep

\* The UPDATE, the SELECT and the INSERT of applyChange, with the statements
\* of any number of other transactions between them, implement the promise of
\* InventoryService: what is committed changes by whole movements, each entry
\* saying what its UPDATE found and left.
THEOREM StatementsAreMovements == MoveSpec => StatementsMakeMovements
<1>1. MoveInit => Promise!LedgerInit
  <2> SUFFICES ASSUME MoveInit
               PROVE  Promise!LedgerInit
    OBVIOUS
  <2>1. \A v \in Variants : Promise!Opened(v) = Opened(v)
    BY DEF Promise!Opened, Opened, Promise!Applied, Applied, Promise!Signed, Signed,
           Promise!Inbound, Inbound, Promise!EmptyRow, EmptyRow, Promise!Manual, Manual
  <2>2. ASSUME NEW v \in Variants
        PROVE  [qty |-> quantity[v].com, log |-> ledger[v]] = Opened(v)
    <3>1. quantity[v].com = Opened(v).qty /\ ledger[v] = Opened(v).log
      BY DEF MoveInit, Cell
    <3>2. Opened(v) = [qty |-> Opened(v).qty, log |-> Opened(v).log]
      BY OpenedLemma DEF Rows
    <3> QED BY <3>1, <3>2
  <2> QED BY <2>1, <2>2 DEF Promise!LedgerInit, CommittedStock
<1>2. MoveInv /\ [MoveNext]_moveVars => [Promise!LedgerNext]_CommittedStock
  <2> SUFFICES ASSUME MoveInv, [MoveNext]_moveVars
               PROVE  Promise!LedgerNext \/ CommittedStock' = CommittedStock
    OBVIOUS
  <2>1. CASE UNCHANGED <<quantity, ledger>>
    BY <2>1 DEF CommittedStock
  <2>2. ASSUME NEW p \in Clients, CommitBatch(p)
        PROVE  Promise!LedgerNext
    <3>1. CommittedStock' = [v \in Variants |-> CommittedStock'[v]]
      BY DEF CommittedStock
    <3> QED BY <2>2, <3>1, PublishedLemma DEF Promise!LedgerNext
  <2>3. ASSUME NEW p \in Clients, UndoBatch(p)
        PROVE  CommittedStock' = CommittedStock
    <3>1. quantity \in [Variants -> Cells(Nat)]
      BY DEF MoveInv, MoveTypeOK
    <3>2. \A v \in Variants : quantity'[v].com = quantity[v].com
      <4>1. \A v \in Variants : RolledBack(quantity, p)[v] =
               IF quantity[v].by = p THEN Cell(quantity[v].com) ELSE quantity[v]
        BY <3>1, EndLemma
      <4>2. quantity' = RolledBack(quantity, p)
        BY <2>3 DEF UndoBatch
      <4>3. ASSUME NEW v \in Variants
            PROVE  quantity'[v].com = quantity[v].com
        <5>1. quantity'[v] = IF quantity[v].by = p THEN Cell(quantity[v].com) ELSE quantity[v]
          BY ONLY <4>1, <4>2, <4>3
        <5> QED BY ONLY <5>1 DEF Cell
      <4> QED BY <4>3
    <3> QED BY <2>3, <3>2 DEF CommittedStock, UndoBatch
  <2>4. ASSUME NEW p \in Clients, NEW c \in mover[p].todo, UpdateQuantity(p, c)
        PROVE  CommittedStock' = CommittedStock
    <3>1. quantity \in [Variants -> Cells(Nat)]
      BY DEF MoveInv, MoveTypeOK
    <3>2. \A v \in Variants : quantity'[v].com = quantity[v].com
      BY <2>4, <3>1 DEF UpdateQuantity, Written, Cells
    <3> QED BY <2>4, <3>2 DEF CommittedStock, UpdateQuantity
  <2> QED BY <2>1, <2>2, <2>3, <2>4 DEF MoveNext, MoveStep, moveVars, Start, ReadBack, InsertEntry
<1> QED BY <1>1, <1>2, MoveInitInv, MoveStepInv, PTL
        DEF MoveSpec, StatementsMakeMovements, Promise!LedgerSpec
=============================================================================
