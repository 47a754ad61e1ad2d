----------------------------- MODULE Storefront -----------------------------
(***************************************************************************)
(* A signed-in customer's page on the cart service: the cart it shows      *)
(* (useCart.tsx), the cart page and the checkout page.                     *)
(*                                                                         *)
(* What the page shows is an entry of react-query's cache.  It is replaced *)
(* by the answer of each cart operation, and fetched again when a page     *)
(* invalidates it: a fetch under way is then given up and a new one begun, *)
(* and whoever awaited the old one goes on.  Calls and their answers may   *)
(* overtake each other; the network may lose either.                       *)
(***************************************************************************)
EXTENDS CartService, FiniteSets

CONSTANT MaxMishaps  \* bound on the answers lost and the orders left

\* Calls are numbered in the order they are made.
ASSUME CallsAssumption == Clients \subseteq Nat \ {0} /\ MaxMishaps \in Nat

VARIABLES
    page,    \* the cart shown, its fetch, and the checkout page
    out,     \* the calls whose answer the page awaits
    history  \* alone: calls nothing overtook; clean: so was what is shown last;
             \* mishaps: answers lost and orders left to themselves

vars == <<rows, lastId, offered, orders, serving, page, out, history>>

NoFetch == [at |-> "none", view |-> EmptyView, alone |-> FALSE]

Init ==
    /\ CartInit
    /\ page = [cart |-> View, fetch |-> NoFetch,
               checkout |-> FALSE,    \* the checkout page is open
               placing |-> Nobody,    \* its order under way
               waiting |-> {},        \* the orders whose handlers await the fetch
               leaving |-> {}]        \* and those that await the customer's data
    /\ out = {}
    /\ history = [alone |-> {}, clean |-> TRUE, mishaps |-> 0]

-----------------------------------------------------------------------------
\* Calls.

Working(c) == serving[c].pc \notin {"idle", "over"} \/ c \in out
Busy       == \E c \in Clients : Working(c)

\* A call begins: nothing under way is alone from here on.
Call(c, op, vs, q) ==
    /\ serving[c].pc = "idle" /\ \A d \in Clients : d < c => serving[d].pc # "idle"
    /\ serving' = [serving EXCEPT ![c] = Received(op, vs, q)]
    /\ out' = out \cup {c}
    /\ history' = [history EXCEPT !.alone = IF Busy \/ page.fetch.at # "none" THEN {} ELSE {c}]
    /\ UNCHANGED <<rows, lastId, offered, orders>>

Overtaken == [page EXCEPT !.fetch.alone = FALSE]

\* The handlers that awaited the cart go on: a failed order is over, one that
\* was made has the customer's data fetched as well.
Resumed(p) ==
    LET failed == {w \in p.waiting : ~w.placed}
    IN  [p EXCEPT !.waiting = {},
                  !.leaving = @ \cup {w.call : w \in p.waiting \ failed},
                  !.placing = IF @ \in {w.call : w \in failed} THEN Nobody ELSE @]

\* Invalidation of the cart, awaited by the orders in ws.
Refetching(p, ws) ==
    [Resumed(p) EXCEPT !.fetch = [at |-> "sent", view |-> EmptyView, alone |-> ~Busy'],
                       !.waiting = ws]

\* The product page adds one unit.
AddToCart(c, v) ==
    /\ Call(c, "ADD", {v}, 1)
    /\ page' = Overtaken

\* A line of the cart, in the drawer or on the cart page; its controls are
\* disabled by their own call only, and both places have a set of them.
ChangeLine(c, v) ==
    /\ page.cart.lines[v] > 0
    /\ \E q \in 1..MaxQuantity \ {page.cart.lines[v]} : Call(c, "SET", {v}, q)
    /\ page' = Overtaken

RemoveLine(c, v) ==
    /\ page.cart.lines[v] > 0
    /\ Call(c, "REMOVE", {v}, 0)
    /\ page' = Overtaken

\* The checkout page refreshes the cart when it opens.  So does the cart page:
\* that is the same as to open this one and to leave it.
OpenCheckout ==
    /\ ~page.checkout
    /\ UNCHANGED <<cartVars, out, history>>
    /\ page' = [Refetching(page, {}) EXCEPT !.checkout = TRUE]

Mishap(clean) ==
    /\ history.mishaps < MaxMishaps
    /\ history' = [history EXCEPT !.mishaps = @ + 1, !.clean = clean]

\* Another page is opened; the handlers of an order under way still run.
Leave ==
    /\ page.checkout
    /\ page' = [page EXCEPT !.checkout = FALSE, !.placing = Nobody]
    /\ IF page.placing = Nobody THEN UNCHANGED history ELSE Mishap(history.clean)
    /\ UNCHANGED <<cartVars, out>>

\* Bug: the button is not disabled while an order is under way.
MayPlaceAgain == page.checkout /\ page.cart.ready

\* The button is there, neither blocked nor loading; a click is taken to come
\* after the render that shows the order under way.
MayPlace == page.checkout /\ page.cart.ready /\ page.placing = Nobody

PlaceOrder(c) ==
    /\ MayPlace
    /\ Call(c, "CHECKOUT", {}, 0)
    /\ page' = [Overtaken EXCEPT !.placing = c]

-----------------------------------------------------------------------------
\* Answers.

Shown(p, view, alone) ==
    /\ page' = [p EXCEPT !.cart = view]
    /\ history' = [history EXCEPT !.clean = alone]

\* Bug: only the customer's data is invalidated, not the cart.
AfterOrderKeepingCart(c, placed) ==
    IF placed THEN [page EXCEPT !.leaving = @ \cup {c}]
    ELSE Refetching(page, {[call |-> c, placed |-> FALSE]})

\* onSuccess and onError of the checkout both fetch the cart again first.
AfterOrder(c, placed) == Refetching(page, {[call |-> c, placed |-> placed]})

\* Then onSuccess fetches the customer's data, which may fail as well, and
\* opens the page of the order.
Navigate(c) ==
    /\ c \in page.leaving
    /\ page' = [page EXCEPT !.leaving = @ \ {c}, !.checkout = FALSE,
                            !.placing = IF @ = c THEN Nobody ELSE @]
    /\ UNCHANGED <<cartVars, out, history>>

Answer(c) ==
    LET s == serving[c]
        done == s.reply = "done"
    IN  /\ c \in out /\ s.reply # "none"
        /\ out' = out \ {c}
        /\ serving' = [serving EXCEPT ![c] = [Quiet EXCEPT !.pc = "over"]]
        /\ CASE s.op = "CHECKOUT" -> page' = AfterOrder(c, done) /\ UNCHANGED history
             [] s.op # "CHECKOUT" /\ done -> Shown(page, s.view, c \in history.alone)
             [] s.op = "ADD" /\ ~done -> page' = Refetching(page, {}) /\ UNCHANGED history
             [] OTHER -> UNCHANGED <<page, history>>
        /\ UNCHANGED <<rows, lastId, offered, orders>>

\* The network gives up a call: it never arrived, or only its answer is lost.
Lose(c) ==
    /\ c \in out
    /\ out' = out \ {c}
    /\ \/ /\ serving' = [serving EXCEPT ![c] = [Quiet EXCEPT !.pc = "over"]]
          /\ serving[c].pc = FirstStep(serving[c].op, serving[c].qty)
          /\ serving[c].attempt <= 1
       \/ UNCHANGED serving
    /\ page' = CASE serving[c].op = "CHECKOUT" -> AfterOrder(c, FALSE)
                 [] serving[c].op = "ADD"      -> Refetching(page, {})
                 [] OTHER                      -> page
    /\ Mishap(FALSE)
    /\ UNCHANGED <<rows, lastId, offered, orders>>

\* The server reads the cart for the fetch, and the answer comes.
ServeFetch ==
    /\ page.fetch.at = "sent"
    /\ page' = [page EXCEPT !.fetch.at = "back", !.fetch.view = View]
    /\ UNCHANGED <<cartVars, out, history>>

FetchAnswered ==
    /\ page.fetch.at = "back"
    /\ Shown([Resumed(page) EXCEPT !.fetch = NoFetch], page.fetch.view, page.fetch.alone)
    /\ UNCHANGED <<cartVars, out>>

\* Bug: whoever awaits the fetch waits on.
FailWithoutResuming ==
    /\ page.fetch.at # "none"
    /\ page' = [page EXCEPT !.fetch = NoFetch]
    /\ history' = [history EXCEPT !.clean = FALSE]
    /\ UNCHANGED <<cartVars, out>>

\* All attempts of a fetch fail; one repeated with success was only served later.
FetchFails ==
    /\ page.fetch.at # "none"
    /\ page' = [Resumed(page) EXCEPT !.fetch = NoFetch]
    /\ history' = [history EXCEPT !.clean = FALSE]
    /\ UNCHANGED <<cartVars, out>>

-----------------------------------------------------------------------------
ServerStep(c) == Serve(c) /\ UNCHANGED <<page, out, history>>
Failure(c)    == Abort(c) /\ UNCHANGED <<page, out, history>>
Trading       == Trade /\ UNCHANGED <<page, out, history>>

Next ==
    \/ \E c \in Clients :
        \/ \E v \in Variants : AddToCart(c, v) \/ ChangeLine(c, v) \/ RemoveLine(c, v)
        \/ PlaceOrder(c)
        \/ ServerStep(c) \/ Failure(c) \/ Answer(c) \/ Lose(c) \/ Navigate(c)
    \/ OpenCheckout \/ Leave
    \/ ServeFetch \/ FetchAnswered \/ FetchFails
    \/ Trading

\* The server works on what it has received, and its answers arrive.
Fairness ==
    /\ \A c \in Clients : WF_vars(ServerStep(c)) /\ WF_vars(Answer(c)) /\ WF_vars(Navigate(c))
    /\ WF_vars(ServeFetch) /\ WF_vars(FetchAnswered)

Spec == Init /\ [][Next]_vars /\ Fairness

-----------------------------------------------------------------------------
\* Properties.

Rows    == [id : Nat, qty : Nat]
Views   == [lines : [Variants -> Nat], ready : BOOLEAN]
Ops     == {"NONE", "ADD", "SET", "REMOVE", "CHECKOUT"}
Labels  == {"idle", "add", "find", "update", "delete", "get",
            "cart", "order", "empty", "commit", "over"}
Servings == [op : Ops, variants : SUBSET Variants, qty : 0..MaxQuantity, pc : Labels,
             item : Nat, read : [Variants -> Rows], attempt : 0..MaxAttempts,
             reply : {"none", "done", "refused", "failed"}, view : Views]

\* Every part of the database, the calls and the page has its shape, and no
\* row of the cart is left without units.
TypeOK ==
    /\ rows \in [Variants -> Cells(Rows)] /\ lastId \in Nat
    /\ \A v \in Held : rows[v].com.qty > 0
    /\ offered \subseteq Variants
    /\ orders \in Seq([Variants -> Rows])
    /\ serving \in [Clients -> Servings]
    /\ page \in [cart : Views, fetch : [at : {"none", "sent", "back"}, view : Views, alone : BOOLEAN],
                 checkout : BOOLEAN, placing : Clients \cup {Nobody},
                 waiting : SUBSET [call : Clients, placed : BOOLEAN], leaving : SUBSET Clients]
    /\ out \subseteq Clients
    /\ history \in [alone : SUBSET Clients, clean : BOOLEAN, mishaps : 0..MaxMishaps]

\* The cart rows an order was made from.
Consumed(i) == {<<v, orders[i][v].id>> : v \in {v \in Variants : orders[i][v] # NoRow}}

\* A customer who loses no answer and stays on the checkout page never orders
\* a line of the cart twice, however long the server takes and however often
\* its transaction is run again.
OrderedOnce ==
    history.mishaps = 0 =>
        \A i, j \in DOMAIN orders : i # j => Consumed(i) \cap Consumed(j) = {}

\* The cart is emptied by the customer or together with an order, never by a
\* checkout that fails; and an order nothing overtook takes exactly what was
\* in the cart.
EmptiedByOrder ==
    [][/\ \A v \in Held : rows'[v].com.id # rows[v].com.id =>
            \/ orders' # orders
            \/ \E c \in Clients : At(c, "delete") /\ v \in serving[c].variants
       /\ \A c \in history.alone :
            At(c, "commit") /\ orders' # orders => orders'[Len(orders')] = Snapshot(rows)]_vars

\* Once nothing is under way, the cart shown is the server's cart, unless an
\* answer was lost or overtaken since the last one that was not.
ShownIsServed ==
    ~Busy /\ page.fetch.at = "none" /\ history.clean => page.cart.lines = View.lines

\* The spinner of the checkout always ends: the order page opens, or the
\* button can be pressed again, or the customer has left.
CheckoutSettles ==
    \A c \in Clients : page.placing = c ~> page.placing # c
=============================================================================
