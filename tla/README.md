# Formal model of the shop backend

TLA+ specifications of the shop in `src/`: an Express and Prisma API on
PostgreSQL (`src/src`, `src/prisma`) and a React client (`src/web/src`). The subject
is what decides whether stock, documents, prices and sessions come out right
when requests overlap, fail half way and are tried again. Paths that begin with
`src/` are relative to the directory above this one; short ones such as
`order.service.ts` or `config/constants.ts` are under `src/src` (services under
`src/src/services`), and those of the client under `src/web/src`.

The modules state what the code does, TLC explores them on small instances, and
TLAPS proves most of the properties for every value of the constants (section 6).
One run is expected to find a violation: there the code does not do what one of
its own comments says (section 7). Other sequences the code does not guard
against are described, without a run, in section 8.

Contents: 1 the system; 2 the modules; 3 models and code; 4 the runs; 5 fairness;
6 the proofs; 7 disagreements; 8 further interleavings; 9 what is not modelled;
10 the plan.

## 1. The system

### 1.1 Components

| component | state | operations | hard behaviour | what makes it correct |
|---|---|---|---|---|
| Stock and its ledger (`services/inventory.service.ts`) | `inventory` (quantity per variant), `inventory_transactions` (append-only) | `applyChange`, `applyMany`, `adjust`, `setAbsolute`, `ensureRecord` | guarded UPDATE, then a second statement reads the quantity for the ledger; targets and reports come from earlier reads | quantity never negative, every change has one entry, entries form an unbroken chain to the quantity |
| Orders (`order.service.ts`) | `orders` (status, paymentStatus, stockCommitted), `order_items` | `createOrderInTx`, `updateStatus`, `cancel`, `commitStock`, `releaseStock`, `priceLines`, `computeTotals` | decisions from a first read, written back by an UPDATE with no condition; the flag is claimed by a conditional UPDATE | stock is taken once and put back at most once; status, payment and stock agree; terminal orders stay as they are |
| Point of sale (`pos.service.ts`) | the same rows; tickets are PENDING orders without stock | `createOrder` (ticket or sale), `complete`, `quote` | two cashiers complete one ticket; complete against cancel | a ticket is completed once |
| Storefront orders and server cart (`customerOrder.service.ts`) | the same rows, `carts`, `cart_items` | `create`, `cancelOwn`; `CartService.addItem`, `setItemQuantity`, `removeItem`, `clear`, `get` | checkout reads the cart, later deletes whatever is in it; cart operations are single statements outside a transaction | an order is made once from a cart, a checkout that fails leaves the cart alone |
| Returns (`return.service.ts`) | `returns` | `create` (one row per line, optionally accepted at once), `accept`, `reject` | eligibility is a sum over rows others are inserting | no more units come back than were sold; accepted exactly when credited |
| Purchases (`purchase.service.ts`) | `purchases`, `purchase_items` | `create` (optionally received at once), `receive`, `cancel` | goods are moved before the status is claimed | goods are taken in once, exactly if RECEIVED |
| Document numbers (`utils/sequence.ts`) | `number_sequences` | `nextSequence` | concurrent transactions on one row; failures after drawing | 1, 2, 3, ... without gaps or doubles |
| Transactions and retries (`db/transaction.ts`, `db/prisma.ts`) | connection pool, row locks | `runInTransaction` | deadlocks, P2024/P2028/P2034, timeouts, up to six attempts with back-off | every request is answered; its writes are made once if the answer says so, else not at all |
| Catalogue (`product`, `variant`, `category` services) | products, variants, images, categories | create, update, delete, primary image | check-then-write (uniqueness, history before deletion, one primary image), several statements per request | nothing with history is deleted, SKUs differ, one primary image, a product appears whole |
| Sign-in and sessions (`auth.service.ts`, `middleware/auth.ts`, `utils/jwt.ts`) | `sessions` | `login`, `refresh`, `logout`, `logoutAll`, `changePassword`, `authenticate` | rotation is three statements; either side may lose the answer | a rotation replaces a session |
| Web API client (`web/src/lib/apiClient.ts`) | tokens, single-flight latch | `execute`, `refreshSession` | answers of concurrent calls arrive before, during and after a rotation | each refresh token is presented once, calls are answered and take effect at most once |
| Guest cart (`web/src/hooks/useCart.tsx`, `useAuth.tsx`) | guest lines, local storage, merge flag | collect, drop, merge on sign-in | an effect whose dependencies it changes itself, renders that come late | units are merged once, nothing unmerged is thrown away |
| Cart, checkout and product pages (`useCart.tsx`, `CheckoutPage.tsx`, `CartPage.tsx`, `ProductDetailPage.tsx`) | the cart in react-query's cache, calls under way | add, change, remove, refresh, place order | answers overtake each other, fetches are replaced while somebody awaits them, answers are lost | the cart shown is the one served, the checkout always comes to an end |
| Reports (`report.service.ts`) | none | sales, products, inventory, purchases, returns, profit, dashboard | each picks its own statuses from its own table | together they account for the stock |
| Customers, suppliers, settings, audit log, HTTP layer, other pages, scripts | rows, or none | CRUD, routing, rendering | see section 9 | |

### 1.2 Interactions

- Orders, POS, storefront, returns and purchases all move stock through
  `InventoryService.applyChange`, inside the transaction of their request. They
  share the rows of `inventory`, and orders and returns share the order row.
- Every write path runs in `runInTransaction`, which may run the closure again.
- Every numbered document draws its number in its own transaction, so the row of
  the sequence stays locked until that transaction ends.
- The web client turns a 401 into one rotation of the session for all calls
  waiting, then repeats them; the guest cart is pushed line by line through the
  same client.
- The checkout page names the cart and sends no lines: the server reads the cart,
  makes the order and empties the cart in one transaction, while other calls of the
  same page may be changing it.
- The services of the catalogue look before they delete; the foreign keys of order
  and purchase lines decide when an order is written in between.

### 1.3 What is assumed of the environment

PostgreSQL at READ COMMITTED (`prisma/schema.prisma:14` names the provider,
`src/src/services/pos.service.ts:181-185` the isolation level). Module
`ReadCommitted` states what the services use of it: a SELECT sees committed
versions and its own; an UPDATE skips rows that do not match, waits for rows
others have written, and matches again afterwards; a transaction publishes all
or nothing. React and the browser are used through effects that run after a
render, promises that resume in the order they were awaited, and timers.

## 2. The modules

| module | what it is | extends / uses |
|---|---|---|
| `OrderStates` | enumerations and the transition table of `config/constants.ts` | |
| `Tables` | the rows the services share, `applyChange` as a function on a row | `OrderStates` |
| `StockLedger` | abstract: what `InventoryService` promises, whoever calls it | `Tables` |
| `Store` | all services that move stock, one atomic step per request | `StockLedger` |
| `ReadCommitted` | cells, row locks, commit and rollback of PostgreSQL | |
| `ApplyChange` | `applyChange` and `applyMany` statement by statement | `Tables`, `ReadCommitted`; INSTANCEs `StockLedger` |
| `OrderTx` | orders, POS and returns statement by statement, several clients | `Tables`, `ReadCommitted`; INSTANCEs `StockLedger` and `Store` |
| `PurchaseTx` | purchases and adjustments statement by statement | `Tables`, `ReadCommitted`; INSTANCEs `StockLedger` |
| `DocNumbers` | `nextSequence` under concurrent transactions | `ReadCommitted` |
| `Contract` | abstract: what `runInTransaction` promises | |
| `TxRetry` | attempts, back-off, pool, row locks, timeouts | `ReadCommitted`; INSTANCEs `Contract` |
| `Reports` | the unit counts of the reports over the rows of `Store` | `Store` |
| `Pricing` | `priceLines` and `computeTotals` while the catalogue changes, and the refund of a line | |
| `Catalogue` | categories, products, variants and images statement by statement | `ReadCommitted` |
| `CartService` | the cart on the server and the checkout, statement by statement | `ReadCommitted` |
| `Storefront` | the cart and checkout pages of one customer, on `CartService` | `CartService` |
| `GuestCart` | the guest cart of the page and its merge | |
| `Sessions` | calls, session rotation and sign-out of one page | |
| `Store_proofs`, `OrderTx_proofs`, `PurchaseTx_proofs`, `Sessions_proofs`, `Catalogue_proofs` | theorems | the module they are named after (`Store_proofs`: `Reports`; `PurchaseTx_proofs`: `ApplyChange` as well), `TLAPS` |
| `Transactions_proofs` | theorems about numbers, retries and prices | `DocNumbers`, `TxRetry`, `Pricing`, `TLAPS` |
| `Cart_proofs` | theorems about the two carts | `GuestCart`, `Storefront`, `TLAPS` |
| `Shared_proofs` | lemmas about cells and about sums | `ReadCommitted`, `Functions`, `TLAPS` |
| `MC...` | values of the constants and the symmetry for TLC | the module they are named after (`MCStatements`: `DocNumbers` and `ApplyChange`, with clients that draw numbers in some transactions and move stock in others) |

There are four refinements:

- `Store` implements `StockLedger` (`StockIsLedgered`): the stock part of every
  request is a set of single ledgered movements, one per variant.
- `ApplyChange` implements `StockLedger` (`StatementsMakeMovements`): the guarded UPDATE, the
  SELECT that reads the quantity back and the INSERT of the ledger entry come to one movement, which
  `Store`, `OrderTx` and `PurchaseTx` take in one step.
- `OrderTx` and `PurchaseTx` implement `StockLedger` under the mapping
  `inventory <- Snapshot(inventory)`, the committed state; and `OrderTx`,
  restricted to transactions that do not overlap, implements `Store`
  (`SerialRunsAreAtomic`). So `Store` is both the reading of the services as
  their authors think of them and the abstract specification of the detailed one.
- `TxRetry` implements `Contract` (`KeepsPromise`), liveness included.

All of them are proved (section 6), but for the liveness half of the last.

The operators marked "Bug:" in the modules are variants of the definition that
follows them, with a guard or a reset missing. Nothing uses them; they serve to
show that each property can tell such a program from the real one.

## 3. Models and code

### Store
`inventory[v]` is a record `[qty, log]`: the `inventory` row and its
`inventory_transactions`. `orders[o]` has `status`, `pay` (paymentStatus),
`committed` (stockCommitted) and `items` (quantity per variant). One action per
operation: `OpenTicket` and `SellNow` (`PosService.createOrder`), `CheckOut`
(`CustomerOrderService.create`), `Complete`, `Advance` and `Refund`
(`updateStatus`), `Cancel`, `CreateReturn`, `AcceptReturn`, `RejectReturn`,
`CreatePurchase`, `ReceivePurchase`, `CancelPurchase`, `Adjust`, `SetAbsolute`.
A refusal changes nothing, so it is no step. Owners, time windows, prices and
suppliers only refuse: the step may always not be taken.

### Reports
One operator per report, with the statuses it selects. The period is all time, since
orders, returns and purchases are dated by different events and a shorter period
need not balance. Amounts follow the units through prices that are read when the
report is made, so they are left out. `ReportsReconcile` says what the reports add up to and what
none of them counts: open tickets (sold before anything is taken) and refunded
orders (no longer sold, but the goods are gone).

### ApplyChange
`quantity[v]` is the `inventory` row as a cell, `ledger[v]` its committed entries; `mover[p]` is a
transaction that makes a set of movements (`todo`), with the movement in hand, the quantity it has
read back and the entries it has inserted. `UpdateQuantity`, `ReadBack` and `InsertEntry` are the
statements of `applyChange`; others may come between them, and `UndoBatch` at any point.

### OrderTx and PurchaseTx
Every table is an array of cells `[com, live, by]`: the committed version, the version of the
transaction that has written it, and that transaction, which holds the row. `client[p].pc` stands
before the next statement; the choice the service makes from an answer is part of the step that
reads it. `seen` is the order as the service read it at the start and decides from it; the claim
of the flag (`ClaimFlag`), of a ticket (`ClaimTicket`) and the movement of one line (`MoveLine`)
match the row as it is when it is free. `MoveLine`, `TakeIn`, `SetTarget` and `AdjustStock` take
the three statements of `applyChange` in one step, which `ApplyChange` justifies. `Rollback` may
come before any statement: refusals, deadlock victims, timeouts and crashes all leave no trace.
`sequences` records who holds the row of each number sequence, since that row serialises the
creation of documents of one kind.

### DocNumbers
`sequences[k]` is the row of key `k` as a cell; `issued[k]` the numbers on
committed documents. `Ensure`, `Bump` and `Number` are the three statements of
`nextSequence`; `File` is the INSERT of the document, after which a request with
several lines draws again.

### TxRetry
A request is the sequence of rows it locks (`Submit`). `Connect`, `NoConnection` (P2024),
`Lock`, `Succeed`, `Refuse` (an AppError), `Fail` (P2034 and P2028) and `Wake` are
the branches of `runInTransaction`. `applied` counts how often the writes of the
current request were committed.

### Pricing
`next` and `priced` are the loop of `priceLines`; `Change` is an admin's update between two of its
SELECTs; `ComputeTotals` ends it. Money is in cents: the validators admit at most two decimals
(`validators/order.schema.ts`). `offered` records which rows a variant has had meanwhile.
`order.schema.ts:26` admits any percentage from 0 to 100: `value` is in parts of one per cent,
`Scale` of them. `Shares` rounds half up, below zero as above it, as `Math.round` does; but the
product and the quotient of `order.service.ts:145` are binary, so half a cent of a percentage that
no binary fraction holds (`HeldExactly`) may come out a trifle lower and be rounded down. The
model allows either there.

`UnitRefund` is the rounded unit price of `eligibleQuantity`, `Refund` what `create`
stores for a return. The order's own discount takes no part in it.

### Catalogue
Rows are cells as in `OrderTx`; "none" is an id not handed out yet, "gone" a deleted row. A
request is a record of what the routes admit (`Requests`), and each of its statements is an
action: the look-up (`FindProduct`, `CountLines`, `CheckClash`), then the writes. What the schema
enforces is stated apart: `Holds` (a new row locks its parent), `Untraded` (order and purchase
lines restrict), `UniqueSku` (the unique index, which waits for other writers), and the cascades
of `DeleteProduct`. `TradeVariant` is a committed line of an order or a purchase. `crossed`
records that an addition of images overlapped another request on images, which the code does not
guard against. An `updateMany` is two steps, `BeginDemotion` and `Demote` on images,
`BeginRetirement` and `RetireVariants` on variants: it writes rows it has found, once they are
free, and misses those inserted meanwhile. Writes outside a transaction end at the next step,
`Commit`; holding the row until then adds no behaviour. An update of a product that names no
category leaves the one it has.

### CartService and Storefront
`rows[v]` is the cart row of a variant with its id, `serving[c]` what the server is
doing for call `c`: `AddItem`, `FindItem` and `UpdateItem`, `DeleteItems`, each a single committed
statement, and `Get` for the answer; `ReadCart`, `CreateOrder`, `EmptyCart`, `CommitOrder` for a
checkout, with `Abort` for a failure that `runInTransaction` repeats up to its last
attempt. `CreateOrder` takes or refuses the order as a whole: what it does to stock is in
`OrderTx`. `Trade` changes what the shop can sell.

`page.cart` is the entry of the query cache, `page.fetch` its fetch. Answers to cart operations
replace the entry (`setQueryData`); `Refetching` is `invalidateQueries`, which gives up a fetch
under way, lets those who awaited it go on (`Resumed`) and begins another. `page.waiting` are the
`onSuccess` and `onError` handlers of orders that await the cart, `page.leaving` those that go on
to await the customer's data before `Navigate`, `page.placing` the mutation that keeps the button
loading. `Lose` covers a call that never arrived and one whose answer alone is lost. `history` is
what the properties need to know of the past.

### GuestCart
`provider` is the state of `CartProvider`, `rendered` what the last render saw.
`Render` stores the lines, cleans up the previous run of the effect and begins a
merge if one is wanted; `Push`, `Clear` and `Finish` are the steps of the merge after
each `await`; `Reload` throws away what is under way in the page. Between a
change and its render, the answers of the server may come.

### Sessions
A token stands for the session it was issued with. `call[c].stage` follows
`execute` from the fetch to its result; `rotations` are the calls of
`/auth/refresh`, with the three statements of `AuthService.refresh` (`CheckSession`,
`Revoke`, `Issue`) apart; `latch` is `refreshInFlight`, which stays settled for a
moment before the timer of line 191 of `apiClient.ts` opens it. Promises resume before any
other callback runs, so `Settle` takes all calls that wait along. A sign-out
elsewhere, a password change and the end of the term are `EndSession`, the end of
the access token is `RunOut`. The model ends with the sign-out of the page.

## 4. The runs

Run one with `tlc -workers 2 -config MCStore.cfg MCStore`. Passing runs, their
bounds, and why these are enough:

| run (cfg) | bounds | distinct states | shows |
|---|---|---|---|
| store (`MCStore.cfg`) | 2 variants, 2 orders, 2 returns, 1 purchase, 1 adjustment; baskets of one and of two lines, opening stock 2 and 1 | 2.0 million | one request at a time: stock, ledger, orders, returns and purchases agree, and the unit counts of the reports add up; the services implement `StockLedger` |
| order_tx (`MCOrderTx.cfg`) | 2 clients, 1 order, 2 returns, 2 variants, 5 requests | 424 thousand | what guarded UPDATEs and row locks keep true under interleaving |
| order_tx_serial (`MCOrderTxSerial.cfg`) | 1 client, 2 orders, 2 returns, 4 requests | 19 thousand | transactions that do not overlap are the requests of `Store` |
| purchase_tx (`MCPurchaseTx.cfg`) | 2 clients, 1 purchase, 2 variants, 4 requests, amounts 0 to 2 | 766 thousand | receipts, cancellations and adjustments under interleaving |
| statements (`MCStatements.cfg`) | 3 clients; 2 keys, values up to 4; 2 variants, 4 transactions of one movement or two | 1.2 million | gap-free numbering whichever transactions fail; an UPDATE, the SELECT after it and the INSERT are one movement, whatever comes between |
| tx_retry (`MCTxRetry.cfg`) | 3 clients, 2 rows in both orders, 2 connections, 2 attempts | 223 thousand | retries keep the promise of `Contract`, and end |
| guest_cart (`MCGuestCart.cfg`) | 2 variants, 2 units of each, 2 merges | 248 thousand | one merge at a time, nothing is cleared that was not offered |
| pricing (`MCPricing.cfg`) | 2 variants, prices 50 and 125, quantities 1 and 2, discounts 0 and 125, up to 3 lines, order discounts of 1.2, 50 and 100 per cent and of 0 and 150 cents, 1 change of the catalogue | 1.2 million | lines are folded correctly, priced to the nearest cent, and refunded at what they cost |
| sessions (`MCSessions.cfg`) | 3 calls, one of them a logout | 779 thousand | one rotation serves all calls, nobody is signed out for nothing, all calls are answered |
| storefront (`MCStorefront.cfg`) | 2 variants, one in the cart and the other's availability changing, 2 calls and any number of fetches, quantities up to 2, 2 attempts, 1 mishap | 290 thousand | a line is ordered once, a failed checkout leaves the cart, the cart shown is the one served, the checkout ends |
| catalogue (`MCCatalogue.cfg`) | 2 clients, 2 categories, 2 products, 3 variants, 3 images, 2 SKUs, requests that write `active` = false, 3 requests | 453 thousand | nothing traded or referred to is deleted, SKUs differ, one primary image, products appear whole |

- The conflicts in the code are between two transactions on one order, return,
  purchase or variant, so two clients and one document show each of them. Five
  requests let a sale, a return, its acceptance, a cancellation and another
  request follow each other; two returns are what it takes to exceed a line.
- Baskets have one line or two of unequal quantity. In order_tx the second line of
  one basket exceeds the stock, so a request fails after its first line has moved;
  in store the second of two orders finds too little left.
- Three clients with two connections let a request wait for a connection while
  two others wait for each other's rows. Two attempts have a first and a last
  one; `MAX_ATTEMPTS` is 6 in the code and any positive number in the proofs.
- In ApplyChange three clients let one wait for each of two rows while another is between two
  statements; one variant has a single unit, so a transaction may fail after its first movement.
- In Pricing, 50 per cent of 125 is half a cent that binary arithmetic holds exactly and 1.2 per
  cent of 125 one that it does not; 150 cents and discounts of 125 may exceed a line or the
  subtotal; three lines repeat a variant.
- In Sessions, each call has the session rotated at most once, so three calls
  reach two overlapping rotations, and late answers to a third call.

- In Storefront, two calls are two orders, or an order and a change of the cart; a fetch begins
  with every visit and after every failed or finished order. In Catalogue three requests let one
  complete between two statements of another and a third follow; with a second category products
  move between the two, and with three images a product can come with two. No property tells
  active rows from others, so requests write one value that differs from the initial one.

Variants, orders, returns, clients and keys are interchangeable where the cfg
declares symmetry; variants are not where the baskets tell them apart.
`MCTxRetry`, `MCSessions` and `MCStorefront` check liveness and use no symmetry. `CHECK_DEADLOCK
FALSE` stands where a model really ends: documents, requests or calls are used
up, or the pricing of the one request is over.

What each property says is in the comment above its definition. The ones that
took most thought:

- `CommittedMeansSold`, `StatusPaymentStockAgree`, `NoDoubleCredit`,
  `ReceivedMeansStocked` relate rows that different services write.
- `StockFollowsFlag`: under interleaving, the ledger's sales and restocks of an
  order add up to its lines when the flag is set and to nothing otherwise.
- `ReturnCreditedOnce`, `CompletedOnce`, `GoodsTakenInOnce`: what the conditional
  UPDATEs of accept, complete and receive guarantee to racing requests.
- `GapFree`: numbers follow commit order, not the order in which they were drawn.
- `KeepsPromise`: a deadlock or timeout at any point makes no write happen twice.
- `NegativeOnlyWhenDearer`: the only way to a line below zero is a price raised
  between two lines of one variant; a discount checked against the new price is
  then taken off the old one (`order.service.ts:69-87`).
- `PricesExactly`: line by line equals all at once, compared with a closed formula.
- `RefundsWhatLinesCost`: in every basket and split of returns, half a cent per unit is all
  that a refund of the lines may be off.
- `ReportsReconcile`: five reports that select different statuses of different tables
  account for every unit that ever moved.
- `StatementsMakeMovements`: nothing but the row lock makes the quantity read back the one the
  UPDATE left.
- `OrderedOnce`: the button is disabled until the handler has seen a fetch of the emptied
  cart; without a lost answer or a customer who leaves, no line is bought twice.
- `ShownIsServed`: once all is quiet, the page shows the server's cart if the answer
  shown last was not overtaken by anything.
- `HistoryKept`, `SkusDiffer`: the checks of the services are too early; the keys of the
  schema make up for it, whoever is deleting, inserting or selling meanwhile.
- `PresentedOnce`, `OneLiveSession`, `LostOnlyForCause`, `TakesEffectOnce`: the
  single-flight rotation, across the client and the three statements of the server.

## 5. Fairness

Safety runs use none. Three specifications state weak fairness:

- `TxRetry`: for each client, of `Proceed`, its next step whichever it is. The
  pool fails a request that waits longer than `maxWait` and the engine one that
  runs longer than `timeout` (`db/prisma.ts:30-36`), PostgreSQL breaks deadlocks,
  and the back-off is a timer (`db/transaction.ts`). Beginning a request is not
  fair, and neither is any particular outcome: no request is assumed to succeed.
- `Sessions`: for each call, of `Answer`; of `Rotate`; of `Unlatch`. A fetch is
  answered or fails, a settled promise resumes who awaits it, a timer fires.
  Expiry, sign-outs elsewhere and new calls are not fair.
- `Storefront`: for each call, of `ServerStep`, of `Answer` and of `Navigate`; of `ServeFetch` and
  `FetchAnswered`. The server works on what it has received and answers arrive. What the customer
  does, failures, lost calls, trade and leaving are not fair: `CheckoutSettles` holds whether
  they happen or not.

## 6. The proofs

`tlapm Store_proofs.tla`, and likewise for the other `_proofs` modules; `Shared_proofs` holds the
lemmas that several of them share, about cells and about sums. Assumptions are the
ones the modules name: opening stock and amounts are natural numbers, baskets map
variants to natural numbers with at least one line, ids a ledger entry
cites are documents, `Nobody` is no client, pool size and attempts are positive, and a catalogue
has finitely many variants (`Reports`). Prices are natural numbers of cents, and discounts on orders
lie between 0 and 100 per cent, in any parts of one per cent (`Scale`, `Pricing`). That the error of
binary arithmetic matters for exact halves only is true of net amounts up to 2^53 / (300 `Scale`)
cents, which is 3 * 10^11 cents for percentages with two decimals; of larger amounts `Pricing` says
nothing.
No bound on the number of variants, documents, clients, requests or keys is used.

**Sums.** `SumFunctionOnSet` of the community modules is a recursive function over the subsets of
a set. That it has a value at all, and that adding an element adds its summand (`SumUnfolds`,
`SumTake`, `SumWith`), is proved from the library's theorem that strict inclusion of subsets of a
finite set is well founded: were there a set for which it fails, there would be a smallest one
(`SmallestSet`). The other lemmas follow by the same argument: sums of sums and differences, over
a part and the rest, of one summand changed, over a part and the whole (`SumOfPart`), in the other
order (`SumSwap`), along a bijection (`SumAlong`), of consecutive differences (`SumOfSteps`), of a
sequence that grows (`SumLonger`), and of summands that bound each other (`SumAtMost`).

**Store.** `IInv` is the conjunction of the type invariant, the seven safety
invariants that are theorems, and `RowsAreLinked`. None is inductive alone: that a
cancellation does not put back what was never taken needs `CommittedMeansSold`,
which needs `MovedAtMostOnce`, to know that the sale it finds is the only one, and
`EntriesMatchDocuments`. A step is first shown to be `Carried`, a form all actions
share (one movement per line, citing one fresh reference, and rows that agree
with it); `CarriedLemma` then preserves the invariant for all of them, and
`CarriedIsLedgered` gives the refinement `StoreImplementsLedger`. `TerminalIsFinal`
is an action property over the same invariant.

`ReturnsWithinOrder` needs `RInv`, which adds that returns on file are finitely many: the request
inserts one row whose units, with the sum it has just read, fit the line, and whatever else
changes a return does not raise what counts. `ReportsReconcile` is not proved by induction over
steps: it follows from the state. The chain of each ledger makes its deltas add up to the quantity
(`BalanceLemma`); entries are split by kind of document (`EntriesAreNamed`, the one addition in
`BInv`); of each kind there is one entry per document that has moved stock, with its units
(`SoldLemma`, `BackLemma`, `BoughtLemma`); and the balances of all variants, added up and summed
by document instead, are the columns of the reports.

**OrderTx.** `IInv` says which client holds which row and what a client at a label may rely on:
rows nobody holds are as committed; a row of `inventory` that is held differs from the committed
one by exactly one movement, which its client will not repeat; a completion past its claim holds
the ticket. From it, a commit moves every variant once or not at all (`CommitMoves`), hence
`StockIsSafe`: for any number of clients and any interleaving, the committed stock implements
`StockLedger`. `TicketsCompleteOnce` uses the last part. `ReturnsAreCreditedOnce` is a second
induction, over `Credits`: to `ReturnCreditedOnce` it adds `InHand`, that a client whose pending
version of a return is ACCEPTED took it from a committed one that was not, and holds the variant
with the credit as its last movement, unless it is just about to make it; and that the rows it
holds credit no other return. The return and its credit are thus published by one commit.

`FlagIsFollowed` is a third one, over `Holding`: a client holds no order but the one it was asked
about, whose lines it leaves as they are; it has changed the flag of it, if at all, before it
moves a line; and the variants it holds for the order are exactly the lines it has moved since,
each in the direction of the flag. At the commit no line is left, so the ledger gains what the
flag says (`CommitFollows`), and nothing while the flag stands. The unguarded `UPDATE`s of
`updateStatus` and `cancel` do not matter here: they leave the flag.

`SerialRefinesStore` assumes `Serialised`, the constant with which `Begin` waits until no other
transaction is under way; it is TRUE in `MCOrderTxSerial.cfg`, and the theorem is about any number
of clients that take turns. Its invariant `Alone` says what that brings: one transaction is under
way at most, who is in none holds no row, and of the one that is, `Progress` says how far it has
come from the committed rows: which it has written and what they hold (`Entering`, `Changing`,
`TakingBack`), down to the movements it has made and has still to make, or that it has written
nothing and only decides (`Deciding`). At the commit that is one request of `Store` as a whole,
movements and all; every other step changes no committed row and is a stutter.

With it, what is proved of `Store` holds of transactions that take turns. `PromiseApplies` carries
it over: `Promised` is `Store_proofs` over the committed tables, and `SameNext` shows, operator by
operator, that it is the machine `Serial` of `OrderTx`. So the five promises of section 8 about
`OrderTx` are kept as long as nothing overlaps (`WithinOrderAlone`, `CancelledAlone`,
`CreditedAlone`, `FinalAlone`, and `RejectedAlone` from `Alone` itself), and overlapping alone
breaks them. `CreditedAlone` needs one more fact of `Store`, `CreditsFit`: what the ledger has
booked back for an order, by its cancellation and its returns, is no more than what it took. It
follows from `RInv`: an order with returns open is not cancelled, and the accepted ones of a
variant are among those that stay within the line.

**PurchaseTx.** `GoodsTakenInOnce` is not inductive: that the second of two receipts cannot
publish what it has taken in depends on who holds the purchase. `IInv` adds, per client (`Sound`):
at its label only its kind of request can stand (`Placed`); while it receives, it holds exactly
the variants it has taken in, each one movement of the purchase's line away from the committed
row, and otherwise at most the one it has adjusted (`HoldsItsGoods`); the purchase it holds is the
version its request writes, over a committed DRAFT if it is a receipt (`HoldsItsPurchase`); and a
purchase it has seen stays there with its items (`KnowsItsPurchase`). `OthersLemma` shows that no
step of another client disturbs this, so each statement is proved for its own client only.
`CommitOnce` is the heart: flip and movements are published together, over rows that cite the
purchase nowhere. `GoodsAreTakenInOnce` and `StockIsSafe` follow. A cancellation may still
overwrite a receipt (section 8); the theorem holds nevertheless, because the receipts in the
ledger stay one.

**ApplyChange.** `MoveInv` says who records what (`HoldsWhatItRecords`): a row that is held is one
movement away from the committed one, and that movement is either in hand (`InRecording`), with
what was read back equal to what the UPDATE left, or recorded by exactly one entry (`Recorded`).
So a commit appends to each ledger the one entry that leads from the committed quantity to the new
one (`StatementsAreMovements`). It is proved in `PurchaseTx_proofs`.

**DocNumbers.** `GapFree` alone is not inductive: `NumbersAreHeld` adds that a client with
undelivered numbers holds the row, and that they continue the committed value.

**TxRetry.** `RetryInv` adds `NothingWrittenYet` to `LocksAreInTransactions`, that only attempts
under way hold rows: between attempts nothing has been written and the attempts are not used up.
`RetriesKeepThePromise` is the safety half of the refinement of `Contract`.

**Pricing.** `PriceInv` adds to the four properties what the loop has done so far. `Folded`
relates the priced lines to the lines looked up: the step that appends a line (`AddFolds`) and the
one that merges (`MergeFolds`) add the quantity and the discount of one more asked line to one
priced line and leave the others. While the catalogue stands still every line looked up was
`Admitted`, and the subtotal is the sum of their gross amounts, because a merged line has the
price of the line merged into it; that is `StandsStill`, and with rounding (`ShareLemma`: a share
of up to 100 per cent is a nearest cent and at most the whole) gives `PricesAreExact`, for every
percentage; of two nearest cents it is the greater if the percentage is held exactly. That no
total is below zero is part of `PriceTypeOK`, with no assumption that the catalogue stands still:
`TotalsLemma` excludes that a share of a negative net makes the discount negative.
`RefundsAreFair` follows from the state: half a cent per unit for each line (`RefundLemma`), added
up over the lines by `SumAtMost`. Any numbers of variants, lines and changes, and any prices,
quantities and discounts in whole cents are allowed.

**Sessions.** `PresentedOnce` needs `RotationsTakeTurns`, that the latch is open only when all
rotations are over, and `TokensAreFresh`, that the token in the store was presented by the
rotation under way at most and one about to be stored by none: so a rotation that starts presents
a token nobody has. `OneLiveSession` needs `NoOtherIsLive`: the one session that may be live is
the one in the store or, while a rotation is under way, the one it presented, none, and the one it
issued, in turn. `NothingAmiss` is what carries `LostOnlyForCause`: as long as nothing has
happened that may cost the session, the page is signed in with one that is live.
`EffectsFollowStages` relates the handler's runs to what the page has been told. The number of
calls and of rotations is arbitrary.

**Catalogue.** What is committed says nothing of what is about to be: `HistoryKept` and
`SkusDiffer` are about committed versions, `IInv` about both. `Backed` relates a row to one it
refers to: a version that refers to it needs the same version of it to be there, and where the
other version is not (a parent just inserted or being deleted), one client holds both, so that
they are published or undone together. That no statement breaks it rests on the foreign keys
(`Holds`, and the guards of the deletions); `SkusApart` on the unique index, which waits for rows
under way. `ChildLemma` and `ParentLemma` say it of single cells; one lemma per table applies them
to all statements. The services' own checks (`CountProducts`, `CountLines`, `CheckClash`) are not
needed: they make for better answers.

`WholeProducts` needs `WInv`: what a client has written of the product it creates, variant by
variant as far as it has come, and that nobody else can write to a product that is not yet there.
`OnePrimary` needs `GInv`: unless an addition of images has overlapped another one or a change of
the primary image, the versions that can be published have one primary image per product, also
while one request clears the old one and sets the new.

**GuestCart.** That two merges do not push at once needs `FlagIsUp`, that whatever is under way
has the flag up: a render begins none while it is up, only the run itself takes it down, and a
reload gives up both. `ClearsOnlyWhatItMerged` needs `PushesWhatIsShown`: a run that nothing has
cleaned up began with the last render, so whoever collects more meanwhile does so on a page
rendered for a customer, and the lines stand.

**Storefront.** `OrderedOnce` is about rows of the cart, which have ids: a checkout locks what it
deletes (`LocksArePending`), its order takes rows that were in the cart when it was read
(`ReadIsTaken`), and rows once ordered never return (`OrderedIsGone`). Two checkouts could still
read the same rows before either deletes them; that there is only one is the doing of the page
(`OneIsPlaced`): the button is released by a handler that awaits a fetch begun after the order.
`ShownIsServed` needs `PageInv`: calls and fetches that nothing overtook are alone
(`AloneIsAlone`, `FetchIsAlone`), so they carry the cart as it is, and where the page shows an
older one, a call or a fetch is under way that will renew it (`ShownOrRenewed`).
`CartBecomesOrder` states `EmptiedByOrder` from the same invariant.

Every invariant and action property of the passing runs is a theorem. Model-checked only, because
liveness and ENABLED are out of the prover's reach: the other half of `KeepsPromise`,
`EveryCallAnswered` and `CheckoutSettles`. The type invariants are theorems or parts of one
(`Storefront` has the one of `CartService`), and the runs spend their time on the other
properties.

## 7. Disagreements between code and documents

| run | property | what happens | what is said |
|---|---|---|---|
| guest_merge | `MergedOnce` | the merging flag is a dependency of the effect that sets it: its render cancels the run, the lines are never cleared, and each load of the page adds them again (`useCart.tsx:149`) | "On sign-in the guest cart is merged into the server cart and cleared." (`useCart.tsx:15-16`) |

## 8. Further interleavings

The modules also state properties that the code does not keep when requests overlap or follow each
other in an unusual order. They are not part of a run; each can be seen by naming the property in
a copy of the cfg (for the first two, with the basket `OneUnit` of `MCOrderTx`). The first five
hold when transactions do not overlap; that is proved (section 6).

| property | module | sequence |
|---|---|---|
| `ReturnsWithinOrder` | `OrderTx` | `create` of a return sums earlier ones with a plain SELECT and locks nothing (`return.service.ts:61-81`, `:221`): two requests that overlap both fit, against "so a customer cannot open several requests that add up to more than they bought" (`return.service.ts:58`) |
| `CancelledHoldsNoStock` | `OrderTx` | the last UPDATE of `cancel` has no condition and the restock is skipped while the flag is clear (`order.service.ts:481`): a ticket cancelled while it is completed ends CANCELLED with its stock taken, against "exactly once" (`src/README.md:185`) |
| `UnitsCreditedOnce` | `OrderTx` | a cancellation counts open returns (`order.service.ts:463`) while one is accepted |
| `TerminalStatusIsFinal` | `OrderTx` | a status decided on an old read is written over a newer one (`order.service.ts:423`); `complete` claims any ticket that is not COMPLETED, a cancelled one too (`pos.service.ts:187`) |
| `RejectionsHold` | `OrderTx` | `reject` ignores how many rows its UPDATE changed (`return.service.ts:337`) |
| `CancelledTookNothingIn` | `PurchaseTx` | a cancellation that read DRAFT writes over a receipt (`purchase.service.ts:229`) |
| `SetHitsTarget` | `PurchaseTx` | the difference to a target is added to whatever the quantity is by then (`inventory.service.ts:126-132`) |
| `ReportedBeforeIsReplaced` | `PurchaseTx` | the old quantity `adjust` reports is read before the movement (`inventory.service.ts:163`) |
| `TerminalOrdersMoveNoStock` | `Store` | no overlap needed: a return requested before the order was refunded is accepted after it (`return.service.ts:296`, against `config/constants.ts:63`) |
| `CancellableOrdersHoldStock` | `Store` | an open ticket may be cancelled but holds no stock (`pos.service.ts:144`, against the comment at `config/constants.ts:66`) |

In `Sessions`, a call refused late has the session rotated again while a repeated
call is under way with the token just revoked; that call fails though the session
lives on (`apiClient.ts:240`). It takes no effect, which `TakesEffectOnce` covers.

Other sequences the models contain, which their properties except by name
(`history.clean`, `history.mishaps`, `crossed`), or that were met while reading:

- The cart shown may differ from the server's until the next fetch: answers to two cart
  operations that come in the other order, or a fetch served before and arriving after
  one, leave the older cart on the page (`useCart.tsx:161-162`). `api/cart.api.ts:4-6` says
  it "can never drift from reality".
- The fetch that validates the cart when the checkout page opens is not awaited, so an order can
  be placed before it answers (`CheckoutPage.tsx:56-59`). The server decides in any case.
- A line added between the two statements of a checkout, from another tab or device, is deleted
  unseen (`customerOrder.service.ts:43`, `:67`).
- A customer who leaves the checkout page and comes back, or whose answer is lost, can place
  the order again while the first is under way: both read the full cart, and two orders stand.
- A request that adds images leaves two primary images if it overlaps another that does
  (`product.service.ts:345-348`), or one that sets the primary image (`:385-386`): the
  `updateMany` of each misses the rows the other inserts; removing the primary image leaves none
  (`:366-379`).
- A hard deletion takes the stock ledger of its variants with it (`schema.prisma:156-177`, whose
  relation cascades), although `src/README.md:112` calls it immutable; a variant never sold may
  have opening stock.
- On the POS page, lines added while a sale is pending are thrown away by `resetTicket`
  (`PosPage.tsx:161`), and a sale whose answer is lost stays on the screen and can be rung up again.
- Half a cent of a discount in per cent may be rounded down: 0.57 per cent of 5000 cents gives 28,
  not 29, because the product is computed in binary (`order.service.ts:145`; any percentage is
  admitted at `order.schema.ts:26`).
- A second click on the button of the checkout before the page has been rendered with the order
  under way would place a second order (`CheckoutPage.tsx:61-72`); the models take the render to
  come first (`MayPlace`), as `OrderedOnce` needs.
- A refund does not take the discount on the whole order into account
  (`return.service.ts:79`), as `RefundsWhatLinesCost` states.
- `report.service.ts:6-10` says stock is committed the moment an order is created; an open POS
  ticket counts as sold before anything is taken. The reads of the dashboard run in
  parallel and are no snapshot, and its revenue is of orders while `profitReport` adds up
  lines, so the two differ by the discounts on whole orders.

## 9. What is not modelled

- Catalogue: names (those of categories, unique, among them: `category.service.ts:47` and its
  index), colours and sizes apart from their uniqueness within a product, for which a SKU stands.
- Return and cancellation windows, and owners: they only refuse, and a request may always not be made.
- Registration, password hashing, first admin; two tabs with one local storage, and restoring a
  session on load.
- Customers, suppliers, settings, the audit log: rows without behaviour of their own. That
  an audit entry fails after the commit is part of `CommitOrder`; nothing reads the entries back.
- Reports: amounts, days, rankings and layout. Lists read committed rows only.
- HTTP layer: routing, validation and error mapping keep no state. What validators admit
  bounds the inputs of the models.
- Other pages and components: forms, the rendering of query results and translations, which are
  most of the lines under `web/src`. `clear` of the cart is offered by `useCart` but no page calls
  it.
- Seed, scripts and migrations: run once, by hand.
- Bodies of documents, names, dates and printed formats: no property tells them apart.
- PostgreSQL, React and react-query themselves: modelled as the code uses them (section 1.3).

## 10. The plan

Done, in this order: `Tables`, `Store` and its proofs; `ReadCommitted`, `OrderTx` and its proofs;
`PurchaseTx` and its proofs; `DocNumbers`, `TxRetry` with `Contract`, and their proofs;
`GuestCart`; `Pricing` and its proofs, then with percentages of any decimals; `Sessions` and its
proofs; `CartService` and `Storefront`; `Catalogue` and its proofs; `Reports`; refunds in
`Pricing`; the proofs about both carts; `ApplyChange` and its proof.

Next, models:

1. The POS page: a ticket under edit, its quote and a sale under way, as `Storefront` has it for
   the cart.
2. `Sessions`: restoring a session on load, and two tabs with one local storage.
3. Accounts: deactivation of a customer against sign-in, rotation and orders under way.

Next, proofs: none of the properties checked is left but liveness; the new models need theirs.
