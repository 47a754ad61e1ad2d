----------------------------- MODULE ApplyChange -----------------------------
(***************************************************************************)
(* InventoryService.applyChange and applyMany statement by statement: the  *)
(* guarded UPDATE, the SELECT that reads back what the row then says, and  *)
(* the INSERT of the ledger entry made from it, in transactions of several *)
(* clients that interleave and may fail before any statement.  OrderTx and *)
(* PurchaseTx take the three in one step; here it is seen that the row     *)
(* lock, and nothing else, makes them one.                                 *)
(*                                                                         *)
(* The callers merge their lines by variant (order.service.ts:81,          *)
(* return.service.ts:208, purchase.service.ts:124), so a transaction moves *)
(* a variant once at most.                                                 *)
(***************************************************************************)
EXTENDS Tables, ReadCommitted

CONSTANTS
    Batches,     \* the movements that one transaction makes
    MaxBatches   \* bound on the number of transactions

Changes == [variant : Variants, type : MovementTypes, quantity : Nat, ref : References]

ASSUME BatchesAssumption ==
    /\ Batches \subseteq SUBSET Changes
    /\ \A b \in Batches : \A c, d \in b : c.variant = d.variant => c = d
    /\ MaxBatches \in Nat

VARIABLES
    quantity,  \* the rows of inventory
    ledger,    \* the committed inventory_transactions of each variant
    mover,     \* what each client is doing
    begun      \* the number of transactions begun

moveVars == <<quantity, ledger, mover, begun>>

-----------------------------------------------------------------------------
NoChange  == [variant |-> "NONE", type |-> "NONE", quantity |-> 0, ref |-> Manual]
NoEntries == [v \in Variants |-> << >>]

\* todo are the changes still to be made, change the one in hand, newQuantity
\* what the row was read to say, entries what the transaction has inserted.
Resting == [at |-> "rest", todo |-> {}, change |-> NoChange, newQuantity |-> 0,
            entries |-> NoEntries]

MoveInit ==
    /\ quantity = [v \in Variants |-> Cell(Opened(v).qty)]
    /\ ledger = [v \in Variants |-> Opened(v).log]
    /\ mover = [p \in Clients |-> Resting]
    /\ begun = 0

Delta(c) == Signed(c.type, c.quantity)

Start(p, batch) ==
    /\ mover[p].at = "rest"
    /\ begun < MaxBatches
    /\ begun' = begun + 1
    /\ mover' = [mover EXCEPT ![p].at = "next", ![p].todo = batch]
    /\ UNCHANGED <<quantity, ledger>>

\* Bug: the UPDATE runs on a connection of its own, so it commits at once
\* and its row is free again before it is read back.
UpdateAlone(p, c) ==
    LET cell == quantity[c.variant]
    IN  /\ mover[p].at = "next" /\ c \in mover[p].todo
        /\ c.quantity > 0
        /\ Free(cell, p)
        /\ See(cell, p) + Delta(c) >= 0
        /\ quantity' = [quantity EXCEPT ![c.variant] = Cell(See(cell, p) + Delta(c))]
        /\ mover' = [mover EXCEPT ![p].at = "updated", ![p].change = c]
        /\ UNCHANGED <<ledger, begun>>

\* UPDATE inventory ... WHERE quantity + delta >= 0; no row matched is a refusal.
UpdateQuantity(p, c) ==
    LET cell == quantity[c.variant]
    IN  /\ mover[p].at = "next" /\ c \in mover[p].todo
        /\ c.quantity > 0
        /\ Free(cell, p)
        /\ See(cell, p) + Delta(c) >= 0
        /\ quantity' = [quantity EXCEPT ![c.variant] = Written(@, p, See(@, p) + Delta(c))]
        /\ mover' = [mover EXCEPT ![p].at = "updated", ![p].change = c]
        /\ UNCHANGED <<ledger, begun>>

\* The SELECT that follows it.
ReadBack(p) ==
    /\ mover[p].at = "updated"
    /\ mover' = [mover EXCEPT ![p].at = "read",
                    ![p].newQuantity = See(quantity[mover[p].change.variant], p)]
    /\ UNCHANGED <<quantity, ledger, begun>>

\* The INSERT: the quantity before is worked out from the one read.
EntryOf(c, newQuantity) ==
    [type |-> c.type, delta |-> Delta(c), prev |-> newQuantity - Delta(c),
     new |-> newQuantity, ref |-> c.ref]

InsertEntry(p) ==
    LET m == mover[p]
        c == m.change
    IN  /\ m.at = "read"
        /\ mover' = [mover EXCEPT ![p] =
              [at |-> "next", todo |-> m.todo \ {c}, change |-> NoChange, newQuantity |-> 0,
               entries |-> [m.entries EXCEPT ![c.variant] =
                               Append(@, EntryOf(c, m.newQuantity))]]]
        /\ UNCHANGED <<quantity, ledger, begun>>

CommitBatch(p) ==
    /\ mover[p].at = "next" /\ mover[p].todo = {}
    /\ quantity' = Committed(quantity, p)
    /\ ledger' = [v \in Variants |-> ledger[v] \o mover[p].entries[v]]
    /\ mover' = [mover EXCEPT ![p] = Resting]
    /\ UNCHANGED begun

\* A refusal, a transient failure and a crash all undo the transaction.
UndoBatch(p) ==
    /\ mover[p].at # "rest"
    /\ quantity' = RolledBack(quantity, p)
    /\ mover' = [mover EXCEPT ![p] = Resting]
    /\ UNCHANGED <<ledger, begun>>

MoveStep(p) ==
    \/ \E batch \in Batches : Start(p, batch)
    \/ \E c \in mover[p].todo : UpdateQuantity(p, c)
    \/ ReadBack(p)
    \/ InsertEntry(p)
    \/ CommitBatch(p)
    \/ UndoBatch(p)

MoveNext == \E p \in Clients : MoveStep(p)

MoveSpec == MoveInit /\ [][MoveNext]_moveVars

-----------------------------------------------------------------------------
\* Properties.

\* The committed rows, each with its committed entries.
CommittedStock == [v \in Variants |-> [qty |-> quantity[v].com, log |-> ledger[v]]]

Promise == INSTANCE StockLedger WITH inventory <- CommittedStock

\* Although the UPDATE, the SELECT and the INSERT are three statements with
\* those of others between them, stock changes by ledgered movements only:
\* an entry says what its UPDATE found and left, and the entries of a variant
\* are committed in the order of its UPDATEs.
StatementsMakeMovements == Promise!LedgerSpec

MoveTypeOK ==
    /\ quantity \in [Variants -> Cells(Nat)]
    /\ ledger \in [Variants -> Seq(Entries)]
    /\ mover \in [Clients -> [at : {"rest", "next", "updated", "read"}, todo : SUBSET Changes,
                              change : Changes \cup {NoChange}, newQuantity : Nat,
                              entries : [Variants -> Seq(Entries)]]]
    /\ begun \in 0..MaxBatches

\* The movement p has made of v is recorded: one entry, that says what the
\* UPDATE found and what it left.
Recorded(p, v) ==
    /\ Len(mover[p].entries[v]) = 1
    /\ LET e == mover[p].entries[v][1]
       IN  /\ e.delta # 0 /\ e.delta = Signed(e.type, Magnitude(e.delta))
           /\ e.prev = quantity[v].com /\ e.new = quantity[v].live
           /\ e.new = e.prev + e.delta

\* The movement p has made of v is the one in hand, to be recorded next.
InRecording(p, v) ==
    LET c == mover[p].change
    IN  /\ mover[p].at \in {"updated", "read"} /\ c.variant = v /\ c.quantity > 0
        /\ quantity[v].live = quantity[v].com + Delta(c)
        /\ mover[p].entries[v] = << >>
        /\ mover[p].at = "read" => mover[p].newQuantity = quantity[v].live

\* A client holds the row of the variant in hand until its entry is there, and
\* has entries of rows it holds only.
HoldsWhatItRecords(p) ==
    /\ mover[p].at \in {"updated", "read"} =>
          mover[p].change \in mover[p].todo /\ quantity[mover[p].change.variant].by = p
    /\ mover[p].at = "rest" => mover[p].entries = NoEntries
    /\ \A c, d \in mover[p].todo : c.variant = d.variant => c = d
    /\ \A v \in Variants :
          IF quantity[v].by = p
          THEN \/ InRecording(p, v)
               \/ Recorded(p, v) /\ \A c \in mover[p].todo : c.variant # v
          ELSE mover[p].entries[v] = << >>

MoveInv ==
    /\ MoveTypeOK
    /\ \A v \in Variants : quantity[v].by = Nobody => quantity[v].live = quantity[v].com
    /\ \A p \in Clients : HoldsWhatItRecords(p)
=============================================================================
