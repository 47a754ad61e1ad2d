---------------------------- MODULE Store_proofs ----------------------------
(***************************************************************************)
(* Proofs about Store, for every catalogue, any number of orders, returns  *)
(* and purchases, any opening stock and any baskets.                       *)
(*                                                                         *)
(* Every action gives some variants one movement each and leaves the rows  *)
(* of the others alone: it is Grown(lines, type, ref) for some lines.      *)
(* GrowthLemma says once and for all what that does to the entries and to  *)
(* what is Moved; the *Effect lemmas say which lines, type and documents   *)
(* each action stands for; every invariant then follows from the Effect    *)
(* and from the rows the action writes, without opening the ledger again.  *)
(***************************************************************************)
EXTENDS Reports, Shared_proofs

Ledger == [qty : Nat, log : Seq(Entries)]

\* Each variant with units in lines gains one movement, citing ref[v].
Grown(lines, type, ref) ==
    /\ \A v \in Variants : lines[v] > 0 => Accepts(inventory[v], type, lines[v])
    /\ inventory' = [v \in Variants |->
                        IF lines[v] > 0 THEN Applied(inventory[v], type, lines[v], ref[v])
                                        ELSE inventory[v]]

\* What that means for the readers of the ledger.
Effect(lines, type, ref) ==
    /\ inventory' \in [Variants -> Ledger]
    /\ \A v \in Variants : lines[v] = 0 => inventory'[v] = inventory[v]
    /\ \A v \in Variants : \A t, r :
          Moved(v, t, r)' <=> \/ Moved(v, t, r)
                              \/ lines[v] > 0 /\ t = type /\ r = ref[v]
    /\ \A v \in Variants : lines[v] > 0 =>
          LET old == inventory[v].log
              new == inventory'[v].log
          IN  /\ DOMAIN new = 1..(Len(old) + 1)
              /\ DOMAIN old = 1..Len(old)
              /\ Len(old) \in Nat
              /\ Len(new) = Len(old) + 1
              /\ \A i \in DOMAIN old : new[i] = old[i]
              /\ new[Len(old) + 1] =
                    [type |-> type, delta |-> Signed(type, lines[v]),
                     prev |-> inventory[v].qty,
                     new |-> inventory[v].qty + Signed(type, lines[v]), ref |-> ref[v]]
              /\ inventory'[v].qty = inventory[v].qty + Signed(type, lines[v])

\* r names a document.
NamesDocument(r) ==
    \/ \E o \in Orders : r = OrderRef(o) \/ r = CancelRef(o)
    \/ \E x \in Returns : r = ReturnRef(x)
    \/ \E p \in Purchases : r = PurchaseRef(p)

\* A movement is made by hand or by a document that has not made it before.
Fresh(lines, type, ref) ==
    \A v \in Variants : lines[v] > 0 =>
        ref[v] = Manual \/ (NamesDocument(ref[v]) /\ ~Moved(v, type, ref[v]))

Citations == [Variants -> References]
Lines     == [Variants -> Nat]
All(r)    == [v \in Variants |-> r]

\* What commitStock still has to take for an order and releaseStock to give back.
Owed(o) == IF orders[o].committed THEN Nothing ELSE orders[o].items
Held(o) == IF orders[o].committed THEN orders[o].items ELSE Nothing

Single(v, q) == [w \in Variants |-> IF w = v THEN q ELSE 0]

-----------------------------------------------------------------------------
\* One movement on one row: the new row, its old entries and its last one.
LEMMA AppliedLemma ==
    ASSUME NEW row \in Ledger, NEW type \in MovementTypes, NEW q \in Nat,
           NEW ref \in References, Accepts(row, type, q)
    PROVE  LET new == Applied(row, type, q, ref)
           IN  /\ new \in Ledger
               /\ Len(new.log) = Len(row.log) + 1
               /\ new.qty = row.qty + Signed(type, q)
               /\ \A i \in DOMAIN row.log : new.log[i] = row.log[i]
               /\ new.log[Len(row.log) + 1] =
                     [type |-> type, delta |-> Signed(type, q), prev |-> row.qty,
                      new |-> row.qty + Signed(type, q), ref |-> ref]
<1> DEFINE d == Signed(type, q)
           e == [type |-> type, delta |-> d, prev |-> (row.qty + d) - d,
                 new |-> row.qty + d, ref |-> ref]
<1>1. d \in Int /\ row.qty \in Nat /\ row.log \in Seq(Entries)
  BY DEF Ledger, Signed
<1>2. row.qty + d \in Nat /\ (row.qty + d) - d = row.qty
  BY <1>1 DEF Accepts
<1>3. e \in Entries
  BY <1>1, <1>2 DEF Entries
<1>4. Applied(row, type, q, ref) = [qty |-> row.qty + d, log |-> Append(row.log, e)]
  BY DEF Applied
<1> HIDE DEF d, e
<1>5. /\ Append(row.log, e) \in Seq(Entries)
      /\ Len(Append(row.log, e)) = Len(row.log) + 1
      /\ \A i \in DOMAIN row.log : Append(row.log, e)[i] = row.log[i]
      /\ Append(row.log, e)[Len(row.log) + 1] = e
  BY <1>1, <1>3
<1> QED
  BY <1>1, <1>2, <1>4, <1>5 DEF Ledger, d, e

\* Growth has that effect.
LEMMA GrowthLemma ==
    ASSUME inventory \in [Variants -> Ledger]
    PROVE  \A lines \in Lines, type \in MovementTypes, ref \in Citations :
              Grown(lines, type, ref) => Effect(lines, type, ref)
<1> SUFFICES ASSUME NEW lines \in Lines, NEW type \in MovementTypes, NEW ref \in Citations,
                    Grown(lines, type, ref)
             PROVE  Effect(lines, type, ref)
  OBVIOUS
<1>1. ASSUME NEW v \in Variants, lines[v] > 0
      PROVE  /\ inventory[v] \in Ledger
             /\ inventory'[v] \in Ledger
             /\ Len(inventory'[v].log) = Len(inventory[v].log) + 1
             /\ inventory'[v].qty = inventory[v].qty + Signed(type, lines[v])
             /\ \A i \in DOMAIN inventory[v].log :
                   inventory'[v].log[i] = inventory[v].log[i]
             /\ inventory'[v].log[Len(inventory[v].log) + 1] =
                   [type |-> type, delta |-> Signed(type, lines[v]),
                    prev |-> inventory[v].qty,
                    new |-> inventory[v].qty + Signed(type, lines[v]), ref |-> ref[v]]
  <2>1. /\ inventory[v] \in Ledger /\ lines[v] \in Nat /\ ref[v] \in References
        /\ Accepts(inventory[v], type, lines[v])
        /\ inventory'[v] = Applied(inventory[v], type, lines[v], ref[v])
    BY <1>1 DEF Grown, Lines, Citations
  <2> QED BY <2>1, AppliedLemma
<1>2. ASSUME NEW v \in Variants, lines[v] = 0 PROVE inventory'[v] = inventory[v]
  BY <1>2 DEF Grown
<1>3. \A v \in Variants : lines[v] = 0 \/ lines[v] > 0
  BY DEF Lines
<1>4. inventory' \in [Variants -> Ledger]
  <2>1. inventory' = [v \in Variants |-> inventory'[v]]
    BY DEF Grown
  <2> QED BY <2>1, <1>1, <1>2, <1>3
<1>5. ASSUME NEW v \in Variants, lines[v] > 0
      PROVE  /\ DOMAIN inventory'[v].log = 1..(Len(inventory[v].log) + 1)
             /\ DOMAIN inventory[v].log = 1..Len(inventory[v].log)
             /\ Len(inventory[v].log) \in Nat
  <2>1. inventory[v].log \in Seq(Entries) /\ inventory'[v].log \in Seq(Entries)
    <3>1. inventory[v] \in Ledger /\ inventory'[v] \in Ledger
      BY <1>5, <1>1
    <3> QED BY <3>1 DEF Ledger
  <2>2. Len(inventory'[v].log) = Len(inventory[v].log) + 1
    BY <1>5, <1>1
  <2> QED BY <2>1, <2>2
<1>6. ASSUME NEW v \in Variants, NEW t, NEW r
      PROVE  Moved(v, t, r)' <=> \/ Moved(v, t, r)
                                 \/ lines[v] > 0 /\ t = type /\ r = ref[v]
  <2>1. CASE lines[v] = 0
    BY <2>1, <1>2 DEF Moved
  <2>2. CASE lines[v] > 0
    <3> DEFINE old == inventory[v].log
               new == inventory'[v].log
    <3>1. DOMAIN old = 1..Len(old) /\ DOMAIN new = 1..(Len(old) + 1) /\ Len(old) \in Nat
      BY <2>2, <1>5
    <3>2. \A i \in DOMAIN old : new[i] = old[i]
      BY <2>2, <1>1
    <3>3. new[Len(old) + 1].type = type /\ new[Len(old) + 1].ref = ref[v]
      <4>1. new[Len(old) + 1] = [type |-> type, delta |-> Signed(type, lines[v]),
                                 prev |-> inventory[v].qty,
                                 new |-> inventory[v].qty + Signed(type, lines[v]),
                                 ref |-> ref[v]]
        BY <2>2, <1>1
      <4> QED BY <4>1
    <3>4. Moved(v, t, r)' <=> \E i \in DOMAIN new : new[i].type = t /\ new[i].ref = r
      BY DEF Moved, Cites
    <3>5. Moved(v, t, r) <=> \E i \in DOMAIN old : old[i].type = t /\ old[i].ref = r
      BY DEF Moved, Cites
    <3> HIDE DEF old, new
    <3> QED BY <2>2, <3>1, <3>2, <3>3, <3>4, <3>5
  <2> QED BY <2>1, <2>2, <1>3
<1> QED BY <1>1, <1>2, <1>4, <1>5, <1>6 DEF Effect

-----------------------------------------------------------------------------
\* The effect of each action.

\* What the actions cite are references of the ledger.
LEMMA ReferencesLemma ==
    /\ Manual \in References
    /\ \A o \in Orders : OrderRef(o) \in References /\ CancelRef(o) \in References
    /\ \A r \in Returns : ReturnRef(r) \in References
    /\ \A p \in Purchases : PurchaseRef(p) \in References
BY DocumentsAssumption
   DEF Manual, References, ReferenceTypes, OrderRef, CancelRef, ReturnRef, PurchaseRef

\* One document cited for every variant is a citation.
LEMMA AllLemma == \A r \in References : All(r) \in Citations /\ \A v \in Variants : All(r)[v] = r
BY DEF All, Citations

\* No movement at all is a movement of no lines.
LEMMA StillLemma ==
    ASSUME TypeOK, UNCHANGED inventory
    PROVE  Effect(Nothing, "SALE", All(Manual))
<1>1. inventory \in [Variants -> Ledger]
  BY DEF TypeOK, Ledger
<1>2. Nothing \in Lines /\ "SALE" \in MovementTypes
  BY DEF Nothing, Lines, MovementTypes
<1>3. Grown(Nothing, "SALE", All(Manual))
  BY <1>1 DEF Grown, Nothing
<1> QED BY <1>1, <1>2, <1>3, GrowthLemma, ReferencesLemma, AllLemma

\* One document moves all its lines.
LEMMA MoveLemma ==
    ASSUME TypeOK
    PROVE  \A lines \in Lines, type \in MovementTypes, r \in References :
              Move(lines, type, r) => Effect(lines, type, All(r))
<1>1. inventory \in [Variants -> Ledger]
  BY DEF TypeOK, Ledger
<1>2. ASSUME NEW lines \in Lines, NEW type \in MovementTypes, NEW r \in References,
             Move(lines, type, r)
      PROVE  Grown(lines, type, All(r))
  BY <1>2 DEF Grown, Move, All
<1> QED BY <1>1, <1>2, GrowthLemma, AllLemma

\* One movement of one variant.
LEMMA SingleLemma ==
    ASSUME TypeOK
    PROVE  \A v \in Variants, q \in Nat, type \in MovementTypes, r \in References :
              /\ Accepts(inventory[v], type, q)
              /\ inventory' = [inventory EXCEPT ![v] = Applied(@, type, q, r)]
              => Effect(Single(v, q), type, All(r))
<1>1. inventory \in [Variants -> Ledger]
  BY DEF TypeOK, Ledger
<1>2. ASSUME NEW v \in Variants, NEW q \in Nat, NEW type \in MovementTypes,
             NEW r \in References, Accepts(inventory[v], type, q),
             inventory' = [inventory EXCEPT ![v] = Applied(@, type, q, r)]
      PROVE  Grown(Single(v, q), type, All(r)) /\ Single(v, q) \in Lines
  <2>1. q > 0
    BY <1>2 DEF Accepts
  <2>2. Single(v, q) \in Lines
    BY DEF Single, Lines
  <2>3. \A w \in Variants : Single(v, q)[w] > 0 => w = v /\ Single(v, q)[w] = q
    BY DEF Single
  <2>4. Single(v, q)[v] = q
    BY DEF Single
  <2>5. \A w \in Variants : inventory'[w] = IF w = v THEN Applied(inventory[v], type, q, r)
                                                    ELSE inventory[w]
    BY <1>1, <1>2
  <2>6. inventory' = [w \in Variants |-> inventory'[w]]
    BY <1>1, <1>2
  <2>7. \A w \in Variants : inventory'[w] =
            IF Single(v, q)[w] > 0
            THEN Applied(inventory[w], type, Single(v, q)[w], All(r)[w]) ELSE inventory[w]
    BY <2>1, <2>3, <2>4, <2>5 DEF All
  <2> QED BY <1>2, <2>2, <2>3, <2>6, <2>7 DEF Grown
<1> QED BY <1>1, <1>2, GrowthLemma, AllLemma

\* commitStock sells what the order still owes.
LEMMA CommitLemma ==
    ASSUME TypeOK, NEW o \in Orders, CommitStock(o)
    PROVE  Effect(Owed(o), "SALE", All(OrderRef(o)))
<1>1. Owed(o) \in Lines
  BY DEF TypeOK, OrderRows, Owed, Nothing, Lines
<1>2. Move(Owed(o), "SALE", OrderRef(o))
  <2>1. CASE orders[o].committed
    BY <2>1 DEF CommitStock, Move, Owed, Nothing, TypeOK
  <2>2. CASE ~orders[o].committed
    BY <2>2 DEF CommitStock, Owed
  <2> QED BY <2>1, <2>2
<1> QED BY <1>1, <1>2, MoveLemma, ReferencesLemma DEF MovementTypes

\* releaseStock puts back what the order holds.
LEMMA ReleaseLemma ==
    ASSUME TypeOK, NEW o \in Orders, ReleaseStock(o)
    PROVE  Effect(Held(o), "ADJUSTMENT_IN", All(CancelRef(o)))
<1>1. Held(o) \in Lines
  BY DEF TypeOK, OrderRows, Held, Nothing, Lines
<1>2. Move(Held(o), "ADJUSTMENT_IN", CancelRef(o))
  <2>1. CASE orders[o].committed
    BY <2>1 DEF ReleaseStock, Held
  <2>2. CASE ~orders[o].committed
    BY <2>2 DEF ReleaseStock, Move, Held, Nothing, TypeOK
  <2> QED BY <2>1, <2>2
<1> QED BY <1>1, <1>2, MoveLemma, ReferencesLemma DEF MovementTypes

\* Accepting a return puts back the units it names, of the variant it names.
LEMMA AcceptLemma ==
    ASSUME TypeOK, RowsAreLinked, NEW r \in Returns, AcceptReturn(r)
    PROVE  Effect(Single(returns[r].variant, returns[r].qty), "RETURN", All(ReturnRef(r)))
<1> DEFINE v == returns[r].variant
           q == returns[r].qty
<1>1. v \in Variants /\ q \in Nat /\ q > 0
  BY DEF TypeOK, ReturnRows, RowsAreLinked, AcceptReturn
<1>2. inventory[v].qty \in Nat
  BY <1>1 DEF TypeOK
<1>3. Accepts(inventory[v], "RETURN", q)
  BY <1>1, <1>2 DEF Accepts, Signed, Inbound
<1>4. inventory' = [inventory EXCEPT ![v] = Applied(@, "RETURN", q, ReturnRef(r))]
  BY DEF AcceptReturn
<1> HIDE DEF v, q
<1>5. Effect(Single(v, q), "RETURN", All(ReturnRef(r)))
  BY <1>1, <1>3, <1>4, SingleLemma, ReferencesLemma DEF MovementTypes
<1> QED BY <1>5 DEF v, q

\* The row a return line is written as.
NewReturn(o, v, q, accept) ==
    [status |-> IF accept THEN "ACCEPTED" ELSE "REQUESTED",
     order |-> o, variant |-> v, qty |-> q]

\* The lines of a return get fresh rows; an accepted one moves stock in their names.
LEMMA CreateReturnLemma ==
    ASSUME TypeOK, NEW o \in Orders, NEW lines \in Lines, NEW accept \in BOOLEAN,
           CreateReturn(o, lines, accept)
    PROVE  \E ref \in Citations :
             /\ Effect(IF accept THEN lines ELSE Nothing, "RETURN", ref)
             /\ returns' \in [Returns -> ReturnRows]
             /\ \A v \in Variants : lines[v] > 0 =>
                  \E r \in Returns : /\ ref[v] = ReturnRef(r)
                                     /\ returns[r].status = "NONE"
                                     /\ returns'[r] = NewReturn(o, v, lines[v], accept)
             /\ \A r \in Returns :
                  \/ returns'[r] = returns[r] /\ \A v \in Variants : lines[v] > 0 => ref[v] # ReturnRef(r)
                  \/ \E v \in Variants : /\ lines[v] > 0
                                         /\ ref[v] = ReturnRef(r)
                                         /\ returns[r].status = "NONE"
                                         /\ returns'[r] = NewReturn(o, v, lines[v], accept)
<1> DEFINE asked == {v \in Variants : lines[v] > 0}
           free  == {r \in Returns : returns[r].status = "NONE"}
           Row(v) == NewReturn(o, v, lines[v], accept)
<1>1. PICK row \in [asked -> free] :
        /\ \A v, w \in asked : row[v] = row[w] => v = w
        /\ returns' = [r \in Returns |->
             IF \E v \in asked : row[v] = r
             THEN Row(CHOOSE v \in asked : row[v] = r)
             ELSE returns[r]]
        /\ inventory' = [v \in Variants |->
             IF accept /\ v \in asked
             THEN Applied(inventory[v], "RETURN", lines[v], ReturnRef(row[v]))
             ELSE inventory[v]]
  BY Zenon DEF CreateReturn, NewReturn
<1> DEFINE ref == [v \in Variants |-> IF v \in asked THEN ReturnRef(row[v]) ELSE Manual]
           came == IF accept THEN lines ELSE Nothing
<1>2. ref \in Citations /\ came \in Lines
  BY ReferencesLemma DEF Citations, Lines, Nothing
<1>3. Effect(came, "RETURN", ref)
  <2>1. \A v \in Variants : came[v] > 0 <=> accept /\ v \in asked
    BY DEF Nothing
  <2>2. \A v \in Variants : came[v] > 0 => /\ came[v] = lines[v]
                                           /\ ref[v] = ReturnRef(row[v])
    BY <2>1
  <2>3. \A v \in Variants : came[v] > 0 => Accepts(inventory[v], "RETURN", came[v])
    BY <1>2 DEF Accepts, Signed, Inbound, TypeOK, Lines
  <2>4. Grown(came, "RETURN", ref)
    <3> HIDE DEF came, ref, asked
    <3> QED BY <1>1, <2>1, <2>2, <2>3 DEF Grown
  <2>5. inventory \in [Variants -> Ledger]
    BY DEF TypeOK, Ledger
  <2> HIDE DEF came, ref
  <2> QED BY <1>2, <2>4, <2>5, GrowthLemma DEF MovementTypes
<1>4. ASSUME NEW v \in asked
      PROVE  /\ row[v] \in Returns
             /\ ref[v] = ReturnRef(row[v])
             /\ returns[row[v]].status = "NONE"
             /\ returns'[row[v]] = Row(v)
  <2>1. row[v] \in free /\ (CHOOSE w \in asked : row[w] = row[v]) = v
    BY <1>1
  <2> HIDE DEF Row
  <2> QED BY <1>1, <2>1
<1>5. ASSUME NEW r \in Returns, ~\E v \in asked : row[v] = r
      PROVE  returns'[r] = returns[r] /\ \A v \in asked : ref[v] # ReturnRef(r)
  BY <1>1, <1>5 DEF ReturnRef
<1>6. returns' \in [Returns -> ReturnRows]
  <2>1. \A v \in asked : Row(v) \in ReturnRows
    BY DEF NewReturn, ReturnRows, ReturnStatuses, Lines
  <2>2. \A r \in Returns : returns'[r] \in ReturnRows
    <3> SUFFICES ASSUME NEW r \in Returns PROVE returns'[r] \in ReturnRows
      OBVIOUS
    <3>1. CASE \E v \in asked : row[v] = r
      BY <3>1, <2>1, <1>4
    <3>2. CASE ~\E v \in asked : row[v] = r
      BY <3>2, <1>5 DEF TypeOK
    <3> QED BY <3>1, <3>2
  <2>3. returns' = [r \in Returns |-> returns'[r]]
    BY <1>1
  <2> QED BY <2>2, <2>3
<1> HIDE DEF ref, came, Row
<1>7. \A v \in Variants : lines[v] > 0 =>
        \E r \in Returns : /\ ref[v] = ReturnRef(r)
                           /\ returns[r].status = "NONE"
                           /\ returns'[r] = Row(v)
  BY <1>4
<1>8. \A r \in Returns :
        \/ returns'[r] = returns[r] /\ \A v \in Variants : lines[v] > 0 => ref[v] # ReturnRef(r)
        \/ \E v \in Variants : /\ lines[v] > 0
                               /\ ref[v] = ReturnRef(r)
                               /\ returns[r].status = "NONE"
                               /\ returns'[r] = Row(v)
  BY <1>4, <1>5
<1> QED BY <1>2, <1>3, <1>6, <1>7, <1>8 DEF Row, came

-----------------------------------------------------------------------------
\* Entries and documents.

\* A step may fill in a blank row but never changes what a document lists.
DocumentsKept ==
    /\ \A o \in Orders : orders[o].status = "NONE" \/ orders'[o].items = orders[o].items
    /\ \A r \in Returns : returns[r].status = "NONE" \/ returns'[r].qty = returns[r].qty
    /\ \A p \in Purchases : purchases[p].status = "NONE" \/ purchases'[p].items = purchases[p].items

\* A blank row is cited by no entry.
LEMMA BlankLemma ==
    ASSUME IInv, NEW v \in Variants, NEW i \in DOMAIN inventory[v].log
    PROVE  LET e == inventory[v].log[i]
           IN  /\ \A o \in Orders : orders[o].status = "NONE" => e.ref # OrderRef(o) /\ e.ref # CancelRef(o)
               /\ \A r \in Returns : returns[r].status = "NONE" => e.ref # ReturnRef(r)
               /\ \A p \in Purchases : purchases[p].status = "NONE" => e.ref # PurchaseRef(p)
<1> DEFINE e == inventory[v].log[i]
<1>1. Matches(v, e) /\ Moved(v, e.type, e.ref)
  BY DEF IInv, EntriesMatchDocuments, Moved, Cites
<1> HIDE DEF e
<1>2. ASSUME NEW o \in Orders, orders[o].status = "NONE"
      PROVE  e.ref # OrderRef(o) /\ e.ref # CancelRef(o)
  <2>1. e.ref = OrderRef(o) => Moved(v, "SALE", OrderRef(o))
    BY <1>1 DEF Matches
  <2>2. e.ref = CancelRef(o) => Moved(v, "ADJUSTMENT_IN", CancelRef(o))
    BY <1>1 DEF Matches
  <2>3. orders[o].items[v] = 0
    BY <1>2 DEF IInv, RowsAreLinked, Nothing
  <2> QED BY <1>2, <2>1, <2>2, <2>3 DEF IInv, RowsAreLinked, CommittedMeansSold
<1>3. ASSUME NEW r \in Returns, returns[r].status = "NONE" PROVE e.ref # ReturnRef(r)
  BY <1>1, <1>3 DEF Matches, IInv, NoDoubleCredit
<1>4. ASSUME NEW p \in Purchases, purchases[p].status = "NONE" PROVE e.ref # PurchaseRef(p)
  BY <1>1, <1>4 DEF Matches, IInv, ReceivedMeansStocked
<1> QED BY <1>2, <1>3, <1>4 DEF e

\* So the entries there are keep matching, and only the new ones are at stake.
LEMMA MatchLemma ==
    ASSUME IInv, DocumentsKept, NEW lines \in Lines, NEW type, NEW ref,
           Effect(lines, type, ref),
           \A v \in Variants : \A e :
              /\ lines[v] > 0
              /\ e.type = type /\ e.delta = Signed(type, lines[v]) /\ e.ref = ref[v]
              => Matches(v, e)'
    PROVE  EntriesMatchDocuments'
<1> SUFFICES ASSUME NEW v \in Variants, NEW i \in DOMAIN inventory'[v].log
             PROVE  Matches(v, inventory[v].log[i])'
  BY DEF EntriesMatchDocuments
<1>1. ASSUME i \in DOMAIN inventory[v].log, inventory'[v].log[i] = inventory[v].log[i]
      PROVE  Matches(v, inventory[v].log[i])'
  <2>1. Matches(v, inventory[v].log[i])
    BY <1>1 DEF IInv, EntriesMatchDocuments
  <2> QED BY <1>1, <2>1, BlankLemma DEF DocumentsKept, Matches
<1>2. CASE lines[v] = 0
  BY <1>1, <1>2 DEF Effect
<1>3. CASE lines[v] > 0
  <2>1. CASE i \in DOMAIN inventory[v].log
    BY <1>1, <1>3, <2>1 DEF Effect
  <2>2. CASE i \notin DOMAIN inventory[v].log
    <3>1. i = Len(inventory[v].log) + 1
      <4>1. /\ DOMAIN inventory'[v].log = 1..(Len(inventory[v].log) + 1)
            /\ DOMAIN inventory[v].log = 1..Len(inventory[v].log)
            /\ Len(inventory[v].log) \in Nat
        BY <1>3 DEF Effect
      <4> QED BY <4>1, <2>2
    <3>2. inventory'[v].log[i] =
            [type |-> type, delta |-> Signed(type, lines[v]), prev |-> inventory[v].qty,
             new |-> inventory[v].qty + Signed(type, lines[v]), ref |-> ref[v]]
      BY <1>3, <3>1 DEF Effect
    <3>3. PICK e : e = inventory'[v].log[i]
      OBVIOUS
    <3>4. e.type = type /\ e.delta = Signed(type, lines[v]) /\ e.ref = ref[v]
      BY <3>2, <3>3
    <3>5. Matches(v, e)'
      BY <1>3, <3>4
    <3> QED BY <3>3, <3>5 DEF Matches
  <2> QED BY <2>1, <2>2
<1> QED BY <1>2, <1>3 DEF Lines

\* A grown ledger still accounts for the stock.
LEMMA AccountLemma ==
    ASSUME IInv, NEW lines \in Lines, NEW type \in MovementTypes, NEW ref,
           Effect(lines, type, ref)
    PROVE  LedgerAccountsForStock'
<1> DEFINE Accounts(row) ==
              /\ row.qty = IF row.log = << >> THEN 0 ELSE row.log[Len(row.log)].new
              /\ \A i \in DOMAIN row.log :
                    /\ row.log[i].prev = IF i = 1 THEN 0 ELSE row.log[i - 1].new
                    /\ row.log[i].new = row.log[i].prev + row.log[i].delta
<1>1. \A v \in Variants : Accounts(inventory[v])
  BY DEF IInv, LedgerAccountsForStock
<1>2. ASSUME NEW v \in Variants PROVE Accounts(inventory'[v])
  <2>1. CASE lines[v] = 0
    BY <2>1, <1>1 DEF Effect
  <2>2. CASE lines[v] > 0
    <3> DEFINE old == inventory[v].log
               new == inventory'[v].log
               n   == Len(inventory[v].log)
               d   == Signed(type, lines[v])
    <3>1. /\ DOMAIN new = 1..(n + 1) /\ DOMAIN old = 1..n /\ n \in Nat /\ Len(new) = n + 1
          /\ \A i \in DOMAIN old : new[i] = old[i]
          /\ inventory'[v].qty = inventory[v].qty + d
      BY <2>2 DEF Effect
    <3>2. new[n + 1] = [type |-> type, delta |-> d, prev |-> inventory[v].qty,
                        new |-> inventory[v].qty + d, ref |-> ref[v]]
      BY <2>2 DEF Effect
    <3>3. /\ new[n + 1].prev = inventory[v].qty
          /\ new[n + 1].delta = d
          /\ new[n + 1].new = inventory[v].qty + d
      BY <3>2
    <3>4. old \in Seq(Entries)
      BY DEF IInv, TypeOK
    <3>5. inventory[v].qty = IF n = 0 THEN 0 ELSE old[n].new
      BY <1>1, <3>4
    <3>6. \A i \in DOMAIN old : /\ old[i].prev = IF i = 1 THEN 0 ELSE old[i - 1].new
                               /\ old[i].new = old[i].prev + old[i].delta
      BY <1>1
    <3>7. new # << >>
      BY <3>1
    <3> HIDE DEF old, new, n, d
    <3>8. inventory'[v].qty = new[Len(new)].new
      BY <3>1, <3>3
    <3>9. ASSUME NEW i \in DOMAIN new
          PROVE  /\ new[i].prev = IF i = 1 THEN 0 ELSE new[i - 1].new
                 /\ new[i].new = new[i].prev + new[i].delta
      <4>1. CASE i = n + 1
        <5>1. CASE n = 0
          BY <4>1, <5>1, <3>3, <3>5
        <5>2. CASE n # 0
          BY <4>1, <5>2, <3>1, <3>3, <3>5
        <5> QED BY <5>1, <5>2
      <4>2. CASE i \in DOMAIN old
        <5>1. CASE i = 1
          BY <4>2, <5>1, <3>1, <3>6
        <5>2. CASE i # 1
          <6>1. i - 1 \in DOMAIN old
            BY <4>2, <5>2, <3>1
          <6> QED BY <4>2, <5>2, <6>1, <3>1, <3>6
        <5> QED BY <5>1, <5>2
      <4> QED BY <4>1, <4>2, <3>1
    <3> QED BY <3>7, <3>8, <3>9 DEF new
  <2> QED BY <2>1, <2>2 DEF Lines
<1> QED BY <1>2 DEF LedgerAccountsForStock

\* A fresh movement keeps every document's movements single.
LEMMA OnceLemma ==
    ASSUME IInv, NEW lines \in Lines, NEW type, NEW ref,
           Effect(lines, type, ref), Fresh(lines, type, ref)
    PROVE  MovedAtMostOnce'
<1> SUFFICES ASSUME NEW v \in Variants,
                    NEW i \in DOMAIN inventory'[v].log, NEW j \in DOMAIN inventory'[v].log,
                    inventory'[v].log[i].ref # Manual,
                    inventory'[v].log[j].type = inventory'[v].log[i].type,
                    inventory'[v].log[j].ref = inventory'[v].log[i].ref
             PROVE  i = j
  BY DEF MovedAtMostOnce, Cites
<1> DEFINE old == inventory[v].log
           new == inventory'[v].log
           n   == Len(inventory[v].log)
<1>1. ASSUME NEW k \in DOMAIN old, NEW l \in DOMAIN old,
             old[k].ref # Manual, old[l].type = old[k].type, old[l].ref = old[k].ref
      PROVE  k = l
  BY <1>1 DEF IInv, MovedAtMostOnce, Cites
<1>2. CASE lines[v] = 0
  BY <1>1, <1>2 DEF Effect
<1>3. CASE lines[v] > 0
  <2>1. /\ DOMAIN new = 1..(n + 1) /\ DOMAIN old = 1..n /\ n \in Nat
        /\ \A k \in DOMAIN old : new[k] = old[k]
    BY <1>3 DEF Effect
  <2>2. new[n + 1].type = type /\ new[n + 1].ref = ref[v]
    <3>1. new[n + 1] = [type |-> type, delta |-> Signed(type, lines[v]),
                        prev |-> inventory[v].qty,
                        new |-> inventory[v].qty + Signed(type, lines[v]), ref |-> ref[v]]
      BY <1>3 DEF Effect
    <3> QED BY <3>1
  <2>3. ref[v] # Manual => \A k \in DOMAIN old : ~(old[k].type = type /\ old[k].ref = ref[v])
    BY <1>3 DEF Fresh, Moved, Cites
  <2> HIDE DEF old, n
  <2> QED BY <1>1, <2>1, <2>2, <2>3
<1> QED BY <1>2, <1>3 DEF Lines

-----------------------------------------------------------------------------
\* Documents.  DocumentInv is what relates the ledger to the documents; each
\* lemma below carries it over one kind of step.

DocumentInv ==
    /\ EntriesMatchDocuments
    /\ CommittedMeansSold
    /\ NoDoubleCredit
    /\ ReceivedMeansStocked
    /\ RowsAreLinked

\* Only the row of o is written, and its lines only while it is blank.
OrderWritten(o) ==
    /\ orders' = [orders EXCEPT ![o] = orders'[o]]
    /\ orders'[o] \in OrderRows
    /\ orders'[o].status # "NONE"
    /\ orders[o].status = "NONE" \/ orders'[o].items = orders[o].items
    /\ UNCHANGED <<returns, purchases>>

\* Writing one order leaves every other document alone.
LEMMA OrderWrittenLemma ==
    ASSUME IInv, NEW o \in Orders, OrderWritten(o)
    PROVE  /\ DocumentsKept
           /\ \A x \in Orders : x # o => orders'[x] = orders[x]
           /\ \A x \in Orders : HasOpenReturns(x)' <=> HasOpenReturns(x)
BY DEF OrderWritten, DocumentsKept, HasOpenReturns, IInv, TypeOK

\* An order's own movements concern no return and no purchase.
LEMMA OtherDocumentsLemma ==
    ASSUME IInv, NEW o \in Orders, OrderWritten(o), NEW ref,
           ref.kind \notin {"RETURN", "PURCHASE"},
           \A v \in Variants : \A t, r : r # ref => (Moved(v, t, r)' <=> Moved(v, t, r)),
           HasOpenReturns(o) =>
              orders'[o].committed /\ orders'[o].status \in {"PAID", "COMPLETED", "REFUNDED"}
    PROVE  NoDoubleCredit' /\ ReceivedMeansStocked'
<1>1. ASSUME NEW x \in Orders, HasOpenReturns(x)'
      PROVE  orders'[x].committed /\ orders'[x].status \in {"PAID", "COMPLETED", "REFUNDED"}
  BY <1>1, OrderWrittenLemma DEF IInv, NoDoubleCredit
<1>2. ASSUME NEW r \in Returns, NEW v \in Variants
      PROVE  Moved(v, "RETURN", ReturnRef(r))'
                <=> returns'[r].status = "ACCEPTED" /\ returns'[r].variant = v
  <2>1. ReturnRef(r) # ref
    BY DEF ReturnRef
  <2> QED BY <2>1 DEF IInv, NoDoubleCredit, OrderWritten
<1>3. ReceivedMeansStocked'
  <2>1. \A p \in Purchases : PurchaseRef(p) # ref
    BY DEF PurchaseRef
  <2> QED BY <2>1 DEF IInv, ReceivedMeansStocked, OrderWritten
<1> QED BY <1>1, <1>2, <1>3 DEF NoDoubleCredit

\* Writing one order keeps the rows linked, if what is sold is on its order.
LEMMA LinkedLemma ==
    ASSUME IInv, NEW o \in Orders, OrderWritten(o),
           \A x \in Orders, v \in Variants :
              Moved(v, "SALE", OrderRef(x))' => orders'[x].items[v] > 0
    PROVE  RowsAreLinked'
<1>1. ASSUME NEW x \in Orders, orders'[x].status = "NONE" PROVE orders'[x].items = Nothing
  BY <1>1, OrderWrittenLemma DEF IInv, RowsAreLinked, OrderWritten
<1>2. \A r \in Returns : returns'[r].status # "NONE" =>
        /\ returns'[r].order \in Orders
        /\ returns'[r].variant \in Variants
        /\ returns'[r].qty > 0
  BY DEF IInv, RowsAreLinked, OrderWritten
<1>3. Nothing' = Nothing
  BY DEF Nothing
<1> QED BY <1>1, <1>2, <1>3 DEF RowsAreLinked

\* Committing an order's stock.
LEMMA SaleLemma ==
    ASSUME IInv, NEW o \in Orders, NEW lines \in Lines, OrderWritten(o),
           orders[o].status # "CANCELLED",
           orders'[o].committed,
           HasOpenReturns(o) => orders'[o].status \in {"PAID", "COMPLETED", "REFUNDED"},
           lines = (IF orders[o].committed THEN Nothing ELSE orders'[o].items),
           Effect(lines, "SALE", All(OrderRef(o)))
    PROVE  Fresh(lines, "SALE", All(OrderRef(o))) /\ DocumentInv'
<1>1. /\ DocumentsKept
      /\ \A x \in Orders : x # o => orders'[x] = orders[x]
      /\ \A x \in Orders : HasOpenReturns(x)' <=> HasOpenReturns(x)
  BY OrderWrittenLemma
<1>2. \A v \in Variants : \A t, r :
        Moved(v, t, r)' <=> \/ Moved(v, t, r)
                            \/ lines[v] > 0 /\ t = "SALE" /\ r = OrderRef(o)
  BY DEF Effect, All
<1>3. \A v \in Variants : lines[v] > 0 =>
        /\ ~orders[o].committed
        /\ lines[v] = orders'[o].items[v]
  BY DEF Nothing
<1>4. \A v \in Variants : lines[v] > 0 => ~Moved(v, "SALE", OrderRef(o))
  BY <1>3 DEF IInv, CommittedMeansSold, RowsAreLinked
<1>5. Fresh(lines, "SALE", All(OrderRef(o)))
  BY <1>4 DEF Fresh, NamesDocument, All
<1>6. EntriesMatchDocuments'
  <2>1. ASSUME NEW v \in Variants, lines[v] > 0, NEW e, e.type = "SALE",
               e.delta = Signed("SALE", lines[v]), e.ref = All(OrderRef(o))[v]
        PROVE  Matches(v, e)'
    BY <1>3, <2>1 DEF All, Signed, Inbound, Matches, OrderRef, CancelRef, ReturnRef, PurchaseRef
  <2> QED BY <1>1, <2>1, MatchLemma
<1>7. CommittedMeansSold'
  <2> SUFFICES ASSUME NEW x \in Orders, NEW v \in Variants
               PROVE  /\ Moved(v, "ADJUSTMENT_IN", CancelRef(x))' =>
                            Moved(v, "SALE", OrderRef(x))' /\ orders'[x].status = "CANCELLED"
                      /\ orders'[x].items[v] > 0 =>
                            (orders'[x].committed <=> /\ Moved(v, "SALE", OrderRef(x))'
                                                      /\ ~Moved(v, "ADJUSTMENT_IN", CancelRef(x))')
    BY DEF CommittedMeansSold
  <2>1. CASE x # o
    BY <2>1, <1>1, <1>2 DEF OrderRef, CancelRef, IInv, CommittedMeansSold
  <2>2. CASE x = o
    <3>1. ~Moved(v, "ADJUSTMENT_IN", CancelRef(o))'
      BY <1>2 DEF CancelRef, OrderRef, IInv, CommittedMeansSold
    <3>2. orders'[o].items[v] > 0 => Moved(v, "SALE", OrderRef(o))'
      <4>1. CASE orders[o].committed
        BY <4>1, <1>2 DEF OrderWritten, IInv, CommittedMeansSold, StatusPaymentStockAgree, RowAgrees
      <4>2. CASE ~orders[o].committed
        BY <4>2, <1>2
      <4> QED BY <4>1, <4>2
    <3> QED BY <2>2, <3>1, <3>2
  <2> QED BY <2>1, <2>2
<1>8. NoDoubleCredit' /\ ReceivedMeansStocked'
  <2>1. \A v \in Variants : \A t, r : r # OrderRef(o) => (Moved(v, t, r)' <=> Moved(v, t, r))
    BY <1>2
  <2>2. OrderRef(o).kind \notin {"RETURN", "PURCHASE"}
    BY DEF OrderRef
  <2> QED BY <2>1, <2>2, OtherDocumentsLemma
<1>9. RowsAreLinked'
  <2>1. ASSUME NEW x \in Orders, NEW v \in Variants, Moved(v, "SALE", OrderRef(x))'
        PROVE  orders'[x].items[v] > 0
    <3>1. CASE x # o
      BY <2>1, <3>1, <1>1, <1>2 DEF OrderRef, IInv, RowsAreLinked
    <3>2. CASE x = o
      BY <2>1, <3>2, <1>2, <1>3 DEF IInv, RowsAreLinked, OrderWritten, Nothing
    <3> QED BY <3>1, <3>2
  <2> QED BY <2>1, LinkedLemma
<1> QED BY <1>5, <1>6, <1>7, <1>8, <1>9 DEF DocumentInv

\* Writing an order without moving stock: a new ticket, a refund.
LEMMA PaperLemma ==
    ASSUME IInv, NEW o \in Orders, OrderWritten(o),
           orders[o].status # "CANCELLED",
           orders'[o].committed = orders[o].committed,
           HasOpenReturns(o) => orders'[o].status \in {"PAID", "COMPLETED", "REFUNDED"},
           Effect(Nothing, "SALE", All(Manual))
    PROVE  DocumentInv'
<1>1. /\ DocumentsKept
      /\ \A x \in Orders : x # o => orders'[x] = orders[x]
  BY OrderWrittenLemma
<1>2. \A v \in Variants : \A t, r : Moved(v, t, r)' <=> Moved(v, t, r)
  BY DEF Effect, Nothing
<1>3. EntriesMatchDocuments'
  <2>1. Nothing \in Lines /\ \A v \in Variants : ~(Nothing[v] > 0)
    BY DEF Nothing, Lines
  <2> QED BY <1>1, <2>1, MatchLemma
<1>4. \A v \in Variants : orders[o].status = "NONE" => ~Moved(v, "SALE", OrderRef(o)) /\ ~orders[o].committed
  BY DEF IInv, RowsAreLinked, StatusPaymentStockAgree, RowAgrees, Nothing
<1>5. CommittedMeansSold'
  <2> SUFFICES ASSUME NEW x \in Orders, NEW v \in Variants
               PROVE  /\ Moved(v, "ADJUSTMENT_IN", CancelRef(x)) =>
                            Moved(v, "SALE", OrderRef(x)) /\ orders'[x].status = "CANCELLED"
                      /\ orders'[x].items[v] > 0 =>
                            (orders'[x].committed <=> /\ Moved(v, "SALE", OrderRef(x))
                                                      /\ ~Moved(v, "ADJUSTMENT_IN", CancelRef(x)))
    BY <1>2 DEF CommittedMeansSold
  <2>1. CASE x # o
    BY <2>1, <1>1 DEF IInv, CommittedMeansSold
  <2>2. CASE x = o
    BY <2>2, <1>4 DEF IInv, CommittedMeansSold, OrderWritten
  <2> QED BY <2>1, <2>2
<1>6. HasOpenReturns(o) => orders'[o].committed
  BY DEF IInv, NoDoubleCredit
<1>7. NoDoubleCredit' /\ ReceivedMeansStocked'
  <2>1. Manual.kind \notin {"RETURN", "PURCHASE"}
    BY DEF Manual
  <2> QED BY <1>2, <1>6, <2>1, OtherDocumentsLemma
<1>8. RowsAreLinked'
  <2>1. ASSUME NEW x \in Orders, NEW v \in Variants, Moved(v, "SALE", OrderRef(x))'
        PROVE  orders'[x].items[v] > 0
    BY <2>1, <1>1, <1>2, <1>4 DEF IInv, RowsAreLinked, OrderWritten
  <2> QED BY <2>1, LinkedLemma
<1> QED BY <1>3, <1>5, <1>7, <1>8 DEF DocumentInv

\* Putting a cancelled order's stock back.
LEMMA CancelLemma ==
    ASSUME IInv, NEW o \in Orders, NEW lines \in Lines, OrderWritten(o),
           orders[o].status \notin {"NONE", "CANCELLED"},
           orders'[o].status = "CANCELLED",
           ~orders'[o].committed,
           ~HasOpenReturns(o),
           lines = Held(o),
           Effect(lines, "ADJUSTMENT_IN", All(CancelRef(o)))
    PROVE  Fresh(lines, "ADJUSTMENT_IN", All(CancelRef(o))) /\ DocumentInv'
<1>1. /\ DocumentsKept
      /\ \A x \in Orders : x # o => orders'[x] = orders[x]
      /\ orders'[o].items = orders[o].items
  BY OrderWrittenLemma DEF OrderWritten
<1>2. \A v \in Variants : \A t, r :
        Moved(v, t, r)' <=> \/ Moved(v, t, r)
                            \/ lines[v] > 0 /\ t = "ADJUSTMENT_IN" /\ r = CancelRef(o)
  BY DEF Effect, All
<1>3. \A v \in Variants : lines[v] > 0 => orders[o].committed /\ lines[v] = orders[o].items[v]
  BY DEF Nothing, Held
<1>4. \A v \in Variants : ~Moved(v, "ADJUSTMENT_IN", CancelRef(o))
  BY DEF IInv, CommittedMeansSold
<1>5. Fresh(lines, "ADJUSTMENT_IN", All(CancelRef(o)))
  BY <1>4 DEF Fresh, NamesDocument, All
<1>6. EntriesMatchDocuments'
  <2>1. ASSUME NEW v \in Variants, lines[v] > 0, NEW e, e.type = "ADJUSTMENT_IN",
               e.delta = Signed("ADJUSTMENT_IN", lines[v]), e.ref = All(CancelRef(o))[v]
        PROVE  Matches(v, e)'
    BY <1>1, <1>3, <2>1
       DEF All, Signed, Inbound, Matches, OrderRef, CancelRef, ReturnRef, PurchaseRef
  <2> QED BY <1>1, <2>1, MatchLemma
<1>7. CommittedMeansSold'
  <2> SUFFICES ASSUME NEW x \in Orders, NEW v \in Variants
               PROVE  /\ Moved(v, "ADJUSTMENT_IN", CancelRef(x))' =>
                            Moved(v, "SALE", OrderRef(x))' /\ orders'[x].status = "CANCELLED"
                      /\ orders'[x].items[v] > 0 =>
                            (orders'[x].committed <=> /\ Moved(v, "SALE", OrderRef(x))'
                                                      /\ ~Moved(v, "ADJUSTMENT_IN", CancelRef(x))')
    BY DEF CommittedMeansSold
  <2>1. CASE x # o
    BY <2>1, <1>1, <1>2 DEF OrderRef, CancelRef, IInv, CommittedMeansSold
  <2>2. CASE x = o
    <3>1. Moved(v, "SALE", OrderRef(o))' <=> Moved(v, "SALE", OrderRef(o))
      BY <1>2 DEF OrderRef, CancelRef
    <3>2. Moved(v, "ADJUSTMENT_IN", CancelRef(o))' <=> lines[v] > 0
      BY <1>2, <1>4
    <3>3. orders[o].items[v] > 0 =>
            /\ orders[o].committed <=> Moved(v, "SALE", OrderRef(o))
            /\ orders[o].committed <=> lines[v] > 0
      BY <1>3, <1>4 DEF IInv, CommittedMeansSold, Held, Nothing
    <3>4. lines[v] > 0 => orders[o].items[v] > 0
      BY <1>3
    <3> QED BY <2>2, <1>1, <3>1, <3>2, <3>3, <3>4
  <2> QED BY <2>1, <2>2
<1>8. NoDoubleCredit' /\ ReceivedMeansStocked'
  <2>1. \A v \in Variants : \A t, r : r # CancelRef(o) => (Moved(v, t, r)' <=> Moved(v, t, r))
    BY <1>2
  <2>2. CancelRef(o).kind \notin {"RETURN", "PURCHASE"}
    BY DEF CancelRef
  <2> QED BY <2>1, <2>2, OtherDocumentsLemma
<1>9. RowsAreLinked'
  <2>1. ASSUME NEW x \in Orders, NEW v \in Variants, Moved(v, "SALE", OrderRef(x))'
        PROVE  orders'[x].items[v] > 0
    BY <2>1, <1>1, <1>2 DEF OrderRef, CancelRef, IInv, RowsAreLinked
  <2> QED BY <2>1, LinkedLemma
<1> QED BY <1>5, <1>6, <1>7, <1>8, <1>9 DEF DocumentInv

\* A step that writes no order and moves stock for none leaves orders as they are.
LEMMA OrdersUntouchedLemma ==
    ASSUME IInv, orders' = orders,
           \A v \in Variants : \A t : \A o \in Orders :
              /\ Moved(v, t, OrderRef(o))' <=> Moved(v, t, OrderRef(o))
              /\ Moved(v, t, CancelRef(o))' <=> Moved(v, t, CancelRef(o))
    PROVE  CommittedMeansSold'
BY DEF IInv, CommittedMeansSold

\* Creating a return; with accept its units come back at once.
LEMMA CreateReturnInv ==
    ASSUME IInv, NEW o \in Orders, NEW lines \in Lines, NEW accept \in BOOLEAN,
           CreateReturn(o, lines, accept)
    PROVE  /\ \E l \in Lines, ref \in Citations :
                 Effect(l, "RETURN", ref) /\ Fresh(l, "RETURN", ref)
           /\ DocumentInv'
           /\ returns' \in [Returns -> ReturnRows]
<1>1. PICK ref \in Citations :
        /\ Effect(IF accept THEN lines ELSE Nothing, "RETURN", ref)
        /\ returns' \in [Returns -> ReturnRows]
        /\ \A v \in Variants : lines[v] > 0 =>
             \E r \in Returns : /\ ref[v] = ReturnRef(r)
                                /\ returns[r].status = "NONE"
                                /\ returns'[r] = NewReturn(o, v, lines[v], accept)
        /\ \A r \in Returns :
             \/ returns'[r] = returns[r] /\ \A v \in Variants : lines[v] > 0 => ref[v] # ReturnRef(r)
             \/ \E v \in Variants : /\ lines[v] > 0
                                    /\ ref[v] = ReturnRef(r)
                                    /\ returns[r].status = "NONE"
                                    /\ returns'[r] = NewReturn(o, v, lines[v], accept)
  BY CreateReturnLemma DEF IInv
<1>2. PICK l \in Lines : l = IF accept THEN lines ELSE Nothing
  BY DEF Lines, Nothing
<1>3. Effect(l, "RETURN", ref)
  BY <1>1, <1>2
<1>4. /\ orders' = orders /\ purchases' = purchases
      /\ orders[o].status \in {"PAID", "COMPLETED"}
  BY DEF CreateReturn, Returnable
<1>5. \A v \in Variants : l[v] > 0 => accept /\ l[v] = lines[v] /\ lines[v] > 0
  BY <1>2 DEF Nothing
<1>6. \A v \in Variants : \A t, r :
        Moved(v, t, r)' <=> \/ Moved(v, t, r)
                            \/ l[v] > 0 /\ t = "RETURN" /\ r = ref[v]
  BY <1>3 DEF Effect
<1>7. \A r \in Returns, v \in Variants :
        returns[r].status = "NONE" => ~Moved(v, "RETURN", ReturnRef(r))
  BY DEF IInv, NoDoubleCredit
<1>8. Fresh(l, "RETURN", ref)
  BY <1>1, <1>5, <1>7 DEF Fresh, NamesDocument
<1>9. DocumentsKept
  BY <1>1, <1>4 DEF DocumentsKept
<1>10. \A r, s \in Returns : ReturnRef(r) = ReturnRef(s) => r = s
  BY DEF ReturnRef
<1>11. EntriesMatchDocuments'
  <2>1. ASSUME NEW v \in Variants, NEW e, l[v] > 0, e.type = "RETURN",
               e.delta = Signed("RETURN", l[v]), e.ref = ref[v]
        PROVE  Matches(v, e)'
    <3>1. PICK r \in Returns : /\ ref[v] = ReturnRef(r)
                              /\ returns'[r] = NewReturn(o, v, lines[v], accept)
      BY <1>1, <1>5, <2>1
    <3>2. e.delta = returns'[r].qty
      BY <1>5, <2>1, <3>1 DEF Signed, Inbound, NewReturn
    <3>3. \A x \in Orders : e.ref # OrderRef(x) /\ e.ref # CancelRef(x)
      BY <2>1, <3>1 DEF OrderRef, CancelRef, ReturnRef
    <3>4. \A p \in Purchases : e.ref # PurchaseRef(p)
      BY <2>1, <3>1 DEF PurchaseRef, ReturnRef
    <3> QED BY <1>10, <2>1, <3>1, <3>2, <3>3, <3>4 DEF Matches
  <2> QED BY <1>3, <1>9, <2>1, MatchLemma
<1>12. \A v \in Variants : l[v] > 0 => ref[v].kind = "RETURN"
  <2> SUFFICES ASSUME NEW v \in Variants, l[v] > 0 PROVE ref[v].kind = "RETURN"
    OBVIOUS
  <2>1. PICK r \in Returns : ref[v] = ReturnRef(r)
    BY <1>1, <1>5
  <2> QED BY <2>1 DEF ReturnRef
<1>13. CommittedMeansSold'
  BY <1>4, <1>6, <1>12, OrdersUntouchedLemma DEF OrderRef, CancelRef
<1>14. ReceivedMeansStocked'
  <2>1. \A v \in Variants, p \in Purchases :
          Moved(v, "PURCHASE", PurchaseRef(p))' <=> Moved(v, "PURCHASE", PurchaseRef(p))
    BY <1>6
  <2> QED BY <1>4, <2>1 DEF IInv, ReceivedMeansStocked
<1>15. NoDoubleCredit'
  <2>1. ASSUME NEW x \in Orders, HasOpenReturns(x)'
        PROVE  orders[x].committed /\ orders[x].status \in {"PAID", "COMPLETED", "REFUNDED"}
    <3>1. CASE HasOpenReturns(x)
      BY <3>1 DEF IInv, NoDoubleCredit
    <3>2. CASE ~HasOpenReturns(x)
      <4>1. x = o
        BY <1>1, <2>1, <3>2 DEF HasOpenReturns, NewReturn
      <4> QED BY <4>1, <1>4 DEF IInv, StatusPaymentStockAgree, RowAgrees
    <3> QED BY <3>1, <3>2
  <2>2. ASSUME NEW r \in Returns, NEW v \in Variants
        PROVE  Moved(v, "RETURN", ReturnRef(r))'
                  <=> returns'[r].status = "ACCEPTED" /\ returns'[r].variant = v
    <3>1. CASE /\ returns'[r] = returns[r]
               /\ \A w \in Variants : lines[w] > 0 => ref[w] # ReturnRef(r)
      BY <3>1, <1>5, <1>6 DEF IInv, NoDoubleCredit
    <3>2. ASSUME NEW w \in Variants, lines[w] > 0, ref[w] = ReturnRef(r),
                 returns[r].status = "NONE", returns'[r] = NewReturn(o, w, lines[w], accept)
          PROVE  Moved(v, "RETURN", ReturnRef(r))'
                    <=> returns'[r].status = "ACCEPTED" /\ returns'[r].variant = v
      <4>1. Moved(v, "RETURN", ReturnRef(r))' <=> l[v] > 0 /\ ref[v] = ReturnRef(r)
        BY <1>6, <1>7, <3>2
      <4>2. returns'[r].variant = w /\ (returns'[r].status = "ACCEPTED" <=> accept)
        BY <3>2 DEF NewReturn
      <4>3. l[w] > 0 <=> accept
        BY <1>2, <3>2 DEF Nothing
      <4>4. l[v] > 0 /\ ref[v] = ReturnRef(r) => v = w
        <5>1. SUFFICES ASSUME l[v] > 0, ref[v] = ReturnRef(r) PROVE v = w
          OBVIOUS
        <5>2. PICK s \in Returns : /\ ref[v] = ReturnRef(s)
                                  /\ returns'[s] = NewReturn(o, v, lines[v], accept)
          BY <1>1, <1>5, <5>1
        <5>3. s = r
          BY <1>10, <5>1, <5>2
        <5> QED BY <5>2, <5>3, <4>2 DEF NewReturn
      <4> QED BY <3>2, <4>1, <4>2, <4>3, <4>4
    <3> QED BY <1>1, <3>1, <3>2
  <2> QED BY <1>4, <2>1, <2>2 DEF NoDoubleCredit
<1>16. RowsAreLinked'
  <2>1. \A x \in Orders, v \in Variants :
          Moved(v, "SALE", OrderRef(x))' => orders'[x].items[v] > 0
    BY <1>4, <1>6 DEF IInv, RowsAreLinked
  <2>2. ASSUME NEW r \in Returns, returns'[r].status # "NONE"
        PROVE  /\ returns'[r].order \in Orders
               /\ returns'[r].variant \in Variants
               /\ returns'[r].qty > 0
    BY <1>1, <2>2 DEF IInv, RowsAreLinked, NewReturn
  <2>3. Nothing' = Nothing
    BY DEF Nothing
  <2> QED BY <1>4, <2>1, <2>2, <2>3 DEF IInv, RowsAreLinked
<1> QED BY <1>1, <1>3, <1>8, <1>11, <1>13, <1>14, <1>15, <1>16 DEF DocumentInv

\* Accepting a return: its row is decided and its units come back.
LEMMA AcceptReturnInv ==
    ASSUME IInv, NEW r \in Returns, AcceptReturn(r)
    PROVE  /\ \E l \in Lines, ref \in Citations :
                 Effect(l, "RETURN", ref) /\ Fresh(l, "RETURN", ref)
           /\ DocumentInv'
<1>1. /\ returns[r].status = "REQUESTED"
      /\ returns' = [returns EXCEPT ![r].status = "ACCEPTED"]
      /\ orders' = orders /\ purchases' = purchases
      /\ returns \in [Returns -> ReturnRows]
  BY DEF AcceptReturn, IInv, TypeOK
<1>2. /\ \A s \in Returns : s # r => returns'[s] = returns[s]
      /\ returns'[r] = [returns[r] EXCEPT !.status = "ACCEPTED"]
  BY <1>1
<1>3. /\ returns'[r].status = "ACCEPTED"
      /\ returns'[r].order = returns[r].order
      /\ returns'[r].variant = returns[r].variant
      /\ returns'[r].qty = returns[r].qty
  BY <1>1, <1>2 DEF ReturnRows
<1>4. returns[r].variant \in Variants /\ returns[r].qty \in Nat /\ returns[r].qty > 0
  BY <1>1 DEF IInv, RowsAreLinked, ReturnRows
<1>5. PICK x \in Variants, q \in Nat : x = returns[r].variant /\ q = returns[r].qty
  BY <1>4
<1> DEFINE l == Single(x, q)
           ref == All(ReturnRef(r))
<1>6. /\ l \in Lines /\ ref \in Citations
      /\ \A v \in Variants : (l[v] > 0 <=> v = x) /\ (l[v] > 0 => l[v] = q) /\ ref[v] = ReturnRef(r)
  <2>1. l \in Lines
    BY DEF Single, Lines
  <2>2. ref \in Citations /\ \A v \in Variants : ref[v] = ReturnRef(r)
    BY ReferencesLemma, AllLemma
  <2>3. q > 0
    BY <1>4, <1>5
  <2>4. \A v \in Variants : (l[v] > 0 <=> v = x) /\ (l[v] > 0 => l[v] = q)
    BY <2>3 DEF Single
  <2> HIDE DEF l, ref
  <2> QED BY <2>1, <2>2, <2>4
<1>7. Effect(l, "RETURN", ref)
  BY <1>5, AcceptLemma DEF IInv
<1> HIDE DEF l, ref
<1>8. \A v \in Variants : \A t, c :
        Moved(v, t, c)' <=> \/ Moved(v, t, c)
                            \/ v = x /\ t = "RETURN" /\ c = ReturnRef(r)
  BY <1>6, <1>7 DEF Effect
<1>9. Fresh(l, "RETURN", ref)
  BY <1>1, <1>6 DEF Fresh, NamesDocument, IInv, NoDoubleCredit
<1>10. EntriesMatchDocuments'
  <2>1. DocumentsKept
    BY <1>1, <1>2, <1>3 DEF DocumentsKept
  <2>2. ASSUME NEW v \in Variants, NEW e, l[v] > 0, e.type = "RETURN",
               e.delta = Signed("RETURN", l[v]), e.ref = ref[v]
        PROVE  Matches(v, e)'
    <3>1. e.ref = ReturnRef(r) /\ e.delta = returns'[r].qty
      BY <1>3, <1>5, <1>6, <2>2 DEF Signed, Inbound
    <3> QED BY <2>2, <3>1 DEF Matches, OrderRef, CancelRef, ReturnRef, PurchaseRef
  <2> QED BY <1>6, <1>7, <2>1, <2>2, MatchLemma
<1>11. CommittedMeansSold'
  BY <1>1, <1>8, OrdersUntouchedLemma DEF OrderRef, CancelRef, ReturnRef
<1>12. ReceivedMeansStocked'
  BY <1>1, <1>8 DEF IInv, ReceivedMeansStocked, PurchaseRef, ReturnRef
<1>13. NoDoubleCredit'
  <2>1. \A o \in Orders : HasOpenReturns(o)' => HasOpenReturns(o)
    BY <1>1, <1>2, <1>3 DEF HasOpenReturns, OpenReturn
  <2>2. ASSUME NEW s \in Returns, NEW v \in Variants
        PROVE  Moved(v, "RETURN", ReturnRef(s))'
                  <=> returns'[s].status = "ACCEPTED" /\ returns'[s].variant = v
    <3>1. CASE s = r
      BY <3>1, <1>1, <1>3, <1>5, <1>8 DEF IInv, NoDoubleCredit
    <3>2. CASE s # r
      BY <3>2, <1>2, <1>8 DEF IInv, NoDoubleCredit, ReturnRef
    <3> QED BY <3>1, <3>2
  <2> QED BY <1>1, <2>1, <2>2 DEF IInv, NoDoubleCredit
<1>14. RowsAreLinked'
  <2>1. \A o \in Orders, v \in Variants :
          Moved(v, "SALE", OrderRef(o))' => orders'[o].items[v] > 0
    BY <1>1, <1>8 DEF IInv, RowsAreLinked
  <2>2. ASSUME NEW s \in Returns, returns'[s].status # "NONE"
        PROVE  returns'[s].order \in Orders /\ returns'[s].variant \in Variants /\ returns'[s].qty > 0
    BY <1>1, <1>2, <1>3, <2>2 DEF IInv, RowsAreLinked
  <2>3. Nothing' = Nothing
    BY DEF Nothing
  <2> QED BY <1>1, <2>1, <2>2, <2>3 DEF IInv, RowsAreLinked
<1> QED BY <1>6, <1>7, <1>9, <1>10, <1>11, <1>12, <1>13, <1>14 DEF DocumentInv

\* Rejecting a return: no stock moves.
LEMMA RejectReturnInv ==
    ASSUME IInv, NEW r \in Returns, RejectReturn(r)
    PROVE  DocumentInv'
<1>1. /\ returns[r].status = "REQUESTED"
      /\ returns' = [returns EXCEPT ![r].status = "REJECTED"]
      /\ orders' = orders /\ purchases' = purchases /\ inventory' = inventory
      /\ returns \in [Returns -> ReturnRows]
  BY DEF RejectReturn, IInv, TypeOK
<1>2. /\ \A s \in Returns : s # r => returns'[s] = returns[s]
      /\ returns'[r] = [returns[r] EXCEPT !.status = "REJECTED"]
  BY <1>1
<1>3. /\ returns'[r].status = "REJECTED"
      /\ returns'[r].order = returns[r].order
      /\ returns'[r].variant = returns[r].variant
      /\ returns'[r].qty = returns[r].qty
  BY <1>1, <1>2 DEF ReturnRows
<1>4. \A v \in Variants : \A t, c : Moved(v, t, c)' <=> Moved(v, t, c)
  BY <1>1 DEF Moved
<1>5. EntriesMatchDocuments'
  <2>1. Effect(Nothing, "SALE", All(Manual))
    BY <1>1, StillLemma DEF IInv
  <2>2. DocumentsKept
    BY <1>1, <1>2, <1>3 DEF DocumentsKept
  <2>3. Nothing \in Lines /\ \A v \in Variants : ~(Nothing[v] > 0)
    BY DEF Nothing, Lines
  <2> QED BY <2>1, <2>2, <2>3, MatchLemma
<1>6. CommittedMeansSold' /\ ReceivedMeansStocked'
  BY <1>1, <1>4, OrdersUntouchedLemma DEF IInv, ReceivedMeansStocked
<1>7. NoDoubleCredit'
  <2>1. \A o \in Orders : HasOpenReturns(o)' => HasOpenReturns(o)
    BY <1>1, <1>2, <1>3 DEF HasOpenReturns, OpenReturn
  <2>2. ASSUME NEW s \in Returns, NEW v \in Variants
        PROVE  Moved(v, "RETURN", ReturnRef(s))'
                  <=> returns'[s].status = "ACCEPTED" /\ returns'[s].variant = v
    BY <1>1, <1>2, <1>3, <1>4 DEF IInv, NoDoubleCredit
  <2> QED BY <1>1, <2>1, <2>2 DEF IInv, NoDoubleCredit
<1>8. RowsAreLinked'
  <2>1. ASSUME NEW s \in Returns, returns'[s].status # "NONE"
        PROVE  returns'[s].order \in Orders /\ returns'[s].variant \in Variants /\ returns'[s].qty > 0
    BY <1>1, <1>2, <1>3, <2>1 DEF IInv, RowsAreLinked
  <2>2. Nothing' = Nothing
    BY DEF Nothing
  <2> QED BY <1>1, <1>4, <2>1, <2>2 DEF IInv, RowsAreLinked
<1> QED BY <1>5, <1>6, <1>7, <1>8 DEF DocumentInv

\* Writing a purchase; its goods come in exactly when it becomes RECEIVED.
LEMMA PurchaseLemma ==
    ASSUME IInv, NEW p \in Purchases, NEW lines \in Lines,
           purchases' = [purchases EXCEPT ![p] = purchases'[p]],
           purchases'[p] \in PurchaseRows,
           purchases[p].status # "RECEIVED",
           purchases[p].status = "NONE" \/ purchases'[p].items = purchases[p].items,
           UNCHANGED <<orders, returns>>,
           lines = (IF purchases'[p].status = "RECEIVED" THEN purchases'[p].items ELSE Nothing),
           Effect(lines, "PURCHASE", All(PurchaseRef(p)))
    PROVE  Fresh(lines, "PURCHASE", All(PurchaseRef(p))) /\ DocumentInv'
<1>1. /\ \A x \in Purchases : x # p => purchases'[x] = purchases[x]
      /\ orders' = orders /\ returns' = returns
  BY DEF IInv, TypeOK
<1>2. \A v \in Variants : \A t, c :
        Moved(v, t, c)' <=> \/ Moved(v, t, c)
                            \/ lines[v] > 0 /\ t = "PURCHASE" /\ c = PurchaseRef(p)
  BY DEF Effect, All
<1>3. \A v \in Variants : /\ ~Moved(v, "PURCHASE", PurchaseRef(p))
                          /\ lines[v] > 0 <=> /\ purchases'[p].status = "RECEIVED"
                                              /\ purchases'[p].items[v] > 0
                          /\ lines[v] > 0 => lines[v] = purchases'[p].items[v]
  BY DEF Nothing, IInv, ReceivedMeansStocked
<1>4. Fresh(lines, "PURCHASE", All(PurchaseRef(p)))
  BY <1>3 DEF Fresh, NamesDocument, All
<1>5. EntriesMatchDocuments'
  <2>1. DocumentsKept
    BY <1>1 DEF DocumentsKept
  <2>2. ASSUME NEW v \in Variants, NEW e, lines[v] > 0, e.type = "PURCHASE",
               e.delta = Signed("PURCHASE", lines[v]), e.ref = All(PurchaseRef(p))[v]
        PROVE  Matches(v, e)'
    BY <1>3, <2>2 DEF All, Signed, Inbound, Matches, OrderRef, CancelRef, ReturnRef, PurchaseRef
  <2> QED BY <2>1, <2>2, MatchLemma
<1>6. CommittedMeansSold'
  BY <1>1, <1>2, OrdersUntouchedLemma DEF OrderRef, CancelRef, PurchaseRef
<1>7. NoDoubleCredit'
  <2>1. \A r \in Returns, v \in Variants :
          Moved(v, "RETURN", ReturnRef(r))' <=> Moved(v, "RETURN", ReturnRef(r))
    BY <1>2 DEF ReturnRef, PurchaseRef
  <2>2. \A o \in Orders : HasOpenReturns(o)' <=> HasOpenReturns(o)
    BY <1>1 DEF HasOpenReturns
  <2> QED BY <1>1, <2>1, <2>2 DEF IInv, NoDoubleCredit
<1>8. ReceivedMeansStocked'
  <2> SUFFICES ASSUME NEW x \in Purchases, NEW v \in Variants
               PROVE  Moved(v, "PURCHASE", PurchaseRef(x))'
                        <=> purchases'[x].status = "RECEIVED" /\ purchases'[x].items[v] > 0
    BY DEF ReceivedMeansStocked
  <2>1. CASE x = p
    BY <2>1, <1>2, <1>3
  <2>2. CASE x # p
    BY <2>2, <1>1, <1>2 DEF IInv, ReceivedMeansStocked, PurchaseRef
  <2> QED BY <2>1, <2>2
<1>9. RowsAreLinked'
  <2>1. \A o \in Orders, v \in Variants :
          Moved(v, "SALE", OrderRef(o))' <=> Moved(v, "SALE", OrderRef(o))
    BY <1>2
  <2>2. Nothing' = Nothing
    BY DEF Nothing
  <2> QED BY <1>1, <2>1, <2>2 DEF IInv, RowsAreLinked
<1> QED BY <1>4, <1>5, <1>6, <1>7, <1>8, <1>9 DEF DocumentInv

\* A manual movement cites no document.
LEMMA ManualLemma ==
    ASSUME IInv, NEW lines \in Lines, NEW type,
           UNCHANGED <<orders, returns, purchases>>,
           Effect(lines, type, All(Manual))
    PROVE  Fresh(lines, type, All(Manual)) /\ DocumentInv'
<1>1. orders' = orders /\ returns' = returns /\ purchases' = purchases
  OBVIOUS
<1>2. \A v \in Variants : \A t, c : c # Manual => (Moved(v, t, c)' <=> Moved(v, t, c))
  BY DEF Effect, All
<1>3. /\ \A o \in Orders : OrderRef(o) # Manual /\ CancelRef(o) # Manual
      /\ \A r \in Returns : ReturnRef(r) # Manual
      /\ \A p \in Purchases : PurchaseRef(p) # Manual
  BY DEF OrderRef, CancelRef, ReturnRef, PurchaseRef, Manual
<1>4. Fresh(lines, type, All(Manual))
  BY DEF Fresh, All
<1>5. EntriesMatchDocuments'
  <2>1. DocumentsKept
    BY <1>1 DEF DocumentsKept
  <2>2. ASSUME NEW v \in Variants, NEW e, lines[v] > 0, e.type = type,
               e.delta = Signed(type, lines[v]), e.ref = All(Manual)[v]
        PROVE  Matches(v, e)'
    <3>1. e.ref = Manual
      BY <2>2 DEF All
    <3> QED BY <1>3, <3>1 DEF Matches
  <2> QED BY <2>1, <2>2, MatchLemma
<1>6. CommittedMeansSold'
  BY <1>1, <1>2, <1>3, OrdersUntouchedLemma
<1>7. NoDoubleCredit'
  <2>1. \A o \in Orders : HasOpenReturns(o)' <=> HasOpenReturns(o)
    BY <1>1 DEF HasOpenReturns
  <2> QED BY <1>1, <1>2, <1>3, <2>1 DEF IInv, NoDoubleCredit
<1>8. ReceivedMeansStocked'
  BY <1>1, <1>2, <1>3 DEF IInv, ReceivedMeansStocked
<1>9. RowsAreLinked'
  <2>1. Nothing' = Nothing
    BY DEF Nothing
  <2> QED BY <1>1, <1>2, <1>3, <2>1 DEF IInv, RowsAreLinked
<1> QED BY <1>4, <1>5, <1>6, <1>7, <1>8, <1>9 DEF DocumentInv

-----------------------------------------------------------------------------
\* The actions.  Carried is all that an action has to establish.

Carried ==
    /\ \E lines \in Lines, type \in MovementTypes, ref \in Citations :
          Effect(lines, type, ref) /\ Fresh(lines, type, ref)
    /\ DocumentInv'
    /\ StatusPaymentStockAgree'
    /\ orders' \in [Orders -> OrderRows]
    /\ returns' \in [Returns -> ReturnRows]
    /\ purchases' \in [Purchases -> PurchaseRows]
    /\ adjustments' \in 0..MaxAdjustments

\* What Carried lists is enough for the inductive invariant.
LEMMA CarriedLemma == IInv /\ Carried => IInv'
<1> SUFFICES ASSUME IInv, Carried PROVE IInv'
  OBVIOUS
<1>1. PICK lines \in Lines, type \in MovementTypes, ref \in Citations :
        Effect(lines, type, ref) /\ Fresh(lines, type, ref)
  BY DEF Carried
<1>2. inventory' \in [Variants -> Ledger]
  BY <1>1 DEF Effect
<1>3. TypeOK'
  BY <1>2 DEF Carried, TypeOK, Ledger
<1>4. LedgerAccountsForStock' /\ MovedAtMostOnce'
  BY <1>1, AccountLemma, OnceLemma
<1> QED BY <1>3, <1>4 DEF Carried, DocumentInv, IInv

\* No movement is a fresh movement.
LEMMA StillCarries ==
    ASSUME IInv, UNCHANGED inventory
    PROVE  \E lines \in Lines, type \in MovementTypes, ref \in Citations :
              Effect(lines, type, ref) /\ Fresh(lines, type, ref)
<1>1. Effect(Nothing, "SALE", All(Manual))
  BY StillLemma DEF IInv
<1>2. Nothing \in Lines /\ "SALE" \in MovementTypes /\ All(Manual) \in Citations
  BY ReferencesLemma, AllLemma DEF Nothing, Lines, MovementTypes
<1>3. Fresh(Nothing, "SALE", All(Manual))
  BY DEF Fresh, Nothing
<1> QED BY <1>1, <1>2, <1>3

\* An action on orders carries its row; what is left is the row itself.
LEMMA OrderCarries ==
    ASSUME IInv, NEW o \in Orders, OrderWritten(o), adjustments' = adjustments,
           RowAgrees(orders'[o])
    PROVE  /\ StatusPaymentStockAgree'
           /\ orders' \in [Orders -> OrderRows]
           /\ returns' \in [Returns -> ReturnRows]
           /\ purchases' \in [Purchases -> PurchaseRows]
           /\ adjustments' \in 0..MaxAdjustments
<1>1. \A x \in Orders : x # o => orders'[x] = orders[x]
  BY OrderWrittenLemma
<1>2. StatusPaymentStockAgree'
  <2> SUFFICES ASSUME NEW x \in Orders PROVE RowAgrees(orders'[x])
    BY DEF StatusPaymentStockAgree, RowAgrees
  <2> QED BY <1>1 DEF IInv, StatusPaymentStockAgree
<1> QED BY <1>2 DEF OrderWritten, IInv, TypeOK

\* A sale: new or long on file, the order ends up holding its stock.
LEMMA SaleCarries ==
    ASSUME IInv, NEW o \in Orders, OrderWritten(o), adjustments' = adjustments,
           RowAgrees(orders'[o]),
           orders[o].status # "CANCELLED",
           orders'[o].committed,
           HasOpenReturns(o) => orders'[o].status \in {"PAID", "COMPLETED", "REFUNDED"},
           NEW lines \in Lines,
           lines = (IF orders[o].committed THEN Nothing ELSE orders'[o].items),
           Effect(lines, "SALE", All(OrderRef(o)))
    PROVE  Carried
<1>1. Fresh(lines, "SALE", All(OrderRef(o))) /\ DocumentInv'
  BY SaleLemma
<1>2. "SALE" \in MovementTypes /\ All(OrderRef(o)) \in Citations
  BY ReferencesLemma, AllLemma DEF MovementTypes
<1> QED BY <1>1, <1>2, OrderCarries DEF Carried

\* A blank order has no returns.
LEMMA BlankOrderLemma ==
    ASSUME IInv, NEW o \in Orders, orders[o].status = "NONE"
    PROVE  ~HasOpenReturns(o) /\ ~orders[o].committed
BY DEF IInv, NoDoubleCredit, StatusPaymentStockAgree, RowAgrees

\* The row a blank order is filled in with.
LEMMA InsertLemma ==
    ASSUME IInv, NEW o \in Orders, NEW row \in OrderRows, row.status # "NONE",
           orders[o].status = "NONE",
           orders' = [orders EXCEPT ![o] = row],
           UNCHANGED <<returns, purchases, adjustments>>
    PROVE  /\ OrderWritten(o) /\ adjustments' = adjustments
           /\ orders[o].status = "NONE"
           /\ orders'[o] = row
BY DEF IInv, TypeOK, OrderWritten

\* Opening a POS ticket.
LEMMA OpenTicketCarries ==
    ASSUME IInv, NEW o \in Orders, NEW items \in Lines, OpenTicket(o, items)
    PROVE  Carried
<1>1. /\ OrderWritten(o) /\ adjustments' = adjustments
      /\ orders[o].status = "NONE"
      /\ orders'[o] = [status |-> "PENDING", pay |-> "UNPAID", committed |-> FALSE,
                       source |-> "POS", items |-> items]
  <2>1. PICK row \in OrderRows :
          row = [status |-> "PENDING", pay |-> "UNPAID", committed |-> FALSE,
                 source |-> "POS", items |-> items]
    BY DEF OrderRows, OrderStatuses, PaymentStatuses, Lines
  <2> QED BY <2>1, InsertLemma DEF OpenTicket, Insert
<1>2. RowAgrees(orders'[o]) /\ ~orders'[o].committed
  BY <1>1 DEF RowAgrees
<1>3. Effect(Nothing, "SALE", All(Manual))
  BY StillLemma DEF IInv, OpenTicket
<1>4. DocumentInv'
  <2>1. orders'[o].committed = orders[o].committed
    <3>1. orders[o] \in OrderRows /\ ~orders[o].committed
      BY <1>1, BlankOrderLemma DEF IInv, TypeOK
    <3>2. orders[o].committed = FALSE
      BY <3>1 DEF OrderRows
    <3>3. orders'[o].committed = FALSE
      BY <1>1
    <3> QED BY <3>2, <3>3
  <2> QED BY <1>1, <1>3, <2>1, BlankOrderLemma, PaperLemma
<1> QED BY <1>1, <1>2, <1>4, OrderCarries, StillCarries DEF Carried, OpenTicket

\* Selling at the counter.
LEMMA SellNowCarries ==
    ASSUME IInv, NEW o \in Orders, NEW items \in Lines, SellNow(o, items)
    PROVE  Carried
<1>1. /\ OrderWritten(o) /\ adjustments' = adjustments
      /\ orders[o].status = "NONE"
      /\ orders'[o] = [status |-> "COMPLETED", pay |-> "PAID", committed |-> TRUE,
                       source |-> "POS", items |-> items]
  <2>1. PICK row \in OrderRows :
          row = [status |-> "COMPLETED", pay |-> "PAID", committed |-> TRUE,
                 source |-> "POS", items |-> items]
    BY DEF OrderRows, OrderStatuses, PaymentStatuses, Lines
  <2> QED BY <2>1, InsertLemma DEF SellNow, Insert
<1>2. RowAgrees(orders'[o]) /\ orders'[o].committed /\ orders'[o].items = items
  BY <1>1 DEF RowAgrees
<1>3. Effect(items, "SALE", All(OrderRef(o)))
  BY MoveLemma, ReferencesLemma DEF IInv, SellNow, MovementTypes
<1> QED BY <1>1, <1>2, <1>3, BlankOrderLemma, SaleCarries

\* An online checkout.
LEMMA CheckOutCarries ==
    ASSUME IInv, NEW o \in Orders, NEW items \in Lines, CheckOut(o, items)
    PROVE  Carried
<1>1. /\ OrderWritten(o) /\ adjustments' = adjustments
      /\ orders[o].status = "NONE"
      /\ orders'[o] = [status |-> "PENDING", pay |-> "UNPAID", committed |-> TRUE,
                       source |-> "ONLINE", items |-> items]
  <2>1. PICK row \in OrderRows :
          row = [status |-> "PENDING", pay |-> "UNPAID", committed |-> TRUE,
                 source |-> "ONLINE", items |-> items]
    BY DEF OrderRows, OrderStatuses, PaymentStatuses, Lines
  <2> QED BY <2>1, InsertLemma DEF CheckOut, Insert
<1>2. RowAgrees(orders'[o]) /\ orders'[o].committed /\ orders'[o].items = items
  BY <1>1 DEF RowAgrees
<1>3. Effect(items, "SALE", All(OrderRef(o)))
  BY MoveLemma, ReferencesLemma DEF IInv, CheckOut, MovementTypes
<1> QED BY <1>1, <1>2, <1>3, BlankOrderLemma, SaleCarries

\* The row a status change writes.
LEMMA RewriteLemma ==
    ASSUME IInv, NEW o \in Orders, NEW status \in OrderStatuses,
           NEW pay \in PaymentStatuses, NEW committed \in BOOLEAN,
           orders[o].status # "NONE",
           Write(o, status, pay, committed)
    PROVE  /\ OrderWritten(o) /\ adjustments' = adjustments
           /\ orders'[o].status = status
           /\ orders'[o].pay = pay
           /\ orders'[o].committed = committed
           /\ orders'[o].items = orders[o].items
<1>1. orders \in [Orders -> OrderRows]
  BY DEF IInv, TypeOK
<1>2. orders'[o] = [orders[o] EXCEPT !.status = status, !.pay = pay, !.committed = committed]
  BY <1>1 DEF Write
<1>3. orders[o] \in OrderRows
  BY <1>1
<1>4. /\ orders'[o] \in OrderRows
      /\ orders'[o].status = status
      /\ orders'[o].pay = pay
      /\ orders'[o].committed = committed
      /\ orders'[o].items = orders[o].items
  BY <1>2, <1>3 DEF OrderRows
<1>5. status # "NONE"
  BY DEF OrderStatuses
<1>6. orders' = [orders EXCEPT ![o] = orders'[o]]
  BY <1>1 DEF Write
<1> QED BY <1>4, <1>5, <1>6 DEF Write, OrderWritten

\* Completing, confirming or paying: the stock is taken unless it already is.
LEMMA CommitCarries ==
    ASSUME IInv, NEW o \in Orders, NEW status \in {"CONFIRMED", "PAID", "COMPLETED"},
           NEW pay \in PaymentStatuses,
           orders[o].status \notin {"NONE", "CANCELLED"},
           CommitStock(o),
           Write(o, status, pay, TRUE),
           pay = (IF status = "CONFIRMED" THEN "UNPAID" ELSE "PAID"),
           HasOpenReturns(o) => status \in {"PAID", "COMPLETED"}
    PROVE  Carried
<1>1. /\ OrderWritten(o) /\ adjustments' = adjustments
      /\ orders'[o].status = status
      /\ orders'[o].pay = pay
      /\ orders'[o].committed = TRUE
      /\ orders'[o].items = orders[o].items
  <2>1. status \in OrderStatuses
    BY DEF OrderStatuses
  <2> QED BY <2>1, RewriteLemma
<1>2. RowAgrees(orders'[o])
  BY <1>1 DEF RowAgrees
<1>3. PICK lines \in Lines : lines = Owed(o)
  BY DEF IInv, TypeOK, OrderRows, Owed, Nothing, Lines
<1>4. Effect(lines, "SALE", All(OrderRef(o)))
  BY <1>3, CommitLemma DEF IInv
<1>5. lines = (IF orders[o].committed THEN Nothing ELSE orders'[o].items)
  BY <1>1, <1>3 DEF Owed
<1> QED BY <1>1, <1>2, <1>4, <1>5, SaleCarries

\* Completing a POS ticket.
LEMMA CompleteCarries ==
    ASSUME IInv, NEW o \in Orders, Complete(o)
    PROVE  Carried
<1>1. orders[o].status \notin {"NONE", "CANCELLED"}
  BY DEF Complete, MayMove, Transitions
<1>2. "COMPLETED" \in {"CONFIRMED", "PAID", "COMPLETED"} /\ "PAID" \in PaymentStatuses
  BY DEF PaymentStatuses
<1>3. CommitStock(o) /\ Write(o, "COMPLETED", "PAID", TRUE)
  BY DEF Complete
<1> QED BY <1>1, <1>2, <1>3, CommitCarries

\* Confirming, paying or completing an order by its status.
LEMMA AdvanceCarries ==
    ASSUME IInv, NEW o \in Orders, NEW next \in {"CONFIRMED", "PAID", "COMPLETED"},
           Advance(o, next)
    PROVE  Carried
<1>1. orders[o] \in OrderRows
  BY DEF IInv, TypeOK
<1>2. /\ orders[o].status \in {"PENDING", "CONFIRMED", "PAID"}
      /\ next = "CONFIRMED" => orders[o].status = "PENDING"
  BY <1>1 DEF Advance, Transitions, OrderRows, OrderStatuses
<1>3. RowAgrees(orders[o])
  BY DEF IInv, StatusPaymentStockAgree
<1>4. PICK pay \in PaymentStatuses : pay = PayAfter(orders[o].pay, next)
  BY <1>1 DEF PayAfter, OrderRows, PaymentStatuses
<1>5. pay = (IF next = "CONFIRMED" THEN "UNPAID" ELSE "PAID")
  BY <1>2, <1>3, <1>4 DEF PayAfter, RowAgrees
<1>6. HasOpenReturns(o) => next \in {"PAID", "COMPLETED"}
  BY <1>2 DEF IInv, NoDoubleCredit
<1>7. CommitStock(o) /\ Write(o, next, pay, TRUE)
  BY <1>4 DEF Advance
<1> QED BY <1>2, <1>5, <1>6, <1>7, CommitCarries

\* Refunding an order.
LEMMA RefundCarries ==
    ASSUME IInv, NEW o \in Orders, Refund(o)
    PROVE  Carried
<1>1. orders[o] \in OrderRows
  BY DEF IInv, TypeOK
<1>2. orders[o].status \in {"PAID", "COMPLETED"}
  BY <1>1 DEF Refund, Transitions, OrderRows, OrderStatuses
<1>3. PICK committed \in BOOLEAN : committed = orders[o].committed
  BY <1>1 DEF OrderRows
<1>4. committed
  BY <1>2, <1>3 DEF IInv, StatusPaymentStockAgree, RowAgrees
<1>5. /\ OrderWritten(o) /\ adjustments' = adjustments
      /\ orders'[o].status = "REFUNDED"
      /\ orders'[o].pay = "REFUNDED"
      /\ orders'[o].committed = committed
  <2>1. "REFUNDED" \in OrderStatuses /\ "REFUNDED" \in PaymentStatuses
    BY DEF OrderStatuses, PaymentStatuses
  <2>2. Write(o, "REFUNDED", "REFUNDED", committed)
    BY <1>3 DEF Refund
  <2> QED BY <1>2, <2>1, <2>2, RewriteLemma
<1>6. RowAgrees(orders'[o])
  BY <1>4, <1>5 DEF RowAgrees
<1>7. Effect(Nothing, "SALE", All(Manual))
  BY StillLemma DEF IInv, Refund
<1>8. DocumentInv'
  BY <1>2, <1>3, <1>5, <1>7, PaperLemma
<1> QED BY <1>5, <1>6, <1>8, OrderCarries, StillCarries DEF Carried, Refund

\* Cancelling an order.
LEMMA CancelCarries ==
    ASSUME IInv, NEW o \in Orders, Cancel(o)
    PROVE  Carried
<1>1. orders[o] \in OrderRows
  BY DEF IInv, TypeOK
<1>2. orders[o].status \in {"PENDING", "CONFIRMED", "PAID", "COMPLETED"} /\ ~HasOpenReturns(o)
  BY DEF Cancel, Cancellable
<1>3. PICK pay \in PaymentStatuses :
        pay = IF orders[o].pay = "PAID" THEN "REFUNDED" ELSE orders[o].pay
  BY <1>1 DEF OrderRows, PaymentStatuses
<1>4. /\ OrderWritten(o) /\ adjustments' = adjustments
      /\ orders'[o].status = "CANCELLED"
      /\ orders'[o].pay = pay
      /\ orders'[o].committed = FALSE
  <2>1. "CANCELLED" \in OrderStatuses
    BY DEF OrderStatuses
  <2>2. Write(o, "CANCELLED", pay, FALSE)
    BY <1>3 DEF Cancel
  <2> QED BY <1>2, <2>1, <2>2, RewriteLemma
<1>5. RowAgrees(orders'[o])
  BY <1>3, <1>4 DEF RowAgrees, PaymentStatuses
<1>6. PICK lines \in Lines : lines = Held(o)
  BY DEF IInv, TypeOK, OrderRows, Held, Nothing, Lines
<1>7. Effect(lines, "ADJUSTMENT_IN", All(CancelRef(o)))
  BY <1>6, ReleaseLemma DEF IInv, Cancel
<1>8. Fresh(lines, "ADJUSTMENT_IN", All(CancelRef(o))) /\ DocumentInv'
  BY <1>2, <1>4, <1>6, <1>7, CancelLemma
<1>9. "ADJUSTMENT_IN" \in MovementTypes /\ All(CancelRef(o)) \in Citations
  BY ReferencesLemma, AllLemma DEF MovementTypes
<1> QED BY <1>4, <1>5, <1>7, <1>8, <1>9, OrderCarries DEF Carried

\* A step that writes no order keeps every row in agreement.
LEMMA AgreementKept == IInv /\ orders' = orders => StatusPaymentStockAgree'
BY DEF IInv, StatusPaymentStockAgree, RowAgrees

\* Requesting a return, accepted at once or not.
LEMMA CreateReturnCarries ==
    ASSUME IInv, NEW o \in Orders, NEW lines \in Lines, NEW accept \in BOOLEAN,
           CreateReturn(o, lines, accept)
    PROVE  Carried
<1>1. /\ orders' = orders /\ purchases' = purchases /\ adjustments' = adjustments
  BY DEF CreateReturn
<1>2. "RETURN" \in MovementTypes
  BY DEF MovementTypes
<1> QED BY <1>1, <1>2, CreateReturnInv, AgreementKept DEF Carried, IInv, TypeOK

\* Accepting a return.
LEMMA AcceptReturnCarries ==
    ASSUME IInv, NEW r \in Returns, AcceptReturn(r)
    PROVE  Carried
<1>1. /\ orders' = orders /\ purchases' = purchases /\ adjustments' = adjustments
      /\ returns' = [returns EXCEPT ![r].status = "ACCEPTED"]
  BY DEF AcceptReturn
<1>2. returns' \in [Returns -> ReturnRows]
  BY <1>1 DEF IInv, TypeOK, ReturnRows, ReturnStatuses
<1>3. "RETURN" \in MovementTypes
  BY DEF MovementTypes
<1> QED BY <1>1, <1>2, <1>3, AcceptReturnInv, AgreementKept DEF Carried, IInv, TypeOK

\* Rejecting a return.
LEMMA RejectReturnCarries ==
    ASSUME IInv, NEW r \in Returns, RejectReturn(r)
    PROVE  Carried
<1>1. /\ orders' = orders /\ purchases' = purchases /\ adjustments' = adjustments
      /\ returns' = [returns EXCEPT ![r].status = "REJECTED"]
      /\ UNCHANGED inventory
  BY DEF RejectReturn
<1>2. returns' \in [Returns -> ReturnRows]
  BY <1>1 DEF IInv, TypeOK, ReturnRows, ReturnStatuses
<1> QED BY <1>1, <1>2, StillCarries, RejectReturnInv, AgreementKept DEF Carried, IInv, TypeOK

\* A purchase written to status, with its goods in or not.
LEMMA PurchaseCarries ==
    ASSUME IInv, NEW p \in Purchases, NEW row \in PurchaseRows, NEW lines \in Lines,
           purchases' = [purchases EXCEPT ![p] = row],
           purchases[p].status # "RECEIVED",
           purchases[p].status = "NONE" \/ row.items = purchases[p].items,
           UNCHANGED <<orders, returns, adjustments>>,
           lines = (IF row.status = "RECEIVED" THEN row.items ELSE Nothing),
           Move(lines, "PURCHASE", PurchaseRef(p))
    PROVE  Carried
<1>1. /\ purchases' \in [Purchases -> PurchaseRows]
      /\ purchases'[p] = row
  BY DEF IInv, TypeOK
<1>2. "PURCHASE" \in MovementTypes /\ All(PurchaseRef(p)) \in Citations
  BY ReferencesLemma, AllLemma DEF MovementTypes
<1>3. Effect(lines, "PURCHASE", All(PurchaseRef(p)))
  BY <1>2, MoveLemma, ReferencesLemma DEF IInv
<1>4. Fresh(lines, "PURCHASE", All(PurchaseRef(p))) /\ DocumentInv'
  BY <1>1, <1>3, PurchaseLemma
<1> QED BY <1>1, <1>2, <1>3, <1>4, AgreementKept DEF Carried, IInv, TypeOK

\* No lines move nothing.
LEMMA MoveNothing ==
    ASSUME IInv, UNCHANGED inventory, NEW ref
    PROVE  Move(Nothing, "PURCHASE", ref)
BY DEF IInv, TypeOK, Move, Nothing

\* Entering a purchase, received at once or not.
LEMMA CreatePurchaseCarries ==
    ASSUME IInv, NEW p \in Purchases, NEW items \in Lines, NEW now \in BOOLEAN,
           CreatePurchase(p, items, now)
    PROVE  Carried
<1>1. PICK row \in PurchaseRows :
        row = [status |-> IF now THEN "RECEIVED" ELSE "DRAFT", items |-> items]
  BY DEF PurchaseRows, PurchaseStatuses, Lines
<1>2. PICK lines \in Lines : lines = IF now THEN items ELSE Nothing
  BY DEF Lines, Nothing
<1>3. Move(lines, "PURCHASE", PurchaseRef(p))
  BY <1>2, MoveNothing DEF CreatePurchase
<1>4. lines = IF row.status = "RECEIVED" THEN row.items ELSE Nothing
  BY <1>1, <1>2
<1> QED BY <1>1, <1>3, <1>4, PurchaseCarries DEF CreatePurchase

\* Receiving a purchase.
LEMMA ReceivePurchaseCarries ==
    ASSUME IInv, NEW p \in Purchases, ReceivePurchase(p)
    PROVE  Carried
<1>1. purchases \in [Purchases -> PurchaseRows] /\ purchases[p].status = "DRAFT"
  BY DEF IInv, TypeOK, ReceivePurchase
<1>2. purchases[p] \in PurchaseRows
  BY <1>1
<1> DEFINE written == [purchases[p] EXCEPT !.status = "RECEIVED"]
<1>3. /\ written \in PurchaseRows
      /\ written.status = "RECEIVED" /\ written.items = purchases[p].items
  BY <1>2 DEF PurchaseRows, PurchaseStatuses
<1>4. PICK row \in PurchaseRows :
        /\ row = [purchases[p] EXCEPT !.status = "RECEIVED"]
        /\ row.status = "RECEIVED" /\ row.items = purchases[p].items
  BY <1>3
<1>5. purchases' = [purchases EXCEPT ![p] = row]
  BY <1>1, <1>4 DEF ReceivePurchase
<1>6. PICK lines \in Lines : lines = purchases[p].items
  BY <1>1 DEF PurchaseRows, Lines
<1>7. Move(lines, "PURCHASE", PurchaseRef(p))
  BY <1>6 DEF ReceivePurchase
<1> QED BY <1>1, <1>4, <1>5, <1>6, <1>7, PurchaseCarries DEF ReceivePurchase

\* Cancelling a purchase.
LEMMA CancelPurchaseCarries ==
    ASSUME IInv, NEW p \in Purchases, CancelPurchase(p)
    PROVE  Carried
<1>1. purchases \in [Purchases -> PurchaseRows] /\ purchases[p].status = "DRAFT"
  BY DEF IInv, TypeOK, CancelPurchase
<1>2. purchases[p] \in PurchaseRows
  BY <1>1
<1> DEFINE written == [purchases[p] EXCEPT !.status = "CANCELLED"]
<1>3. /\ written \in PurchaseRows
      /\ written.status = "CANCELLED" /\ written.items = purchases[p].items
  BY <1>2 DEF PurchaseRows, PurchaseStatuses
<1>4. PICK row \in PurchaseRows :
        /\ row = [purchases[p] EXCEPT !.status = "CANCELLED"]
        /\ row.status = "CANCELLED" /\ row.items = purchases[p].items
  BY <1>3
<1>5. purchases' = [purchases EXCEPT ![p] = row]
  BY <1>1, <1>4 DEF CancelPurchase
<1>6. PICK lines \in Lines : lines = Nothing
  BY DEF Lines, Nothing
<1>7. Move(lines, "PURCHASE", PurchaseRef(p))
  BY <1>6, MoveNothing DEF CancelPurchase
<1> QED BY <1>1, <1>4, <1>5, <1>6, <1>7, PurchaseCarries DEF CancelPurchase

\* A manual adjustment.
LEMMA ManualCarries ==
    ASSUME IInv, NEW v \in Variants, NEW type \in MovementTypes, NEW q \in Nat,
           ManualMove(v, type, q)
    PROVE  Carried
<1>1. PICK lines \in Lines : lines = Single(v, q)
  BY DEF Lines, Single
<1>2. Effect(lines, type, All(Manual))
  BY <1>1, SingleLemma, ReferencesLemma DEF IInv, ManualMove
<1>3. orders' = orders /\ returns' = returns /\ purchases' = purchases
  BY DEF ManualMove
<1>4. Fresh(lines, type, All(Manual)) /\ DocumentInv'
  BY <1>2, <1>3, ManualLemma
<1>5. adjustments' \in 0..MaxAdjustments
  BY AmountsAssumption DEF ManualMove, IInv, TypeOK
<1>6. All(Manual) \in Citations
  BY ReferencesLemma, AllLemma
<1> QED BY <1>2, <1>3, <1>4, <1>5, <1>6, AgreementKept DEF Carried, IInv, TypeOK

-----------------------------------------------------------------------------
\* The initial state.

\* The row a variant starts with: empty, or one entry with the opening stock.
LEMMA OpenedLemma ==
    ASSUME NEW v \in Variants
    PROVE  /\ Opened(v) \in Ledger
           /\ \/ Opening[v] = 0 /\ Opened(v) = [qty |-> 0, log |-> << >>]
              \/ Opening[v] > 0 /\ Opened(v) =
                   [qty |-> Opening[v],
                    log |-> <<[type |-> "ADJUSTMENT_IN", delta |-> Opening[v], prev |-> 0,
                               new |-> Opening[v], ref |-> Manual]>>]
<1>1. Opening[v] \in Nat
  BY OpeningAssumption
<1>2. CASE Opening[v] = 0
  BY <1>2 DEF Opened, EmptyRow, Ledger
<1>3. CASE Opening[v] > 0
  <2> DEFINE n == Opening[v]
             e == [type |-> "ADJUSTMENT_IN", delta |-> n, prev |-> 0, new |-> n, ref |-> Manual]
  <2>1. n \in Nat /\ Signed("ADJUSTMENT_IN", n) = n /\ 0 + n = n /\ n - n = 0
    BY <1>1 DEF Signed, Inbound
  <2>2. Opened(v) = [qty |-> n, log |-> Append(<< >>, e)]
    BY <1>3, <2>1 DEF Opened, Applied, EmptyRow
  <2>3. e \in Entries
    BY <2>1, ReferencesLemma DEF Entries, MovementTypes
  <2> HIDE DEF e
  <2>4. Append(<< >>, e) = <<e>> /\ <<e>> \in Seq(Entries)
    BY <2>3
  <2>5. Opened(v) = [qty |-> n, log |-> <<e>>] /\ Opened(v) \in Ledger
    BY <2>1, <2>2, <2>4 DEF Ledger
  <2> QED BY <1>3, <2>5 DEF e
<1> QED BY <1>1, <1>2, <1>3

\* The inductive invariant holds of the initial states.
LEMMA InitIInv == Init => IInv
<1> SUFFICES ASSUME Init PROVE IInv
  OBVIOUS
<1>1. /\ inventory = [v \in Variants |-> Opened(v)]
      /\ orders = [o \in Orders |-> NoOrder]
      /\ returns = [r \in Returns |-> NoReturn]
      /\ purchases = [p \in Purchases |-> NoPurchase]
      /\ adjustments = 0
  BY DEF Init, LedgerInit
<1>2. TypeOK
  <2>1. inventory \in [Variants -> [qty : Nat, log : Seq(Entries)]]
    BY <1>1, OpenedLemma DEF Ledger
  <2>2. orders \in [Orders -> OrderRows]
    BY <1>1 DEF NoOrder, OrderRows, Nothing, PaymentStatuses
  <2>3. returns \in [Returns -> ReturnRows]
    BY <1>1 DEF NoReturn, ReturnRows
  <2>4. purchases \in [Purchases -> PurchaseRows]
    BY <1>1 DEF NoPurchase, PurchaseRows, Nothing
  <2> QED BY <1>1, <2>1, <2>2, <2>3, <2>4, AmountsAssumption DEF TypeOK
<1>3. ASSUME NEW v \in Variants
      PROVE  \/ inventory[v].qty = 0 /\ inventory[v].log = << >>
             \/ \E e : /\ inventory[v].log = <<e>>
                      /\ e.prev = 0 /\ e.new = inventory[v].qty /\ e.delta = e.new
                      /\ e.new \in Nat /\ e.ref = Manual
  <2>1. inventory[v] = Opened(v) /\ Opening[v] \in Nat
    BY <1>1, OpeningAssumption
  <2>2. CASE Opening[v] = 0
    BY <2>1, <2>2, OpenedLemma
  <2>3. CASE Opening[v] > 0
    <3> DEFINE e == [type |-> "ADJUSTMENT_IN", delta |-> Opening[v], prev |-> 0,
                     new |-> Opening[v], ref |-> Manual]
    <3>1. inventory[v] = [qty |-> Opening[v], log |-> <<e>>]
      BY <2>1, <2>3, OpenedLemma
    <3>2. /\ e.prev = 0 /\ e.new = Opening[v] /\ e.delta = Opening[v] /\ e.ref = Manual
      OBVIOUS
    <3> HIDE DEF e
    <3>3. inventory[v].log = <<e>> /\ inventory[v].qty = Opening[v]
      BY <3>1
    <3> QED BY <2>1, <3>2, <3>3
  <2> QED BY <2>1, <2>2, <2>3
<1>4. ASSUME NEW v \in Variants, NEW i \in DOMAIN inventory[v].log
      PROVE  i = 1 /\ inventory[v].log[i].ref = Manual
  BY <1>3
<1>5. LedgerAccountsForStock
  <2> SUFFICES ASSUME NEW v \in Variants
               PROVE  LET log == inventory[v].log
                      IN  /\ inventory[v].qty = IF log = << >> THEN 0 ELSE log[Len(log)].new
                          /\ \A i \in DOMAIN log :
                                /\ log[i].prev = IF i = 1 THEN 0 ELSE log[i - 1].new
                                /\ log[i].new = log[i].prev + log[i].delta
    BY DEF LedgerAccountsForStock
  <2>1. CASE inventory[v].qty = 0 /\ inventory[v].log = << >>
    BY <2>1
  <2>2. ASSUME NEW e, inventory[v].log = <<e>>, e.prev = 0, e.new = inventory[v].qty,
               e.delta = e.new, e.new \in Nat
        PROVE  LET log == inventory[v].log
               IN  /\ inventory[v].qty = IF log = << >> THEN 0 ELSE log[Len(log)].new
                   /\ \A i \in DOMAIN log :
                         /\ log[i].prev = IF i = 1 THEN 0 ELSE log[i - 1].new
                         /\ log[i].new = log[i].prev + log[i].delta
    BY <2>2
  <2> QED BY <1>3, <2>1, <2>2
<1>6. MovedAtMostOnce
  BY <1>4 DEF MovedAtMostOnce
<1>7. /\ \A o \in Orders : OrderRef(o) # Manual /\ CancelRef(o) # Manual
      /\ \A r \in Returns : ReturnRef(r) # Manual
      /\ \A p \in Purchases : PurchaseRef(p) # Manual
  BY DEF OrderRef, CancelRef, ReturnRef, PurchaseRef, Manual
<1>8. EntriesMatchDocuments
  BY <1>4, <1>7 DEF EntriesMatchDocuments, Matches
<1>9. \A v \in Variants : \A t, r : Moved(v, t, r) => r = Manual
  BY <1>4 DEF Moved, Cites
<1>10. /\ \A o \in Orders : orders[o].status = "NONE" /\ ~orders[o].committed
                             /\ orders[o].pay = "UNPAID" /\ orders[o].items = Nothing
       /\ \A r \in Returns : returns[r].status = "NONE"
       /\ \A p \in Purchases : purchases[p].status = "NONE"
  BY <1>1 DEF NoOrder, NoReturn, NoPurchase
<1>11. CommittedMeansSold
  BY <1>7, <1>9, <1>10 DEF CommittedMeansSold, Nothing
<1>12. StatusPaymentStockAgree
  BY <1>10 DEF StatusPaymentStockAgree, RowAgrees
<1>13. NoDoubleCredit
  BY <1>7, <1>9, <1>10 DEF NoDoubleCredit, HasOpenReturns, OpenReturn
<1>14. ReceivedMeansStocked
  BY <1>7, <1>9, <1>10 DEF ReceivedMeansStocked
<1>15. RowsAreLinked
  BY <1>7, <1>9, <1>10 DEF RowsAreLinked
<1> QED BY <1>2, <1>5, <1>6, <1>8, <1>11, <1>12, <1>13, <1>14, <1>15 DEF IInv

-----------------------------------------------------------------------------
\* The theorems.

\* A basket is a request's lines.
LEMMA BasketsAreLines == Baskets \subseteq Lines
BY BasketsAssumption DEF Lines

\* Every action carries: one case per action.
LEMMA NextCarries ==
    ASSUME IInv, Next
    PROVE  Carried
<1>1. ASSUME NEW o \in Orders, OrderStep(o) PROVE Carried
  <2>1. ASSUME NEW items \in Baskets, OpenTicket(o, items) PROVE Carried
    BY <2>1, OpenTicketCarries, BasketsAreLines
  <2>2. ASSUME NEW items \in Baskets, SellNow(o, items) PROVE Carried
    BY <2>2, SellNowCarries, BasketsAreLines
  <2>3. ASSUME NEW items \in Baskets, CheckOut(o, items) PROVE Carried
    BY <2>3, CheckOutCarries, BasketsAreLines
  <2>4. CASE Complete(o)
    BY <2>4, CompleteCarries
  <2>5. ASSUME NEW next \in {"CONFIRMED", "PAID", "COMPLETED"}, Advance(o, next) PROVE Carried
    BY <2>5, AdvanceCarries
  <2>6. CASE Refund(o)
    BY <2>6, RefundCarries
  <2>7. CASE Cancel(o)
    BY <2>7, CancelCarries
  <2>8. ASSUME NEW lines \in Baskets, NEW accept \in BOOLEAN, CreateReturn(o, lines, accept)
        PROVE  Carried
    BY <2>8, CreateReturnCarries, BasketsAreLines
  <2> QED BY <1>1, <2>1, <2>2, <2>3, <2>4, <2>5, <2>6, <2>7, <2>8 DEF OrderStep
<1>2. ASSUME NEW r \in Returns, ReturnStep(r) PROVE Carried
  BY <1>2, AcceptReturnCarries, RejectReturnCarries DEF ReturnStep
<1>3. ASSUME NEW p \in Purchases, PurchaseStep(p) PROVE Carried
  <2>1. ASSUME NEW items \in Baskets, NEW now \in BOOLEAN, CreatePurchase(p, items, now)
        PROVE  Carried
    BY <2>1, CreatePurchaseCarries, BasketsAreLines
  <2> QED BY <1>3, <2>1, ReceivePurchaseCarries, CancelPurchaseCarries DEF PurchaseStep
<1>4. ASSUME NEW v \in Variants, ManualStep(v) PROVE Carried
  <2>1. ASSUME NEW type \in {"ADJUSTMENT_IN", "ADJUSTMENT_OUT", "DAMAGE"}, NEW q \in Amounts,
               Adjust(v, type, q)
        PROVE  Carried
    BY <2>1, ManualCarries, AmountsAssumption DEF Adjust, MovementTypes
  <2>2. ASSUME NEW target \in Amounts, SetAbsolute(v, target) PROVE Carried
    <3>1. PICK type \in MovementTypes, q \in Nat :
            /\ type = IF target > inventory[v].qty THEN "ADJUSTMENT_IN" ELSE "ADJUSTMENT_OUT"
            /\ q = Magnitude(target - inventory[v].qty)
      BY AmountsAssumption DEF MovementTypes, Magnitude, IInv, TypeOK
    <3>2. ManualMove(v, type, q)
      BY <2>2, <3>1 DEF SetAbsolute
    <3> QED BY <3>2, ManualCarries
  <2> QED BY <1>4, <2>1, <2>2 DEF ManualStep
<1> QED BY <1>1, <1>2, <1>3, <1>4 DEF Next

\* Every step keeps the inductive invariant.
LEMMA StepIInv == IInv /\ [Next]_vars => IInv'
<1> SUFFICES ASSUME IInv, [Next]_vars PROVE IInv'
  OBVIOUS
<1>1. CASE UNCHANGED vars
  BY <1>1 DEF vars, IInv, TypeOK, LedgerAccountsForStock, MovedAtMostOnce, Cites,
      EntriesMatchDocuments, Matches, CommittedMeansSold, Moved, StatusPaymentStockAgree,
      RowAgrees, NoDoubleCredit, HasOpenReturns, ReceivedMeansStocked, RowsAreLinked, Nothing
<1>2. CASE Next
  BY <1>2, NextCarries, CarriedLemma
<1> QED BY <1>1, <1>2

\* The inductive invariant holds in every reachable state.
THEOREM Inductive == Spec => []IInv
BY InitIInv, StepIInv, PTL DEF Spec

\* Every row always has the shape of its table.
THEOREM TypeCorrect == Spec => []TypeOK
BY Inductive, PTL DEF IInv

\* The ledger always accounts for the stock, which is never negative.
THEOREM StockAccounted == Spec => []LedgerAccountsForStock
BY Inductive, PTL DEF IInv

\* A document moves the stock of a variant at most once in each direction.
THEOREM MovesOnce == Spec => []MovedAtMostOnce
BY Inductive, PTL DEF IInv

\* Every entry matches the document it cites as that document stands.
THEOREM EntriesMatch == Spec => []EntriesMatchDocuments
BY Inductive, PTL DEF IInv

\* The stockCommitted flag tells the truth about the ledger.
THEOREM FlagIsTrue == Spec => []CommittedMeansSold
BY Inductive, PTL DEF IInv

\* Status, payment and stock of an order agree.
THEOREM OrdersAgree == Spec => []StatusPaymentStockAgree
BY Inductive, PTL DEF IInv

\* The units of an order are never credited by a cancellation and a return.
THEOREM CreditedOnce == Spec => []NoDoubleCredit
BY Inductive, PTL DEF IInv

\* Goods are in stock from a purchase exactly when it is RECEIVED.
THEOREM ReceivedOnce == Spec => []ReceivedMeansStocked
BY Inductive, PTL DEF IInv

-----------------------------------------------------------------------------
\* Refinement: the services implement StockLedger.

\* A row that gained a movement, as Effect describes it, is the row with that
\* movement applied.
LEMMA OneMovementLemma ==
    ASSUME IInv, NEW lines \in Lines, NEW type \in MovementTypes, NEW ref \in Citations,
           Effect(lines, type, ref), NEW v \in Variants, lines[v] > 0
    PROVE  OneMovement(inventory[v], inventory'[v])
<1> DEFINE old == inventory[v]
           new == inventory'[v]
           q   == lines[v]
           e   == [type |-> type, delta |-> Signed(type, q), prev |-> old.qty,
                   new |-> old.qty + Signed(type, q), ref |-> ref[v]]
<1>1. old \in Ledger /\ new \in Ledger
  BY DEF IInv, TypeOK, Ledger, Effect
<1>2. q \in Nat /\ q > 0 /\ Signed(type, q) \in Int /\ Magnitude(Signed(type, q)) = q
  BY DEF Lines, Signed, Magnitude
<1>3. /\ Len(new.log) = Len(old.log) + 1
      /\ DOMAIN old.log = 1..Len(old.log)
      /\ \A i \in DOMAIN old.log : new.log[i] = old.log[i]
      /\ new.log[Len(old.log) + 1] = e
      /\ new.qty = old.qty + Signed(type, q)
  BY DEF Effect
<1>4. old.qty \in Nat /\ new.qty \in Nat /\ old.log \in Seq(Entries) /\ new.log \in Seq(Entries)
  BY <1>1 DEF Ledger
<1>5. Accepts(old, type, q)
  BY <1>2, <1>3, <1>4 DEF Accepts
<1>6. e \in Entries
  BY <1>3, <1>4
<1>7. e.type = type /\ e.delta = Signed(type, q) /\ e.ref = ref[v]
  OBVIOUS
<1>8. new.log = Append(old.log, e)
  <2> HIDE DEF e, old, new
  <2> QED BY <1>3, <1>4, <1>6
<1>9. Applied(old, type, q, ref[v]) = [qty |-> new.qty, log |-> Append(old.log, e)]
  <2>1. (old.qty + Signed(type, q)) - Signed(type, q) = old.qty
    BY <1>2, <1>4
  <2>2. new.qty = old.qty + Signed(type, q)
    BY <1>3
  <2> HIDE DEF old, new, q
  <2> QED BY <2>1, <2>2 DEF Applied
<1>10. new = [qty |-> new.qty, log |-> new.log]
  <2> HIDE DEF new
  <2> QED BY <1>1 DEF Ledger
<1>11. new = Applied(old, type, q, ref[v])
  <2> HIDE DEF e, old, new, q
  <2> QED BY <1>8, <1>9, <1>10
<1>12. new.log[Len(new.log)] = e
  BY <1>3
<1> HIDE DEF e, old, new, q
<1>13. OneMovement(old, new)
  BY <1>2, <1>3, <1>5, <1>7, <1>11, <1>12 DEF OneMovement
<1> QED BY <1>13 DEF old, new

\* What is Carried is a step of the ledger.
LEMMA CarriedIsLedgered == IInv /\ Carried => LedgerNext
<1> SUFFICES ASSUME IInv, Carried PROVE LedgerNext
  OBVIOUS
<1>1. PICK lines \in Lines, type \in MovementTypes, ref \in Citations : Effect(lines, type, ref)
  BY DEF Carried
<1>2. inventory' = [v \in Variants |-> inventory'[v]]
  BY <1>1 DEF Effect
<1>3. ASSUME NEW v \in Variants
      PROVE  inventory'[v] = inventory[v] \/ OneMovement(inventory[v], inventory'[v])
  <2>1. lines[v] = 0 \/ lines[v] > 0
    BY DEF Lines
  <2>2. CASE lines[v] = 0
    BY <1>1, <2>2 DEF Effect
  <2>3. CASE lines[v] > 0
    BY <1>1, <2>3, OneMovementLemma
  <2> QED BY <2>1, <2>2, <2>3
<1> QED BY <1>2, <1>3 DEF LedgerNext

\* Whatever the services do to the stock is a ledgered movement that never
\* takes more than there is: they implement the promise of InventoryService.
THEOREM StoreImplementsLedger == Spec => StockIsLedgered
<1>1. Init => LedgerInit
  BY DEF Init
<1>2. IInv /\ [Next]_vars => [LedgerNext]_inventory
  BY NextCarries, CarriedIsLedgered DEF vars
<1> QED BY <1>1, <1>2, Inductive, PTL DEF Spec, StockIsLedgered, LedgerSpec

-----------------------------------------------------------------------------
\* Decided documents.

\* Writing the row of an order that is not in a terminal status, and keeping
\* its lines once it exists, keeps decided documents.
LEMMA WrittenKeeps ==
    ASSUME IInv, NEW o \in Orders, orders[o].status \notin Terminal,
           \/ orders[o].status = "NONE"
           \/ orders'[o].items = orders[o].items,
           \A x \in Orders : x # o => orders'[x] = orders[x],
           UNCHANGED <<returns, purchases>>
    PROVE  DecidedRowsKept
BY DEF DecidedRowsKept

\* Every step keeps decided documents: one case per action.
LEMMA StepKeepsDecided == IInv /\ [Next]_vars => [DecidedRowsKept]_vars
<1> SUFFICES ASSUME IInv, Next PROVE DecidedRowsKept
  BY DEF vars
<1>1. TypeOK
  BY DEF IInv
<1>2. ASSUME NEW o \in Orders, OrderStep(o) PROVE DecidedRowsKept
  <2>1. ASSUME NEW items \in Baskets, NEW source, NEW status, NEW pay, NEW committed,
               Insert(o, source, status, pay, committed, items)
        PROVE  DecidedRowsKept
    BY <1>1, <2>1, WrittenKeeps DEF Insert, TypeOK, Terminal
  <2>2. ASSUME NEW status, NEW pay, NEW committed, Write(o, status, pay, committed),
               orders[o].status \notin Terminal
        PROVE  DecidedRowsKept
    <3>1. /\ orders'[o].items = orders[o].items
          /\ \A x \in Orders : x # o => orders'[x] = orders[x]
          /\ UNCHANGED <<returns, purchases>>
      BY <1>1, <2>2 DEF Write, TypeOK, OrderRows
    <3> QED BY <3>1, <2>2, WrittenKeeps
  <2>3. orders[o].status \in OrderStatuses \cup {"NONE"}
    BY <1>1 DEF TypeOK, OrderRows
  <2>4. ASSUME NEW items \in Baskets,
               OpenTicket(o, items) \/ SellNow(o, items) \/ CheckOut(o, items)
        PROVE  DecidedRowsKept
    BY <2>1, <2>4 DEF OpenTicket, SellNow, CheckOut
  <2>5. CASE Complete(o)
    <3>1. orders[o].status \notin Terminal
      BY <2>3, <2>5 DEF Complete, MayMove, Transitions, Terminal
    <3> QED BY <2>2, <2>5, <3>1 DEF Complete
  <2>6. ASSUME NEW next \in {"CONFIRMED", "PAID", "COMPLETED"}, Advance(o, next)
        PROVE  DecidedRowsKept
    <3>1. orders[o].status \notin Terminal
      BY <2>3, <2>6 DEF Advance, Transitions, Terminal
    <3> QED BY <2>2, <2>6, <3>1 DEF Advance
  <2>7. CASE Refund(o)
    <3>1. orders[o].status \notin Terminal
      BY <2>3, <2>7 DEF Refund, Transitions, Terminal
    <3> QED BY <2>2, <2>7, <3>1 DEF Refund
  <2>8. CASE Cancel(o)
    <3>1. orders[o].status \notin Terminal
      BY <2>8 DEF Cancel, Cancellable, Terminal
    <3> QED BY <2>2, <2>8, <3>1 DEF Cancel
  <2>9. ASSUME NEW lines \in Baskets, NEW accept \in BOOLEAN, CreateReturn(o, lines, accept)
        PROVE  DecidedRowsKept
    <3>1. orders' = orders /\ purchases' = purchases
      BY <2>9 DEF CreateReturn
    <3>2. ASSUME NEW r \in Returns, returns[r].status # "NONE" PROVE returns'[r] = returns[r]
      BY <2>9, <3>2 DEF CreateReturn
    <3> QED BY <3>1, <3>2 DEF DecidedRowsKept
  <2> QED BY <1>2, <2>4, <2>5, <2>6, <2>7, <2>8, <2>9 DEF OrderStep
<1>3. ASSUME NEW r \in Returns, ReturnStep(r) PROVE DecidedRowsKept
  BY <1>1, <1>3 DEF ReturnStep, AcceptReturn, RejectReturn, TypeOK, DecidedRowsKept
<1>4. ASSUME NEW p \in Purchases, PurchaseStep(p) PROVE DecidedRowsKept
  BY <1>1, <1>4
     DEF PurchaseStep, CreatePurchase, ReceivePurchase, CancelPurchase, TypeOK, DecidedRowsKept
<1>5. ASSUME NEW v \in Variants, ManualStep(v) PROVE DecidedRowsKept
  BY <1>5 DEF ManualStep, Adjust, SetAbsolute, ManualMove, DecidedRowsKept
<1> QED BY <1>2, <1>3, <1>4, <1>5 DEF Next

\* A cancelled or refunded order, a decided return and a decided purchase are
\* never written again, and the lines of an order never change.
THEOREM TerminalIsFinal == Spec => TerminalRowsAreFinal
BY Inductive, StepKeepsDecided, PTL DEF Spec, TerminalRowsAreFinal
-----------------------------------------------------------------------------
\* What the returns of an order add up to.

OrdersMade    == {o \in Orders : orders[o].status # "NONE"}
ReturnsMade   == {r \in Returns : returns[r].status # "NONE"}
PurchasesMade == {p \in Purchases : purchases[p].status # "NONE"}

\* Only so many documents have been made.
MadeAreFinite == IsFiniteSet(OrdersMade) /\ IsFiniteSet(ReturnsMade) /\ IsFiniteSet(PurchasesMade)

\* What AlreadyReturned adds up.
ReturnUnits  == [r \in Returns |-> returns[r].qty]
Prior(o, v)  == {r \in Returns : /\ returns[r].order = o
                                 /\ returns[r].variant = v
                                 /\ returns[r].status \in OpenReturn}

\* Who writes which documents.
LEMMA WritersLemma ==
    ASSUME IInv, Next
    PROVE  /\ \/ UNCHANGED returns
              \/ \E r \in Returns : AcceptReturn(r) \/ RejectReturn(r)
              \/ \E o \in Orders, lines \in Lines, accept \in BOOLEAN : CreateReturn(o, lines, accept)
           /\ \/ UNCHANGED orders
              \/ \E o \in Orders : \A x \in Orders : x # o => orders'[x] = orders[x]
           /\ \/ UNCHANGED purchases
              \/ \E p \in Purchases : \A x \in Purchases : x # p => purchases'[x] = purchases[x]
<1> DEFINE Returning == \E o \in Orders, lines \in Lines, accept \in BOOLEAN : CreateReturn(o, lines, accept)
           Ordering == \E o \in Orders : \A x \in Orders : x # o => orders'[x] = orders[x]
           Purchasing == \E p \in Purchases : \A x \in Purchases : x # p => purchases'[x] = purchases[x]
<1>1. ASSUME NEW o \in Orders, OrderStep(o)
      PROVE  \/ Returning /\ UNCHANGED <<orders, purchases>>
             \/ Ordering /\ UNCHANGED <<returns, purchases>>
  <2>1. ASSUME NEW lines \in Baskets, NEW accept \in BOOLEAN, CreateReturn(o, lines, accept)
        PROVE  Returning /\ UNCHANGED <<orders, purchases>>
    <3>1. UNCHANGED <<orders, purchases>>
      BY <2>1 DEF CreateReturn
    <3> QED BY <2>1, <3>1, BasketsAreLines
  <2>2. ASSUME NEW row, orders' = [orders EXCEPT ![o] = row]
        PROVE  Ordering
    BY <2>2 DEF IInv, TypeOK
  <2>3. ASSUME NEW source, NEW status, NEW pay, NEW committed, NEW items,
               Insert(o, source, status, pay, committed, items)
        PROVE  Ordering /\ UNCHANGED <<returns, purchases>>
    BY <2>2, <2>3 DEF Insert
  <2>4. ASSUME NEW status, NEW pay, NEW committed, Write(o, status, pay, committed)
        PROVE  Ordering /\ UNCHANGED <<returns, purchases>>
    BY <2>2, <2>4 DEF Write
  <2> HIDE DEF Returning, Ordering
  <2>5. ASSUME NEW items \in Baskets, OpenTicket(o, items) \/ SellNow(o, items) \/ CheckOut(o, items)
        PROVE  Ordering /\ UNCHANGED <<returns, purchases>>
    BY <2>3, <2>5 DEF OpenTicket, SellNow, CheckOut
  <2>6. ASSUME NEW next \in {"CONFIRMED", "PAID", "COMPLETED"}, Advance(o, next)
        PROVE  Ordering /\ UNCHANGED <<returns, purchases>>
    BY <2>4, <2>6 DEF Advance
  <2>7. CASE Complete(o) \/ Refund(o) \/ Cancel(o)
    BY <2>4, <2>7 DEF Complete, Refund, Cancel
  <2> QED BY <1>1, <2>1, <2>5, <2>6, <2>7 DEF OrderStep
<1>2. ASSUME NEW r \in Returns, ReturnStep(r)
      PROVE  (AcceptReturn(r) \/ RejectReturn(r)) /\ UNCHANGED <<orders, purchases>>
  BY <1>2 DEF ReturnStep, AcceptReturn, RejectReturn
<1>3. ASSUME NEW p \in Purchases, PurchaseStep(p)
      PROVE  Purchasing /\ UNCHANGED <<orders, returns>>
  BY <1>3 DEF PurchaseStep, CreatePurchase, ReceivePurchase, CancelPurchase, IInv, TypeOK
<1>4. ASSUME NEW v \in Variants, ManualStep(v)
      PROVE  UNCHANGED <<orders, returns, purchases>>
  BY <1>4 DEF ManualStep, Adjust, SetAbsolute, ManualMove
<1> HIDE DEF Returning, Ordering, Purchasing
<1>5. /\ UNCHANGED returns \/ (\E r \in Returns : AcceptReturn(r) \/ RejectReturn(r)) \/ Returning
      /\ UNCHANGED orders \/ Ordering
      /\ UNCHANGED purchases \/ Purchasing
  <2>1. CASE \E o \in Orders : OrderStep(o)
    BY <1>1, <2>1
  <2>2. CASE \E r \in Returns : ReturnStep(r)
    BY <1>2, <2>2
  <2>3. CASE \E p \in Purchases : PurchaseStep(p)
    BY <1>3, <2>3
  <2>4. CASE \E v \in Variants : ManualStep(v)
    BY <1>4, <2>4
  <2> QED BY <2>1, <2>2, <2>3, <2>4 DEF Next
<1> QED BY <1>5 DEF Returning, Ordering, Purchasing

\* A request writes a row for each of its lines, and those are not many.
LEMMA NewReturnsAreFinite ==
    ASSUME NEW ref \in Citations
    PROVE  IsFiniteSet({r \in Returns : \E v \in Variants : ref[v] = ReturnRef(r)})
<1> DEFINE named == {v \in Variants : \E r \in Returns : ref[v] = ReturnRef(r)}
           rows  == {r \in Returns : \E v \in Variants : ref[v] = ReturnRef(r)}
           f == [v \in named |-> CHOOSE r \in Returns : ref[v] = ReturnRef(r)]
<1>1. IsFiniteSet(named)
  BY CatalogueAssumption, FS_Subset
<1>2. \A r, s \in Returns : ReturnRef(r) = ReturnRef(s) => r = s
  BY DEF ReturnRef
<1>3. \A v \in named : f[v] \in Returns /\ ref[v] = ReturnRef(f[v])
  OBVIOUS
<1>4. f \in [named -> rows]
  BY <1>3
<1>5. \A r \in rows : \E v \in named : f[v] = r
  BY <1>2, <1>3
<1>6. f \in Surjection(named, rows)
  BY <1>4, <1>5 DEF Surjection
<1> HIDE DEF f, named, rows
<1>7. IsFiniteSet(rows)
  BY <1>1, <1>6, FS_Surjection
<1> QED BY <1>7 DEF rows

\* Each step makes finitely many documents more.
LEMMA StepMade ==
    ASSUME IInv, MadeAreFinite, Next
    PROVE  MadeAreFinite'
<1>1. IsFiniteSet(OrdersMade')
  <2>1. CASE UNCHANGED orders
    BY <2>1 DEF MadeAreFinite, OrdersMade
  <2>2. ASSUME NEW o \in Orders, \A x \in Orders : x # o => orders'[x] = orders[x]
        PROVE  IsFiniteSet(OrdersMade')
    <3>1. OrdersMade' \in SUBSET (OrdersMade \cup {o})
      BY <2>2 DEF OrdersMade
    <3>2. IsFiniteSet(OrdersMade \cup {o})
      BY FS_AddElement DEF MadeAreFinite
    <3> QED BY <3>1, <3>2, FS_Subset
  <2> QED BY <2>1, <2>2, WritersLemma
<1>2. IsFiniteSet(PurchasesMade')
  <2>1. CASE UNCHANGED purchases
    BY <2>1 DEF MadeAreFinite, PurchasesMade
  <2>2. ASSUME NEW p \in Purchases, \A x \in Purchases : x # p => purchases'[x] = purchases[x]
        PROVE  IsFiniteSet(PurchasesMade')
    <3>1. PurchasesMade' \in SUBSET (PurchasesMade \cup {p})
      BY <2>2 DEF PurchasesMade
    <3>2. IsFiniteSet(PurchasesMade \cup {p})
      BY FS_AddElement DEF MadeAreFinite
    <3> QED BY <3>1, <3>2, FS_Subset
  <2> QED BY <2>1, <2>2, WritersLemma
<1>3. IsFiniteSet(ReturnsMade')
  <2>1. CASE UNCHANGED returns
    BY <2>1 DEF MadeAreFinite, ReturnsMade
  <2>2. ASSUME NEW r \in Returns, AcceptReturn(r) \/ RejectReturn(r)
        PROVE  IsFiniteSet(ReturnsMade')
    <3>1. \A x \in Returns : x # r => returns'[x] = returns[x]
      BY <2>2 DEF AcceptReturn, RejectReturn, IInv, TypeOK
    <3>2. r \in ReturnsMade
      BY <2>2 DEF AcceptReturn, RejectReturn, ReturnsMade
    <3>3. ReturnsMade' \in SUBSET ReturnsMade
      BY <3>1, <3>2 DEF ReturnsMade
    <3> QED BY <3>3, FS_Subset DEF MadeAreFinite
  <2>3. ASSUME NEW o \in Orders, NEW lines \in Lines, NEW accept \in BOOLEAN, CreateReturn(o, lines, accept)
        PROVE  IsFiniteSet(ReturnsMade')
    <3>1. PICK ref \in Citations :
            \A r \in Returns : \/ returns'[r] = returns[r]
                               \/ \E v \in Variants : ref[v] = ReturnRef(r)
      BY <2>3, CreateReturnLemma DEF IInv
    <3> DEFINE rows == {r \in Returns : \E v \in Variants : ref[v] = ReturnRef(r)}
    <3>2. ReturnsMade' \in SUBSET (ReturnsMade \cup rows)
      BY <3>1 DEF ReturnsMade
    <3>3. IsFiniteSet(rows)
      BY NewReturnsAreFinite
    <3> HIDE DEF rows
    <3>4. IsFiniteSet(ReturnsMade \cup rows)
      BY <3>3, FS_Union DEF MadeAreFinite
    <3> QED BY <3>2, <3>4, FS_Subset
  <2> QED BY <2>1, <2>2, <2>3, WritersLemma
<1> QED BY <1>1, <1>2, <1>3 DEF MadeAreFinite

PriorIsASum ==
    \A o \in Orders, v \in Variants :
        /\ IsFiniteSet(Prior(o, v))
        /\ AlreadyReturned(o, v) = SumFunctionOnSet(ReturnUnits, Prior(o, v))
        /\ AlreadyReturned(o, v) \in Int
        /\ \A r \in Returns : ReturnUnits[r] = returns[r].qty /\ ReturnUnits[r] \in Nat

\* AlreadyReturned is a sum of natural numbers over finitely many returns.
LEMMA PriorLemma == IInv /\ MadeAreFinite => PriorIsASum
<1> SUFFICES ASSUME IInv, MadeAreFinite
             PROVE  PriorIsASum
  OBVIOUS
<1>1. \A r \in Returns : ReturnUnits[r] = returns[r].qty /\ ReturnUnits[r] \in Nat
  BY DEF ReturnUnits, IInv, TypeOK, ReturnRows
<1> SUFFICES ASSUME NEW o \in Orders, NEW v \in Variants
             PROVE  /\ IsFiniteSet(Prior(o, v))
                    /\ AlreadyReturned(o, v) = SumFunctionOnSet(ReturnUnits, Prior(o, v))
                    /\ AlreadyReturned(o, v) \in Int
  BY <1>1 DEF PriorIsASum
<1>2. Prior(o, v) \in SUBSET ReturnsMade
  BY DEF Prior, ReturnsMade, OpenReturn
<1>3. IsFiniteSet(Prior(o, v))
  BY <1>2, FS_Subset DEF MadeAreFinite
<1>4. AlreadyReturned(o, v) = SumFunctionOnSet(ReturnUnits, Prior(o, v))
  BY DEF AlreadyReturned, Prior, ReturnUnits
<1>5. \A r \in Prior(o, v) : ReturnUnits[r] \in Int
  BY <1>1 DEF Prior
<1>6. SumFunctionOnSet(ReturnUnits, Prior(o, v)) \in Int
  BY <1>3, <1>5, SumIsInt
<1> QED BY <1>3, <1>4, <1>6

\* The inductive invariant of the returns.
RInv == IInv /\ MadeAreFinite /\ ReturnsWithinOrder

\* No step takes the returns of an order beyond its lines: new ones are
\* checked against the open ones, and what is open only shrinks otherwise.
LEMMA StepReturns ==
    ASSUME RInv, Next
    PROVE  ReturnsWithinOrder'
<1>1. IInv /\ MadeAreFinite /\ IInv' /\ MadeAreFinite'
  BY StepIInv, StepMade DEF RInv
<1>0. PriorIsASum /\ PriorIsASum'
  BY <1>1, PriorLemma, PTL
<1> SUFFICES ASSUME NEW o \in Orders, NEW v \in Variants
             PROVE  AlreadyReturned(o, v)' <= orders'[o].items[v]
  BY DEF ReturnsWithinOrder
<1> DEFINE U == ReturnUnits
           P == Prior(o, v)
           A == AlreadyReturned(o, v)
<1>2. /\ IsFiniteSet(P) /\ A = SumFunctionOnSet(U, P) /\ A \in Int
      /\ \A r \in Returns : U[r] = returns[r].qty /\ U[r] \in Nat
  BY <1>0 DEF PriorIsASum
<1>3. /\ IsFiniteSet(P') /\ A' = SumFunctionOnSet(U', P') /\ A' \in Int
      /\ \A r \in Returns : U'[r] = returns'[r].qty /\ U'[r] \in Nat
  BY <1>0 DEF PriorIsASum
<1>4. /\ A <= orders[o].items[v] /\ orders[o].items[v] \in Nat
      /\ orders'[o].items[v] \in Nat
  BY <1>1 DEF RInv, ReturnsWithinOrder, IInv, TypeOK, OrderRows
<1>5. orders[o].status = "NONE" => orders[o].items[v] = 0
  BY <1>1 DEF IInv, RowsAreLinked, Nothing
<1>6. orders[o].status # "NONE" => orders'[o].items = orders[o].items
  BY <1>1, StepKeepsDecided DEF DecidedRowsKept, vars
<1>7. orders[o].items[v] <= orders'[o].items[v]
  BY <1>4, <1>5, <1>6
<1>8. P \subseteq Returns /\ P' \subseteq Returns
  BY DEF Prior
<1>9. ASSUME P' = P, \A r \in P : returns'[r].qty = returns[r].qty
      PROVE  A' <= orders'[o].items[v]
  <2>1. \A r \in P : U'[r] = U[r]
    BY <1>2, <1>3, <1>8, <1>9
  <2> HIDE DEF P, U, A
  <2>2. A' = A
    BY <1>2, <1>3, <1>9, <2>1, SumSame
  <2> QED BY <1>2, <1>3, <1>4, <1>7, <2>2
<1>10. CASE UNCHANGED returns
  BY <1>9, <1>10 DEF Prior
<1>11. ASSUME NEW r \in Returns, AcceptReturn(r)
       PROVE  A' <= orders'[o].items[v]
  <2>1. \A x \in Returns : /\ returns'[x].order = returns[x].order
                           /\ returns'[x].variant = returns[x].variant
                           /\ returns'[x].qty = returns[x].qty
                           /\ returns'[x].status \in OpenReturn <=> returns[x].status \in OpenReturn
    BY <1>1, <1>11 DEF AcceptReturn, IInv, TypeOK, ReturnRows, OpenReturn
  <2>2. P' = P
    BY <2>1 DEF Prior
  <2> QED BY <1>8, <1>9, <2>1, <2>2
<1>12. ASSUME NEW r \in Returns, RejectReturn(r)
       PROVE  A' <= orders'[o].items[v]
  <2>1. /\ \A x \in Returns : /\ returns'[x].order = returns[x].order
                              /\ returns'[x].variant = returns[x].variant
                              /\ returns'[x].qty = returns[x].qty
        /\ \A x \in Returns : x # r => returns'[x].status = returns[x].status
        /\ returns'[r].status = "REJECTED"
    BY <1>1, <1>12 DEF RejectReturn, IInv, TypeOK, ReturnRows
  <2>2. P' = P \ {r}
    BY <2>1 DEF Prior, OpenReturn
  <2>3. CASE r \notin P
    <3>1. P' = P
      BY <2>2, <2>3
    <3> QED BY <1>8, <1>9, <2>1, <3>1
  <2>4. CASE r \in P
    <3>1. \A x \in P' : U'[x] = U[x]
      BY <1>2, <1>3, <1>8, <2>1
    <3>2. (\A x \in P : U[x] \in Int) /\ U[r] \in Nat
      BY <1>2, <1>8, <2>4
    <3> HIDE DEF P, U, A
    <3>3. A' = SumFunctionOnSet(U, P \ {r})
      BY <1>3, <2>2, <3>1, SumSame
    <3>4. A = U[r] + SumFunctionOnSet(U, P \ {r})
      BY <1>2, <2>4, <3>2, SumTake
    <3> QED BY <1>2, <1>3, <1>4, <1>7, <3>2, <3>3, <3>4
  <2> QED BY <2>3, <2>4
<1>13. ASSUME NEW q \in Orders, NEW lines \in Lines, NEW accept \in BOOLEAN, CreateReturn(q, lines, accept)
       PROVE  A' <= orders'[o].items[v]
  <2>1. PICK ref \in Citations :
          /\ \A w \in Variants : lines[w] > 0 =>
               \E r \in Returns : /\ ref[w] = ReturnRef(r)
                                  /\ returns[r].status = "NONE"
                                  /\ returns'[r] = NewReturn(q, w, lines[w], accept)
          /\ \A r \in Returns :
               \/ returns'[r] = returns[r]
               \/ \E w \in Variants : /\ lines[w] > 0
                                      /\ ref[w] = ReturnRef(r)
                                      /\ returns[r].status = "NONE"
                                      /\ returns'[r] = NewReturn(q, w, lines[w], accept)
    BY <1>1, <1>13, CreateReturnLemma DEF IInv
  <2>2. \A r, s \in Returns : ReturnRef(r) = ReturnRef(s) => r = s
    BY DEF ReturnRef
  <2>3. \A w \in Variants : LET new == NewReturn(q, w, lines[w], accept)
                            IN  /\ new.order = q /\ new.variant = w /\ new.qty = lines[w]
                                /\ new.status \in OpenReturn
    BY DEF NewReturn, OpenReturn
  <2>4. \A r \in P : returns'[r] = returns[r]
    BY <2>1 DEF Prior, OpenReturn
  <2>5. CASE o # q \/ lines[v] = 0
    <3>1. P' = P
      BY <2>1, <2>3, <2>4, <2>5 DEF Prior
    <3> QED BY <1>9, <2>4, <3>1
  <2>6. CASE o = q /\ lines[v] > 0
    <3>1. PICK r \in Returns : /\ ref[v] = ReturnRef(r)
                               /\ returns[r].status = "NONE"
                               /\ returns'[r] = NewReturn(q, v, lines[v], accept)
      BY <2>1, <2>6
    <3>2. r \notin P /\ r \in P'
      BY <2>3, <2>6, <3>1 DEF Prior, OpenReturn
    <3>3. P' = P \cup {r}
      <4>1. ASSUME NEW x \in P', x \notin P
            PROVE  x = r
        <5>1. returns'[x] # returns[x] /\ returns'[x].variant = v
          BY <4>1 DEF Prior
        <5>2. PICK w \in Variants : ref[w] = ReturnRef(x) /\ returns'[x] = NewReturn(q, w, lines[w], accept)
          BY <1>8, <2>1, <4>1, <5>1
        <5>3. w = v
          BY <2>3, <5>1, <5>2
        <5> QED BY <1>8, <2>2, <3>1, <4>1, <5>2, <5>3
      <4>2. P \subseteq P'
        BY <2>4 DEF Prior
      <4> QED BY <3>2, <4>1, <4>2
    <3>4. (\A x \in P : U'[x] = U[x]) /\ U'[r] = lines[v] /\ \A x \in P' : U'[x] \in Int
      BY <1>2, <1>3, <1>8, <2>3, <2>4, <3>1
    <3>5. A + lines[v] <= orders[o].items[v] /\ orders' = orders
      <4>1. lines[v] <= orders[o].items[v] - A /\ orders' = orders
        BY <1>13, <2>6 DEF CreateReturn, Eligible
      <4>2. lines[v] \in Nat
        BY DEF Lines
      <4> HIDE DEF A
      <4> QED BY <1>2, <1>4, <4>1, <4>2
    <3> HIDE DEF P, U, A
    <3>6. SumFunctionOnSet(U', P \cup {r}) = U'[r] + SumFunctionOnSet(U', P)
      BY <1>2, <3>2, <3>3, <3>4, SumWith
    <3>7. SumFunctionOnSet(U', P) = A
      BY <1>2, <3>4, SumSame
    <3>8. lines[v] \in Nat
      BY DEF Lines
    <3> QED BY <1>2, <1>3, <1>4, <3>3, <3>4, <3>5, <3>6, <3>7, <3>8
  <2> QED BY <2>5, <2>6 DEF Lines
<1> QED BY <1>1, <1>10, <1>11, <1>12, <1>13, WritersLemma

\* Nothing has been returned of what has not been sold.
LEMMA InitRInv == Init => RInv
<1> SUFFICES ASSUME Init
             PROVE  RInv
  OBVIOUS
<1>1. IInv
  BY InitIInv
<1>2. /\ \A o \in Orders : orders[o].status = "NONE"
      /\ \A r \in Returns : returns[r].status = "NONE"
      /\ \A p \in Purchases : purchases[p].status = "NONE"
  BY DEF Init, NoOrder, NoReturn, NoPurchase
<1>3. OrdersMade = {} /\ ReturnsMade = {} /\ PurchasesMade = {}
  BY <1>2 DEF OrdersMade, ReturnsMade, PurchasesMade
<1>4. MadeAreFinite
  BY <1>3, FS_EmptySet DEF MadeAreFinite
<1>5. ASSUME NEW o \in Orders, NEW v \in Variants
      PROVE  AlreadyReturned(o, v) <= orders[o].items[v]
  <2>1. Prior(o, v) = {}
    BY <1>2 DEF Prior, OpenReturn
  <2>2. AlreadyReturned(o, v) = 0
    BY <1>1, <1>4, <2>1, PriorLemma, SumOfNone DEF PriorIsASum
  <2> QED BY <1>1, <2>2 DEF IInv, TypeOK, OrderRows
<1> QED BY <1>1, <1>4, <1>5 DEF RInv, ReturnsWithinOrder

\* Every step keeps it.
LEMMA StepRInv == RInv /\ [Next]_vars => RInv'
<1> SUFFICES ASSUME RInv, [Next]_vars
             PROVE  RInv'
  OBVIOUS
<1>1. IInv'
  BY StepIInv DEF RInv
<1>2. CASE Next
  BY <1>1, <1>2, StepMade, StepReturns DEF RInv
<1>3. CASE UNCHANGED vars
  <2>1. MadeAreFinite'
    BY <1>3 DEF vars, RInv, MadeAreFinite, OrdersMade, ReturnsMade, PurchasesMade
  <2>2. ReturnsWithinOrder'
    BY <1>3 DEF vars, RInv, ReturnsWithinOrder, AlreadyReturned
  <2> QED BY <1>1, <2>1, <2>2 DEF RInv
<1> QED BY <1>2, <1>3

\* Of no order do more units come back, asked for or accepted, than it sold.
THEOREM ReturnsStayWithin == Spec => []ReturnsWithinOrder
<1>1. RInv => ReturnsWithinOrder
  BY DEF RInv
<1> QED BY <1>1, InitRInv, StepRInv, PTL DEF Spec
-----------------------------------------------------------------------------
\* What the entries of a variant add up to.

Delta(v) == [i \in DOMAIN inventory[v].log |-> inventory[v].log[i].delta]

\* The entries of v that cite a document of D, whose references are in name.
Citing(v, D, name) ==
    {i \in DOMAIN inventory[v].log : \E d \in D : inventory[v].log[i].ref = name[d]}
CitedFor(v, D, name, type) == {d \in D : Moved(v, type, name[d])}

\* Documents of a kind: each has a reference of its own, and an entry that
\* cites it has the type of the kind and the units of the document.
KindOfDocument(v, D, name, type, units) ==
    /\ \A c, d \in D : name[c] = name[d] => c = d
    /\ \A d \in D : name[d] # Manual /\ units[d] \in Int
    /\ \A i \in DOMAIN inventory[v].log, d \in D :
          LET e == inventory[v].log[i]
          IN  e.ref = name[d] => e.type = type /\ e.delta = units[d]

\* The log of a variant is a sequence of entries.
LEMMA LogLemma ==
    ASSUME TypeOK, NEW v \in Variants
    PROVE  /\ Len(inventory[v].log) \in Nat
           /\ DOMAIN inventory[v].log = 1..Len(inventory[v].log)
           /\ IsFiniteSet(DOMAIN inventory[v].log)
           /\ \A i \in DOMAIN inventory[v].log :
                 inventory[v].log[i] \in Entries /\ Delta(v)[i] \in Int
                 /\ Delta(v)[i] = inventory[v].log[i].delta
           /\ inventory[v].qty \in Nat
<1>1. inventory[v].log \in Seq(Entries) /\ inventory[v].qty \in Nat
  BY DEF TypeOK
<1> DEFINE log == inventory[v].log
<1>2. /\ Len(log) \in Nat /\ DOMAIN log = 1..Len(log)
      /\ \A i \in DOMAIN log : log[i] \in Entries
  <2> HIDE DEF log
  <2> QED BY <1>1 DEF log
<1>3. \A i \in DOMAIN log : log[i].delta \in Int /\ Delta(v)[i] = log[i].delta
  BY <1>2 DEF Entries, Delta
<1>4. IsFiniteSet(DOMAIN log)
  BY <1>2, FS_Interval
<1> QED BY <1>1, <1>2, <1>3, <1>4

\* The quantity of a variant is the sum of its movements.
LEMMA QuantityIsASum ==
    ASSUME TypeOK, LedgerAccountsForStock, NEW v \in Variants
    PROVE  SumFunctionOnSet(Delta(v), DOMAIN inventory[v].log) = inventory[v].qty
<1> DEFINE log == inventory[v].log
           n == Len(log)
           h == [i \in 0..n |-> IF i = 0 THEN 0 ELSE log[i].new]
<1>1. /\ n \in Nat /\ DOMAIN log = 1..n
      /\ \A i \in 1..n : log[i] \in Entries /\ Delta(v)[i] \in Int /\ Delta(v)[i] = log[i].delta
  BY LogLemma
<1>2. /\ inventory[v].qty = IF log = << >> THEN 0 ELSE log[n].new
      /\ \A i \in 1..n : /\ log[i].prev = IF i = 1 THEN 0 ELSE log[i - 1].new
                         /\ log[i].new = log[i].prev + log[i].delta
  BY <1>1 DEF LedgerAccountsForStock
<1>3. ASSUME NEW i \in 1..n
      PROVE  Delta(v)[i] \in Int /\ h[i] \in Int /\ h[i] = h[i - 1] + Delta(v)[i]
  <2>1. h[i] = log[i].new /\ h[i - 1] = log[i].prev
    BY <1>1, <1>2
  <2>2. log[i].new \in Int
    BY <1>1 DEF Entries
  <2> QED BY <1>1, <1>2, <2>1, <2>2
<1>4. h[0] = 0 /\ h[n] = inventory[v].qty
  <2>1. CASE n = 0
    <3>1. log = << >>
      BY <1>1, <2>1 DEF TypeOK
    <3> QED BY <1>2, <2>1, <3>1
  <2>2. CASE n # 0
    <3>1. log # << >> /\ n \in 0..n
      BY <1>1, <2>2
    <3> QED BY <1>2, <2>2, <3>1
  <2> QED BY <1>1, <2>1, <2>2
<1> HIDE DEF h, n, log
<1>5. SumFunctionOnSet(Delta(v), 1..n) = h[n]
  <2>1. n \in Nat /\ h[0] = 0
    BY <1>1, <1>4
  <2>2. \A i \in 1..n : Delta(v)[i] \in Int /\ h[i] \in Int /\ h[i] = h[i - 1] + Delta(v)[i]
    BY <1>3
  <2> QED BY ONLY <2>1, <2>2, SumOfSteps, Zenon
<1> QED BY <1>1, <1>4, <1>5 DEF log

\* The entries that cite documents of a kind add up to the units of the
\* documents that have moved the variant.
LEMMA KindLemma ==
    ASSUME TypeOK, MovedAtMostOnce, NEW v \in Variants, NEW D, NEW name, NEW type, NEW units,
           KindOfDocument(v, D, name, type, units)
    PROVE  /\ IsFiniteSet(CitedFor(v, D, name, type))
           /\ SumFunctionOnSet(Delta(v), Citing(v, D, name))
                = SumFunctionOnSet(units, CitedFor(v, D, name, type))
<1> DEFINE log == inventory[v].log
           S == Citing(v, D, name)
           T == CitedFor(v, D, name, type)
           m == [i \in S |-> CHOOSE d \in D : log[i].ref = name[d]]
<1>1. \A i \in S : m[i] \in D /\ log[i].ref = name[m[i]] /\ i \in DOMAIN log
  BY DEF Citing
<1>2. IsFiniteSet(S)
  <2>1. S \in SUBSET DOMAIN log
    BY DEF Citing
  <2> QED BY <2>1, LogLemma, FS_Subset
<1>3. \A i \in DOMAIN log : Delta(v)[i] = log[i].delta
  BY LogLemma
<1>4. \A i \in S : log[i].type = type /\ log[i].delta = units[m[i]]
  BY <1>1 DEF KindOfDocument
<1>5. \A i \in S : m[i] \in T
  BY <1>1, <1>4 DEF CitedFor, Moved, Cites
<1>6. \A i, j \in S : m[i] = m[j] => i = j
  <2> SUFFICES ASSUME NEW i \in S, NEW j \in S, m[i] = m[j]
               PROVE  i = j
    OBVIOUS
  <2>1. log[i].ref = log[j].ref /\ log[i].type = log[j].type /\ log[i].ref # Manual
    BY <1>1, <1>4 DEF KindOfDocument
  <2> HIDE DEF S, m
  <2> QED BY <1>1, <2>1 DEF MovedAtMostOnce, Cites
<1>7. \A t \in T : units[t] \in Int /\ \E i \in S : m[i] = t
  <2> SUFFICES ASSUME NEW t \in T
               PROVE  units[t] \in Int /\ \E i \in S : m[i] = t
    OBVIOUS
  <2>1. t \in D /\ units[t] \in Int
    BY DEF CitedFor, KindOfDocument
  <2>2. PICK i \in DOMAIN log : log[i].ref = name[t]
    BY DEF CitedFor, Moved, Cites
  <2>3. i \in S
    BY <2>1, <2>2 DEF Citing
  <2>4. m[i] = t
    BY <1>1, <2>1, <2>2, <2>3 DEF KindOfDocument
  <2> QED BY <2>1, <2>3, <2>4
<1>8. \A i \in S : m[i] \in T /\ Delta(v)[i] = units[m[i]]
  BY <1>1, <1>3, <1>4, <1>5
<1> HIDE DEF S, T, m
<1>9. IsFiniteSet(T) /\ SumFunctionOnSet(Delta(v), S) = SumFunctionOnSet(units, T)
  BY <1>2, <1>6, <1>7, <1>8, SumAlong
<1> QED BY <1>9 DEF S, T

\* Every entry was booked by hand or names a document.
EntriesAreNamed ==
    \A v \in Variants : \A i \in DOMAIN inventory[v].log :
        LET ref == inventory[v].log[i].ref
        IN  ref = Manual \/ NamesDocument(ref)

\* The reports' sets of documents, and what a variant has in each.
CommittedOrders   == {o \in Orders : orders[o].committed}
ReceivedPurchases == {p \in Purchases : purchases[p].status = "RECEIVED"}
AcceptedReturns   == {r \in Returns : returns[r].status = "ACCEPTED"}
Sold(v)   == [o \in Orders |-> orders[o].items[v]]
Unsold(v) == [o \in Orders |-> -orders[o].items[v]]
Bought(v) == [p \in Purchases |-> purchases[p].items[v]]
Back(v)   == [r \in Returns |-> IF returns[r].variant = v THEN returns[r].qty ELSE 0]
ByHand(v) == {i \in DOMAIN inventory[v].log : inventory[v].log[i].ref = Manual}

OrderNames    == [o \in Orders |-> OrderRef(o)]
CancelNames   == [o \in Orders |-> CancelRef(o)]
ReturnNames   == [r \in Returns |-> ReturnRef(r)]
PurchaseNames == [p \in Purchases |-> PurchaseRef(p)]

\* Every entry was booked by hand or for one kind of document, so the sum of
\* all entries is the sum of those five.
LEMMA GroupsLemma ==
    ASSUME TypeOK, EntriesAreNamed, NEW v \in Variants
    PROVE  LET D == DOMAIN inventory[v].log
               H == ByHand(v)
               O == Citing(v, Orders, OrderNames)
               C == Citing(v, Orders, CancelNames)
               R == Citing(v, Returns, ReturnNames)
               P == Citing(v, Purchases, PurchaseNames)
           IN  SumFunctionOnSet(Delta(v), D) =
                   SumFunctionOnSet(Delta(v), H) + SumFunctionOnSet(Delta(v), O)
                   + SumFunctionOnSet(Delta(v), C) + SumFunctionOnSet(Delta(v), R)
                   + SumFunctionOnSet(Delta(v), P)
               /\ SumFunctionOnSet(Delta(v), H) \in Int
<1> DEFINE D == DOMAIN inventory[v].log
           H == ByHand(v)
           O == Citing(v, Orders, OrderNames)
           C == Citing(v, Orders, CancelNames)
           R == Citing(v, Returns, ReturnNames)
           P == Citing(v, Purchases, PurchaseNames)
           ref == [i \in D |-> inventory[v].log[i].ref]
           f == Delta(v)
<1>1. IsFiniteSet(D) /\ \A i \in D : f[i] \in Int
  BY LogLemma
<1>2. /\ H = {i \in D : ref[i] = Manual}
      /\ O = {i \in D : \E o \in Orders : ref[i] = OrderRef(o)}
      /\ C = {i \in D : \E o \in Orders : ref[i] = CancelRef(o)}
      /\ R = {i \in D : \E r \in Returns : ref[i] = ReturnRef(r)}
      /\ P = {i \in D : \E p \in Purchases : ref[i] = PurchaseRef(p)}
  BY DEF ByHand, Citing, OrderNames, CancelNames, ReturnNames, PurchaseNames
<1>3. \A i \in D : ref[i] = Manual \/ NamesDocument(ref[i])
  BY DEF EntriesAreNamed
<1> HIDE DEF H, O, C, R, P, D, f, ref
<1>4. /\ \A i \in H : ref[i].kind = "MANUAL"
      /\ \A i \in O : ref[i].kind = "ORDER"
      /\ \A i \in C : ref[i].kind = "ORDER_CANCELLATION"
      /\ \A i \in R : ref[i].kind = "RETURN"
      /\ \A i \in P : ref[i].kind = "PURCHASE"
  <2>1. /\ Manual.kind = "MANUAL"
        /\ \A o : OrderRef(o).kind = "ORDER" /\ CancelRef(o).kind = "ORDER_CANCELLATION"
        /\ \A o : ReturnRef(o).kind = "RETURN" /\ PurchaseRef(o).kind = "PURCHASE"
    BY DEF Manual, OrderRef, CancelRef, ReturnRef, PurchaseRef
  <2> QED BY <1>2, <2>1
<1>5. D = H \cup O \cup C \cup R \cup P
  BY <1>2, <1>3 DEF NamesDocument
<1> DEFINE D1 == O \cup C \cup R \cup P
           D2 == C \cup R \cup P
           D3 == R \cup P
<1>6. H \in SUBSET D /\ D \ H = D1 /\ D1 \in SUBSET D
  BY <1>4, <1>5
<1>7. O \in SUBSET D1 /\ D1 \ O = D2 /\ D2 \in SUBSET D
  BY <1>4, <1>5
<1>8. C \in SUBSET D2 /\ D2 \ C = D3 /\ D3 \in SUBSET D
  BY <1>4, <1>5
<1>9. R \in SUBSET D3 /\ D3 \ R = P /\ P \in SUBSET D
  BY <1>4, <1>5
<1>10. O \in SUBSET D /\ C \in SUBSET D /\ R \in SUBSET D
  BY <1>5
<1> HIDE DEF D1, D2, D3
<1>11. IsFiniteSet(D1) /\ IsFiniteSet(D2) /\ IsFiniteSet(D3)
  BY <1>1, <1>6, <1>7, <1>8, FS_Subset
<1>12. ASSUME NEW X \in SUBSET D
       PROVE  SumFunctionOnSet(f, X) \in Int
  <2>1. IsFiniteSet(X) /\ \A i \in X : f[i] \in Int
    BY <1>1, FS_Subset
  <2> QED BY <2>1, SumIsInt
<1>13. SumFunctionOnSet(f, D) = SumFunctionOnSet(f, H) + SumFunctionOnSet(f, D1)
  BY <1>1, <1>6, SumSplit
<1>14. SumFunctionOnSet(f, D1) = SumFunctionOnSet(f, O) + SumFunctionOnSet(f, D2)
  <2>1. \A i \in D1 : f[i] \in Int
    BY <1>1, <1>6
  <2> QED BY <1>7, <1>11, <2>1, SumSplit
<1>15. SumFunctionOnSet(f, D2) = SumFunctionOnSet(f, C) + SumFunctionOnSet(f, D3)
  <2>1. \A i \in D2 : f[i] \in Int
    BY <1>1, <1>7
  <2> QED BY <1>8, <1>11, <2>1, SumSplit
<1>16. SumFunctionOnSet(f, D3) = SumFunctionOnSet(f, R) + SumFunctionOnSet(f, P)
  <2>1. \A i \in D3 : f[i] \in Int
    BY <1>1, <1>8
  <2> QED BY <1>9, <1>11, <2>1, SumSplit
<1>17. /\ SumFunctionOnSet(f, H) \in Int /\ SumFunctionOnSet(f, O) \in Int
       /\ SumFunctionOnSet(f, C) \in Int /\ SumFunctionOnSet(f, R) \in Int
       /\ SumFunctionOnSet(f, P) \in Int
  BY <1>6, <1>9, <1>10, <1>12
<1>18. SumFunctionOnSet(f, D) = SumFunctionOnSet(f, H) + SumFunctionOnSet(f, O)
           + SumFunctionOnSet(f, C) + SumFunctionOnSet(f, R) + SumFunctionOnSet(f, P)
  BY <1>13, <1>14, <1>15, <1>16, <1>17
<1> QED BY <1>17, <1>18 DEF D, H, O, C, R, P, f

\* What is sold is what is committed.
LEMMA SoldLemma ==
    ASSUME IInv, MadeAreFinite, NEW v \in Variants
    PROVE  SumFunctionOnSet(Delta(v), Citing(v, Orders, OrderNames))
             + SumFunctionOnSet(Delta(v), Citing(v, Orders, CancelNames))
               = -SumFunctionOnSet(Sold(v), CommittedOrders)
           /\ SumFunctionOnSet(Delta(v), Citing(v, Orders, OrderNames)) \in Int
           /\ SumFunctionOnSet(Delta(v), Citing(v, Orders, CancelNames)) \in Int
           /\ SumFunctionOnSet(Sold(v), CommittedOrders) \in Int
<1> DEFINE S == CitedFor(v, Orders, OrderNames, "SALE")
           R == CitedFor(v, Orders, CancelNames, "ADJUSTMENT_IN")
           K == CommittedOrders
<1>1. TypeOK /\ MovedAtMostOnce /\ EntriesMatchDocuments
  BY DEF IInv
<1>2. \A o \in Orders : /\ Sold(v)[o] = orders[o].items[v] /\ Sold(v)[o] \in Nat
                        /\ Unsold(v)[o] = 0 - Sold(v)[o] /\ Unsold(v)[o] \in Int
  BY <1>1 DEF TypeOK, OrderRows, Sold, Unsold
<1>3. KindOfDocument(v, Orders, OrderNames, "SALE", Unsold(v))
  <2>1. \A c, d \in Orders : OrderNames[c] = OrderNames[d] => c = d
    BY DEF OrderNames, OrderRef
  <2>2. \A d \in Orders : OrderNames[d] # Manual
    BY DEF OrderNames, OrderRef, Manual
  <2>3. \A i \in DOMAIN inventory[v].log, d \in Orders :
          LET e == inventory[v].log[i]
          IN  e.ref = OrderNames[d] => e.type = "SALE" /\ e.delta = Unsold(v)[d]
    BY <1>1 DEF EntriesMatchDocuments, Matches, OrderNames, Unsold
  <2> QED BY <1>2, <2>1, <2>2, <2>3 DEF KindOfDocument
<1>4. KindOfDocument(v, Orders, CancelNames, "ADJUSTMENT_IN", Sold(v))
  <2>1. \A c, d \in Orders : CancelNames[c] = CancelNames[d] => c = d
    BY DEF CancelNames, CancelRef
  <2>2. \A d \in Orders : CancelNames[d] # Manual
    BY DEF CancelNames, CancelRef, Manual
  <2>3. \A i \in DOMAIN inventory[v].log, d \in Orders :
          LET e == inventory[v].log[i]
          IN  e.ref = CancelNames[d] => e.type = "ADJUSTMENT_IN" /\ e.delta = Sold(v)[d]
    BY <1>1 DEF EntriesMatchDocuments, Matches, CancelNames, Sold
  <2> QED BY <1>2, <2>1, <2>2, <2>3 DEF KindOfDocument
<1>5. IsFiniteSet(S) /\ SumFunctionOnSet(Delta(v), Citing(v, Orders, OrderNames)) = SumFunctionOnSet(Unsold(v), S)
  BY <1>1, <1>3, KindLemma
<1>6. IsFiniteSet(R) /\ SumFunctionOnSet(Delta(v), Citing(v, Orders, CancelNames)) = SumFunctionOnSet(Sold(v), R)
  BY <1>1, <1>4, KindLemma
<1>7. IsFiniteSet(K)
  <2>1. K \in SUBSET OrdersMade
    BY DEF IInv, StatusPaymentStockAgree, RowAgrees, CommittedOrders, OrdersMade
  <2> QED BY <2>1, FS_Subset DEF MadeAreFinite
<1>8. R \in SUBSET S /\ S \ R \in SUBSET K /\ \A o \in K \ (S \ R) : Sold(v)[o] = 0
  <2>1. S = {o \in Orders : Moved(v, "SALE", OrderRef(o))} /\ R = {o \in Orders : Moved(v, "ADJUSTMENT_IN", CancelRef(o))}
    BY DEF CitedFor, OrderNames, CancelNames
  <2>2. \A o \in Orders :
          /\ o \in R => o \in S
          /\ orders[o].items[v] > 0 => (orders[o].committed <=> o \in S /\ o \notin R)
          /\ o \in S => orders[o].items[v] > 0
    BY <2>1 DEF IInv, CommittedMeansSold, RowsAreLinked
  <2>3. S \subseteq Orders /\ R \subseteq Orders
    BY <2>1
  <2>4. \A o \in K \ (S \ R) : ~(orders[o].items[v] > 0)
    BY <2>2 DEF CommittedOrders
  <2>5. \A o \in K \ (S \ R) : Sold(v)[o] = 0
    BY <1>2, <2>4 DEF CommittedOrders
  <2> HIDE DEF S, R
  <2> QED BY <2>2, <2>3, <2>5 DEF CommittedOrders
<1>9. S \subseteq Orders /\ K \subseteq Orders
  BY DEF CitedFor, CommittedOrders
<1> HIDE DEF S, R, K
<1>10. (\A o \in S : Sold(v)[o] \in Int /\ Unsold(v)[o] \in Int) /\ \A o \in K : Sold(v)[o] \in Int
  BY <1>2, <1>9
<1>11. SumFunctionOnSet(Sold(v), S) = SumFunctionOnSet(Sold(v), R) + SumFunctionOnSet(Sold(v), S \ R)
  BY <1>5, <1>8, <1>10, SumSplit
<1>12. SumFunctionOnSet(Sold(v), K) = SumFunctionOnSet(Sold(v), S \ R)
  BY <1>7, <1>8, <1>10, SumOnSupport
<1>13. SumFunctionOnSet(Unsold(v), S) = 0 - SumFunctionOnSet(Sold(v), S)
  <2> DEFINE zero == [o \in S |-> 0]
  <2>1. SumFunctionOnSet(zero, S) = 0
    BY <1>5, SumOfZeros
  <2>2. \A o \in S : zero[o] \in Int /\ Sold(v)[o] \in Int /\ Unsold(v)[o] = zero[o] - Sold(v)[o]
    BY <1>2, <1>9
  <2> HIDE DEF zero
  <2>3. SumFunctionOnSet(Unsold(v), S) = SumFunctionOnSet(zero, S) - SumFunctionOnSet(Sold(v), S)
    BY <1>5, <2>2, SumMinus
  <2> QED BY <2>1, <2>3
<1>14. /\ SumFunctionOnSet(Sold(v), S) \in Int /\ SumFunctionOnSet(Sold(v), K) \in Int
       /\ SumFunctionOnSet(Sold(v), R) \in Int
  <2>1. \A o \in R : Sold(v)[o] \in Int
    BY <1>8, <1>10
  <2> QED BY <1>5, <1>6, <1>7, <1>10, <2>1, SumIsInt
<1> DEFINE s == SumFunctionOnSet(Sold(v), S)
           k == SumFunctionOnSet(Sold(v), K)
           r == SumFunctionOnSet(Sold(v), R)
<1>15. s \in Int /\ k \in Int /\ r \in Int /\ s = r + k
  BY <1>11, <1>12, <1>14
<1>16. SumFunctionOnSet(Unsold(v), S) = 0 - s
  BY <1>13
<1> HIDE DEF s, k, r
<1>17. (0 - s) + r = -k /\ 0 - s \in Int
  BY <1>15
<1> QED BY <1>5, <1>6, <1>15, <1>16, <1>17 DEF k, r, K

\* What has come back is what was accepted.
LEMMA BackLemma ==
    ASSUME IInv, MadeAreFinite, NEW v \in Variants
    PROVE  SumFunctionOnSet(Delta(v), Citing(v, Returns, ReturnNames))
               = SumFunctionOnSet(Back(v), AcceptedReturns)
           /\ SumFunctionOnSet(Back(v), AcceptedReturns) \in Int
<1> DEFINE S == CitedFor(v, Returns, ReturnNames, "RETURN")
           K == AcceptedReturns
<1>1. TypeOK /\ MovedAtMostOnce /\ EntriesMatchDocuments
  BY DEF IInv
<1>2. \A r \in Returns : /\ ReturnUnits[r] = returns[r].qty /\ ReturnUnits[r] \in Nat
                         /\ Back(v)[r] \in Int
                         /\ returns[r].variant = v => Back(v)[r] = ReturnUnits[r]
                         /\ returns[r].variant # v => Back(v)[r] = 0
  BY <1>1 DEF TypeOK, ReturnRows, ReturnUnits, Back
<1>3. KindOfDocument(v, Returns, ReturnNames, "RETURN", ReturnUnits)
  <2>1. \A c, d \in Returns : ReturnNames[c] = ReturnNames[d] => c = d
    BY DEF ReturnNames, ReturnRef
  <2>2. \A d \in Returns : ReturnNames[d] # Manual
    BY DEF ReturnNames, ReturnRef, Manual
  <2>3. \A i \in DOMAIN inventory[v].log, d \in Returns :
          LET e == inventory[v].log[i]
          IN  e.ref = ReturnNames[d] => e.type = "RETURN" /\ e.delta = ReturnUnits[d]
    BY <1>1 DEF EntriesMatchDocuments, Matches, ReturnNames, ReturnUnits
  <2> QED BY <1>2, <2>1, <2>2, <2>3 DEF KindOfDocument
<1>4. IsFiniteSet(S) /\ SumFunctionOnSet(Delta(v), Citing(v, Returns, ReturnNames)) = SumFunctionOnSet(ReturnUnits, S)
  BY <1>1, <1>3, KindLemma
<1>5. IsFiniteSet(K)
  <2>1. K \in SUBSET ReturnsMade
    BY DEF AcceptedReturns, ReturnsMade
  <2> QED BY <2>1, FS_Subset DEF MadeAreFinite
<1>6. S = {r \in Returns : returns[r].status = "ACCEPTED" /\ returns[r].variant = v}
  BY DEF CitedFor, ReturnNames, IInv, NoDoubleCredit
<1>7. S \in SUBSET K /\ (\A r \in K \ S : Back(v)[r] = 0) /\ (\A r \in S : Back(v)[r] = ReturnUnits[r])
  BY <1>2, <1>6 DEF AcceptedReturns
<1>8. \A r \in K : Back(v)[r] \in Int
  BY <1>2 DEF AcceptedReturns
<1> HIDE DEF S, K
<1>9. SumFunctionOnSet(Back(v), K) = SumFunctionOnSet(Back(v), S)
  BY <1>5, <1>7, <1>8, SumOnSupport
<1>10. SumFunctionOnSet(Back(v), S) = SumFunctionOnSet(ReturnUnits, S)
  BY <1>4, <1>7, SumSame
<1>11. SumFunctionOnSet(Back(v), K) \in Int
  BY <1>5, <1>8, SumIsInt
<1> QED BY <1>4, <1>9, <1>10, <1>11 DEF K

\* What came in is what was received.
LEMMA BoughtLemma ==
    ASSUME IInv, MadeAreFinite, NEW v \in Variants
    PROVE  SumFunctionOnSet(Delta(v), Citing(v, Purchases, PurchaseNames))
               = SumFunctionOnSet(Bought(v), ReceivedPurchases)
           /\ SumFunctionOnSet(Bought(v), ReceivedPurchases) \in Int
<1> DEFINE S == CitedFor(v, Purchases, PurchaseNames, "PURCHASE")
           K == ReceivedPurchases
<1>1. TypeOK /\ MovedAtMostOnce /\ EntriesMatchDocuments
  BY DEF IInv
<1>2. \A p \in Purchases : Bought(v)[p] = purchases[p].items[v] /\ Bought(v)[p] \in Nat
  BY <1>1 DEF TypeOK, PurchaseRows, Bought
<1>3. KindOfDocument(v, Purchases, PurchaseNames, "PURCHASE", Bought(v))
  <2>1. \A c, d \in Purchases : PurchaseNames[c] = PurchaseNames[d] => c = d
    BY DEF PurchaseNames, PurchaseRef
  <2>2. \A d \in Purchases : PurchaseNames[d] # Manual
    BY DEF PurchaseNames, PurchaseRef, Manual
  <2>3. \A i \in DOMAIN inventory[v].log, d \in Purchases :
          LET e == inventory[v].log[i]
          IN  e.ref = PurchaseNames[d] => e.type = "PURCHASE" /\ e.delta = Bought(v)[d]
    BY <1>1 DEF EntriesMatchDocuments, Matches, PurchaseNames, Bought
  <2> QED BY <1>2, <2>1, <2>2, <2>3 DEF KindOfDocument
<1>4. IsFiniteSet(S) /\ SumFunctionOnSet(Delta(v), Citing(v, Purchases, PurchaseNames)) = SumFunctionOnSet(Bought(v), S)
  BY <1>1, <1>3, KindLemma
<1>5. IsFiniteSet(K)
  <2>1. K \in SUBSET PurchasesMade
    BY DEF ReceivedPurchases, PurchasesMade
  <2> QED BY <2>1, FS_Subset DEF MadeAreFinite
<1>6. S = {p \in Purchases : purchases[p].status = "RECEIVED" /\ purchases[p].items[v] > 0}
  BY DEF CitedFor, PurchaseNames, IInv, ReceivedMeansStocked
<1>7. S \in SUBSET K /\ \A p \in K \ S : Bought(v)[p] = 0
  BY <1>2, <1>6 DEF ReceivedPurchases
<1>8. \A p \in K : Bought(v)[p] \in Int
  BY <1>2 DEF ReceivedPurchases
<1> HIDE DEF S, K
<1>9. SumFunctionOnSet(Bought(v), K) = SumFunctionOnSet(Bought(v), S)
  BY <1>5, <1>7, <1>8, SumOnSupport
<1>10. SumFunctionOnSet(Bought(v), K) \in Int
  BY <1>5, <1>8, SumIsInt
<1> QED BY <1>4, <1>9, <1>10 DEF K

\* The balance of one variant.
LEMMA BalanceLemma ==
    ASSUME IInv, MadeAreFinite, EntriesAreNamed, NEW v \in Variants
    PROVE  /\ inventory[v].qty + SumFunctionOnSet(Sold(v), CommittedOrders)
                = SumFunctionOnSet(Bought(v), ReceivedPurchases)
                  + SumFunctionOnSet(Back(v), AcceptedReturns)
                  + SumFunctionOnSet(Delta(v), ByHand(v))
           /\ inventory[v].qty \in Int
           /\ SumFunctionOnSet(Sold(v), CommittedOrders) \in Int
           /\ SumFunctionOnSet(Bought(v), ReceivedPurchases) \in Int
           /\ SumFunctionOnSet(Back(v), AcceptedReturns) \in Int
           /\ SumFunctionOnSet(Delta(v), ByHand(v)) \in Int
<1> DEFINE q == inventory[v].qty
           s == SumFunctionOnSet(Sold(v), CommittedOrders)
           b == SumFunctionOnSet(Bought(v), ReceivedPurchases)
           a == SumFunctionOnSet(Back(v), AcceptedReturns)
           h == SumFunctionOnSet(Delta(v), ByHand(v))
           o == SumFunctionOnSet(Delta(v), Citing(v, Orders, OrderNames))
           c == SumFunctionOnSet(Delta(v), Citing(v, Orders, CancelNames))
<1>1. TypeOK /\ LedgerAccountsForStock
  BY DEF IInv
<1>2. q = h + o + c + a + b /\ h \in Int
  BY <1>1, QuantityIsASum, GroupsLemma, BackLemma, BoughtLemma
<1>3. o + c = -s /\ o \in Int /\ c \in Int /\ s \in Int
  BY SoldLemma
<1>4. a \in Int /\ b \in Int
  BY BackLemma, BoughtLemma
<1>5. q \in Int
  BY <1>1, LogLemma
<1> HIDE DEF q, s, b, a, h, o, c
<1>6. q + s = b + a + h
  BY <1>2, <1>3, <1>4
<1> QED BY <1>2, <1>3, <1>4, <1>5, <1>6 DEF q, s, b, a, h
-----------------------------------------------------------------------------
\* The reports, added up over the variants.

\* The units of some documents are those of their variants.
LEMMA UnitsLemma ==
    ASSUME NEW rows, NEW S \in SUBSET DOMAIN rows, IsFiniteSet(S),
           \A d \in S : rows[d].items \in Lines
    PROVE  /\ UnitsIn(rows, S) =
                SumFunctionOnSet([v \in Variants |->
                    SumFunctionOnSet([d \in DOMAIN rows |-> rows[d].items[v]], S)], Variants)
           /\ UnitsIn(rows, S) \in Int
<1> DEFINE a == [d \in S |-> rows[d].items]
           row == [d \in S |-> SumFunctionOnSet(a[d], Variants)]
           units == [d \in DOMAIN rows |-> Units(rows[d].items)]
           col(v) == [d \in S |-> a[d][v]]
           units2(v) == [d \in DOMAIN rows |-> rows[d].items[v]]
           cols == [v \in Variants |-> SumFunctionOnSet(col(v), S)]
           cols2 == [v \in Variants |-> SumFunctionOnSet(units2(v), S)]
<1>1. IsFiniteSet(Variants)
  BY CatalogueAssumption
<1>2. \A d \in S, v \in Variants : a[d][v] \in Int /\ a[d][v] = rows[d].items[v]
  BY DEF Lines
<1>3. \A d \in S : row[d] = units[d] /\ row[d] = SumFunctionOnSet(a[d], Variants)
  BY DEF Units, SumFunction, Lines
<1>4. \A d \in S : row[d] \in Int
  <2> SUFFICES ASSUME NEW d \in S
               PROVE  row[d] \in Int
    OBVIOUS
  <2>1. \A v \in Variants : a[d][v] \in Int
    BY <1>2
  <2> HIDE DEF a
  <2> QED BY <1>1, <2>1, SumIsInt
<1>5. SumFunctionOnSet(row, S) = SumFunctionOnSet(cols, Variants)
  <2> HIDE DEF a
  <2> QED BY <1>1, <1>2, SumSwap
<1>6. \A v \in Variants : cols2[v] = cols[v]
  <2> SUFFICES ASSUME NEW v \in Variants
               PROVE  SumFunctionOnSet(units2(v), S) = SumFunctionOnSet(col(v), S)
    OBVIOUS
  <2>1. \A d \in S : units2(v)[d] = col(v)[d]
    OBVIOUS
  <2> HIDE DEF units2, col
  <2> QED BY <2>1, SumSame
<1>7. UnitsIn(rows, S) = SumFunctionOnSet(units, S)
  BY DEF UnitsIn
<1> HIDE DEF row, units, cols, cols2
<1>8. SumFunctionOnSet(units, S) = SumFunctionOnSet(row, S) /\ SumFunctionOnSet(row, S) \in Int
  BY <1>3, <1>4, SumSame, SumIsInt
<1>9. SumFunctionOnSet(cols2, Variants) = SumFunctionOnSet(cols, Variants)
  BY <1>1, <1>6, SumSame
<1> QED BY <1>5, <1>7, <1>8, <1>9 DEF cols2

\* The units returned are those returned of each variant.
LEMMA ReturnedLemma ==
    ASSUME IInv, MadeAreFinite
    PROVE  UnitsReturned =
             SumFunctionOnSet([v \in Variants |-> SumFunctionOnSet(Back(v), AcceptedReturns)], Variants)
<1> DEFINE S == AcceptedReturns
           a == [r \in S |-> [v \in Variants |-> Back(v)[r]]]
           row == [r \in S |-> SumFunctionOnSet(a[r], Variants)]
           col(v) == [r \in S |-> a[r][v]]
           cols == [v \in Variants |-> SumFunctionOnSet(col(v), S)]
           cols2 == [v \in Variants |-> SumFunctionOnSet(Back(v), S)]
<1>1. IsFiniteSet(Variants)
  BY CatalogueAssumption
<1>2. IsFiniteSet(S)
  <2>1. S \in SUBSET ReturnsMade
    BY DEF AcceptedReturns, ReturnsMade
  <2> QED BY <2>1, FS_Subset DEF MadeAreFinite
<1>3. \A r \in S : returns[r].variant \in Variants /\ ReturnUnits[r] \in Nat
  BY DEF IInv, TypeOK, ReturnRows, RowsAreLinked, AcceptedReturns, ReturnUnits
<1>4. \A r \in S, v \in Variants :
        a[r][v] \in Int /\ a[r][v] = IF v = returns[r].variant THEN ReturnUnits[r] ELSE 0
  BY <1>3 DEF Back, ReturnUnits, AcceptedReturns
<1>5. ASSUME NEW r \in S
      PROVE  row[r] = ReturnUnits[r]
  <2> DEFINE w == returns[r].variant
  <2>1. /\ w \in Variants /\ a[r][w] = ReturnUnits[r] /\ ReturnUnits[r] \in Int
        /\ \A v \in Variants : a[r][v] \in Int
        /\ \A v \in Variants \ {w} : a[r][v] = 0
    BY <1>3, <1>4
  <2>2. row[r] = SumFunctionOnSet(a[r], Variants)
    OBVIOUS
  <2> HIDE DEF a, row, w
  <2>3. SumFunctionOnSet(a[r], Variants) = a[r][w] + SumFunctionOnSet(a[r], Variants \ {w})
    BY <1>1, <2>1, SumTake
  <2>4. IsFiniteSet(Variants \ {w})
    BY <1>1, FS_RemoveElement
  <2>5. SumFunctionOnSet(a[r], Variants \ {w}) = 0
    BY <2>1, <2>4, SumOfZeros
  <2> QED BY <2>1, <2>2, <2>3, <2>5
<1>6. SumFunctionOnSet(row, S) = SumFunctionOnSet(cols, Variants)
  <2> HIDE DEF a, S
  <2> QED BY <1>1, <1>2, <1>4, SumSwap
<1>7. \A v \in Variants : cols2[v] = cols[v]
  <2> SUFFICES ASSUME NEW v \in Variants
               PROVE  SumFunctionOnSet(Back(v), S) = SumFunctionOnSet(col(v), S)
    OBVIOUS
  <2>1. \A r \in S : Back(v)[r] = col(v)[r]
    OBVIOUS
  <2> HIDE DEF col, S
  <2> QED BY <1>2, <2>1, SumSame
<1>8. UnitsReturned = SumFunctionOnSet(ReturnUnits, S)
  BY DEF UnitsReturned, ReturnUnits, AcceptedReturns
<1> HIDE DEF row, cols, cols2, S
<1>9. SumFunctionOnSet(ReturnUnits, S) = SumFunctionOnSet(row, S)
  BY <1>2, <1>5, SumSame
<1>10. SumFunctionOnSet(cols2, Variants) = SumFunctionOnSet(cols, Variants)
  BY <1>1, <1>7, SumSame
<1> QED BY <1>6, <1>8, <1>9, <1>10 DEF cols2, S

\* The balances of the variants, added up.
LEMMA TotalsLemma ==
    ASSUME IInv, MadeAreFinite, EntriesAreNamed
    PROVE  /\ TotalUnits + UnitsIn(orders, CommittedOrders)
                = UnitsReceived + UnitsReturned + BookedByHand
           /\ TotalUnits \in Int
<1> DEFINE q == [v \in Variants |-> inventory[v].qty]
           s == [v \in Variants |-> SumFunctionOnSet(Sold(v), CommittedOrders)]
           b == [v \in Variants |-> SumFunctionOnSet(Bought(v), ReceivedPurchases)]
           a == [v \in Variants |-> SumFunctionOnSet(Back(v), AcceptedReturns)]
           h == [v \in Variants |-> SumFunctionOnSet(Delta(v), ByHand(v))]
           in == [v \in Variants |-> b[v] + a[v]]
           all == [v \in Variants |-> in[v] + h[v]]
<1>0. IsFiniteSet(Variants)
  BY CatalogueAssumption
<1>1. TotalUnits = SumFunctionOnSet(q, Variants)
  BY DEF TotalUnits, SumFunction
<1>2. BookedByHand = SumFunctionOnSet(h, Variants)
  BY DEF BookedByHand, Delta, ByHand, SumFunction
<1>3. UnitsIn(orders, CommittedOrders) = SumFunctionOnSet(s, Variants)
  <2>1. CommittedOrders \in SUBSET OrdersMade
    BY DEF IInv, StatusPaymentStockAgree, RowAgrees, CommittedOrders, OrdersMade
  <2>2. IsFiniteSet(CommittedOrders)
    BY <2>1, FS_Subset DEF MadeAreFinite
  <2>3. DOMAIN orders = Orders /\ \A o \in Orders : orders[o].items \in Lines
    BY DEF IInv, TypeOK, OrderRows, Lines
  <2>4. CommittedOrders \in SUBSET Orders
    BY DEF CommittedOrders
  <2>5. \A v \in Variants : Sold(v) = [o \in DOMAIN orders |-> orders[o].items[v]]
    BY <2>3 DEF Sold
  <2>6. UnitsIn(orders, CommittedOrders) =
          SumFunctionOnSet([v \in Variants |->
            SumFunctionOnSet([o \in DOMAIN orders |-> orders[o].items[v]], CommittedOrders)], Variants)
    BY <2>2, <2>3, <2>4, UnitsLemma
  <2> QED BY <2>5, <2>6
<1>4. UnitsReceived = SumFunctionOnSet(b, Variants)
  <2>1. ReceivedPurchases \in SUBSET PurchasesMade
    BY DEF ReceivedPurchases, PurchasesMade
  <2>2. IsFiniteSet(ReceivedPurchases)
    BY <2>1, FS_Subset DEF MadeAreFinite
  <2>3. DOMAIN purchases = Purchases /\ \A p \in Purchases : purchases[p].items \in Lines
    BY DEF IInv, TypeOK, PurchaseRows, Lines
  <2>4. ReceivedPurchases \in SUBSET Purchases
    BY DEF ReceivedPurchases
  <2>5. \A v \in Variants : Bought(v) = [p \in DOMAIN purchases |-> purchases[p].items[v]]
    BY <2>3 DEF Bought
  <2>6. UnitsIn(purchases, ReceivedPurchases) =
          SumFunctionOnSet([v \in Variants |->
            SumFunctionOnSet([p \in DOMAIN purchases |-> purchases[p].items[v]], ReceivedPurchases)],
            Variants)
    BY <2>2, <2>3, <2>4, UnitsLemma
  <2>7. UnitsReceived = UnitsIn(purchases, ReceivedPurchases)
    BY DEF UnitsReceived, ReceivedPurchases
  <2> QED BY <2>5, <2>6, <2>7
<1>5. UnitsReturned = SumFunctionOnSet(a, Variants)
  BY ReturnedLemma
<1>6. \A v \in Variants : /\ q[v] \in Int /\ s[v] \in Int /\ b[v] \in Int /\ a[v] \in Int /\ h[v] \in Int
                          /\ q[v] + s[v] = b[v] + a[v] + h[v]
  BY BalanceLemma
<1>7. \A v \in Variants : in[v] = b[v] + a[v] /\ in[v] \in Int
  BY <1>6
<1>8. \A v \in Variants : all[v] = in[v] + h[v] /\ all[v] = q[v] + s[v]
  BY <1>6
<1> HIDE DEF q, s, b, a, h, in, all
<1>9. SumFunctionOnSet(in, Variants) = SumFunctionOnSet(b, Variants) + SumFunctionOnSet(a, Variants)
  BY <1>0, <1>6, <1>7, SumPlus
<1>10. SumFunctionOnSet(all, Variants) = SumFunctionOnSet(in, Variants) + SumFunctionOnSet(h, Variants)
  BY <1>0, <1>6, <1>7, <1>8, SumPlus
<1>11. SumFunctionOnSet(all, Variants) = SumFunctionOnSet(q, Variants) + SumFunctionOnSet(s, Variants)
  BY <1>0, <1>6, <1>8, SumPlus
<1>12. SumFunctionOnSet(q, Variants) \in Int
  BY <1>0, <1>6, SumIsInt
<1> QED BY <1>1, <1>2, <1>3, <1>4, <1>5, <1>9, <1>10, <1>11, <1>12

\* An order that holds stock is counted as sold, or refunded; a counted one
\* that does not is an open ticket.
LEMMA CommittedUnits ==
    ASSUME IInv, MadeAreFinite
    PROVE  /\ UnitsIn(orders, CommittedOrders)
                = (UnitsSold - UnitsIn(orders, OpenTickets)) + UnitsIn(orders, Refunded)
           /\ UnitsSold \in Int /\ UnitsIn(orders, OpenTickets) \in Int
           /\ UnitsIn(orders, Refunded) \in Int
<1> DEFINE K == CommittedOrders
           u == [o \in DOMAIN orders |-> Units(orders[o].items)]
<1>1. /\ DOMAIN orders = Orders
      /\ \A o \in Orders : /\ orders[o].items \in Lines /\ orders[o].committed \in BOOLEAN
                           /\ RowAgrees(orders[o])
  BY DEF IInv, TypeOK, OrderRows, Lines, StatusPaymentStockAgree
<1>2. /\ Counted \in SUBSET OrdersMade /\ OpenTickets \in SUBSET Counted
      /\ Refunded \in SUBSET OrdersMade /\ K \in SUBSET OrdersMade
      /\ Refunded \in SUBSET K /\ K \ Refunded = Counted \ OpenTickets
  BY <1>1 DEF Counted, NonRevenue, OrdersMade, OpenTickets, Refunded, CommittedOrders, RowAgrees
<1>3. OrdersMade \in SUBSET Orders
  BY DEF OrdersMade
<1>4. \A o \in Orders : u[o] \in Int
  <2> SUFFICES ASSUME NEW o \in Orders
               PROVE  u[o] \in Int
    OBVIOUS
  <2>1. u[o] = SumFunctionOnSet(orders[o].items, Variants) /\ \A v \in Variants : orders[o].items[v] \in Int
    BY <1>1 DEF Units, SumFunction, Lines
  <2> HIDE DEF u
  <2> QED BY <2>1, CatalogueAssumption, SumIsInt
<1>5. \A S : UnitsIn(orders, S) = SumFunctionOnSet(u, S)
  BY DEF UnitsIn
<1> HIDE DEF u, K
<1>6. /\ IsFiniteSet(Counted) /\ IsFiniteSet(OpenTickets) /\ IsFiniteSet(Refunded)
      /\ IsFiniteSet(K) /\ IsFiniteSet(K \ Refunded)
  BY <1>2, FS_Subset DEF MadeAreFinite
<1>7. /\ \A o \in Counted : u[o] \in Int
      /\ \A o \in K : u[o] \in Int
      /\ \A o \in OpenTickets : u[o] \in Int
      /\ \A o \in Refunded : u[o] \in Int
      /\ \A o \in K \ Refunded : u[o] \in Int
  BY <1>2, <1>3, <1>4
<1>8. SumFunctionOnSet(u, K) = SumFunctionOnSet(u, Refunded) + SumFunctionOnSet(u, K \ Refunded)
  BY <1>2, <1>6, <1>7, SumSplit
<1>9. SumFunctionOnSet(u, Counted) = SumFunctionOnSet(u, OpenTickets) + SumFunctionOnSet(u, Counted \ OpenTickets)
  BY <1>2, <1>6, <1>7, SumSplit
<1>10. /\ SumFunctionOnSet(u, Counted) \in Int /\ SumFunctionOnSet(u, OpenTickets) \in Int
       /\ SumFunctionOnSet(u, Refunded) \in Int /\ SumFunctionOnSet(u, K \ Refunded) \in Int
  BY <1>6, <1>7, SumIsInt
<1> DEFINE x == SumFunctionOnSet(u, Counted)
           t == SumFunctionOnSet(u, OpenTickets)
           y == SumFunctionOnSet(u, Refunded)
           z == SumFunctionOnSet(u, K \ Refunded)
<1>11. x \in Int /\ t \in Int /\ y \in Int /\ z \in Int /\ x = t + z /\ SumFunctionOnSet(u, K) = y + z
  BY <1>2, <1>8, <1>9, <1>10
<1>12. UnitsSold = x /\ UnitsIn(orders, OpenTickets) = t /\ UnitsIn(orders, Refunded) = y
       /\ UnitsIn(orders, K) = SumFunctionOnSet(u, K)
  BY <1>5 DEF UnitsSold
<1> HIDE DEF x, t, y, z
<1>13. y + z = (x - t) + y
  BY <1>11
<1> QED BY <1>11, <1>12, <1>13 DEF K

\* The products report is the sales report, product by product.
LEMMA ProductsLemma ==
    ASSUME IInv, MadeAreFinite
    PROVE  UnitsSold = SumFunction(ProductsReport)
<1> DEFINE D == DOMAIN orders
           W == {v \in Variants : \E o \in Counted : orders[o].items[v] > 0}
           s == [v \in Variants |-> SumFunctionOnSet([o \in D |-> orders[o].items[v]], Counted)]
<1>1. D = Orders /\ \A o \in Orders : orders[o].items \in Lines
  BY DEF IInv, TypeOK, OrderRows, Lines
<1>2. IsFiniteSet(Counted) /\ Counted \in SUBSET Orders
  <2>1. Counted \in SUBSET OrdersMade /\ Counted \in SUBSET Orders
    BY DEF Counted, OrdersMade
  <2> QED BY <2>1, FS_Subset DEF MadeAreFinite
<1>3. IsFiniteSet(Variants) /\ W \in SUBSET Variants /\ IsFiniteSet(W)
  BY CatalogueAssumption, FS_Subset
<1>4. UnitsSold = SumFunctionOnSet(s, Variants)
  <2>1. UnitsIn(orders, Counted) = SumFunctionOnSet(s, Variants)
    BY <1>1, <1>2, UnitsLemma
  <2> QED BY <2>1 DEF UnitsSold
<1>5. \A v \in Variants : s[v] \in Int /\ (v \notin W => s[v] = 0)
  <2> SUFFICES ASSUME NEW v \in Variants
               PROVE  s[v] \in Int /\ (v \notin W => s[v] = 0)
    OBVIOUS
  <2> DEFINE f == [o \in D |-> orders[o].items[v]]
  <2>1. \A o \in Counted : f[o] \in Nat /\ f[o] = orders[o].items[v]
    BY <1>1, <1>2 DEF Lines
  <2>2. s[v] = SumFunctionOnSet(f, Counted)
    OBVIOUS
  <2>3. v \notin W => \A o \in Counted : f[o] = 0
    <3>1. v \notin W => \A o \in Counted : ~(orders[o].items[v] > 0)
      OBVIOUS
    <3> HIDE DEF f, W, s
    <3> QED BY <2>1, <3>1
  <2> HIDE DEF f, s, W
  <2>4. \A o \in Counted : f[o] \in Int
    BY <2>1
  <2>5. SumFunctionOnSet(f, Counted) \in Int
    BY <1>2, <2>4, SumIsInt
  <2>6. CASE v \notin W
    <3>1. SumFunctionOnSet(f, Counted) = 0
      BY <1>2, <2>3, <2>6, SumOfZeros
    <3> QED BY <2>2, <3>1
  <2> QED BY <2>2, <2>5, <2>6
<1>6. DOMAIN ProductsReport = W /\ \A v \in W : ProductsReport[v] = s[v]
  BY <1>1 DEF ProductsReport
<1> HIDE DEF s, W
<1>7. SumFunctionOnSet(s, Variants) = SumFunctionOnSet(s, W)
  BY <1>3, <1>5, SumOnSupport
<1>8. SumFunctionOnSet(ProductsReport, W) = SumFunctionOnSet(s, W)
  BY <1>3, <1>6, SumSame
<1> QED BY <1>4, <1>6, <1>7, <1>8 DEF SumFunction

\* The invariant the reports rest on.
BInv == RInv /\ EntriesAreNamed

\* It puts them in agreement.
LEMMA ReconcileLemma == BInv => ReportsReconcile
<1> SUFFICES ASSUME BInv
             PROVE  ReportsReconcile
  OBVIOUS
<1>1. IInv /\ MadeAreFinite /\ EntriesAreNamed
  BY DEF BInv, RInv
<1>2. UnitsSold = SumFunction(ProductsReport)
  BY <1>1, ProductsLemma
<1>3. TotalUnits + UnitsIn(orders, CommittedOrders) = UnitsReceived + UnitsReturned + BookedByHand
      /\ TotalUnits \in Int
  BY <1>1, TotalsLemma
<1>4. /\ UnitsIn(orders, CommittedOrders)
           = (UnitsSold - UnitsIn(orders, OpenTickets)) + UnitsIn(orders, Refunded)
      /\ UnitsSold \in Int /\ UnitsIn(orders, OpenTickets) \in Int /\ UnitsIn(orders, Refunded) \in Int
  BY <1>1, CommittedUnits
<1>5. TotalUnits + (UnitsSold - UnitsIn(orders, OpenTickets)) + UnitsIn(orders, Refunded)
        = TotalUnits + ((UnitsSold - UnitsIn(orders, OpenTickets)) + UnitsIn(orders, Refunded))
  BY <1>3, <1>4
<1> QED BY <1>2, <1>3, <1>4, <1>5 DEF ReportsReconcile

\* The opening stock is booked by hand.
LEMMA InitBInv == Init => BInv
<1> SUFFICES ASSUME Init
             PROVE  BInv
  OBVIOUS
<1>1. ASSUME NEW v \in Variants, NEW i \in DOMAIN inventory[v].log
      PROVE  inventory[v].log[i].ref = Manual
  <2>1. inventory[v] = Opened(v)
    BY DEF Init, LedgerInit
  <2> QED BY <1>1, <2>1, OpenedLemma
<1> QED BY <1>1, InitRInv DEF BInv, EntriesAreNamed

\* A movement is booked by hand or for a document.
LEMMA StepBInv == BInv /\ [Next]_vars => BInv'
<1> SUFFICES ASSUME BInv, [Next]_vars
             PROVE  EntriesAreNamed'
  BY StepRInv DEF BInv
<1>1. CASE UNCHANGED vars
  BY <1>1 DEF vars, BInv, EntriesAreNamed
<1>2. CASE Next
  <2>1. PICK lines \in Lines, type \in MovementTypes, ref \in Citations :
          Effect(lines, type, ref) /\ Fresh(lines, type, ref)
    BY <1>2, NextCarries DEF BInv, RInv, Carried
  <2> SUFFICES ASSUME NEW v \in Variants, NEW i \in DOMAIN inventory'[v].log
               PROVE  inventory'[v].log[i].ref = Manual \/ NamesDocument(inventory'[v].log[i].ref)
    BY DEF EntriesAreNamed
  <2>2. \A j \in DOMAIN inventory[v].log :
          inventory[v].log[j].ref = Manual \/ NamesDocument(inventory[v].log[j].ref)
    BY DEF BInv, EntriesAreNamed
  <2>3. lines[v] = 0 \/ lines[v] > 0
    BY DEF Lines
  <2>4. CASE lines[v] = 0
    BY <2>1, <2>2, <2>4 DEF Effect
  <2>5. CASE lines[v] > 0
    <3> DEFINE old == inventory[v].log
               new == inventory'[v].log
    <3>1. /\ DOMAIN new = 1..(Len(old) + 1) /\ DOMAIN old = 1..Len(old) /\ Len(old) \in Nat
          /\ \A j \in DOMAIN old : new[j] = old[j]
          /\ new[Len(old) + 1] = [type |-> type, delta |-> Signed(type, lines[v]),
                                  prev |-> inventory[v].qty,
                                  new |-> inventory[v].qty + Signed(type, lines[v]),
                                  ref |-> ref[v]]
      BY <2>1, <2>5 DEF Effect
    <3>2. ref[v] = Manual \/ NamesDocument(ref[v])
      BY <2>1, <2>5 DEF Fresh
    <3>3. i \in DOMAIN old \/ i = Len(old) + 1
      BY <3>1
    <3> QED BY <2>2, <3>1, <3>2, <3>3
  <2> QED BY <2>3, <2>4, <2>5
<1> QED BY <1>1, <1>2

\* The reports agree with each other and with the shelf, for any catalogue and
\* any number of documents.
THEOREM ReportsAddUp == Spec => []ReportsReconcile
BY InitBInv, StepBInv, ReconcileLemma, PTL DEF Spec
-----------------------------------------------------------------------------
\* What has been credited of an order.

\* What the entries of v that cite one of these documents add up to.
BookedOn(v, refs) ==
    SumFunctionOnSet(Delta(v), {i \in DOMAIN inventory[v].log : inventory[v].log[i].ref \in refs})

ReturnsOf(o)  == {r \in Returns : returns[r].order = o}
CreditRefs(o) == {CancelRef(o)} \cup {ReturnRef(r) : r \in ReturnsOf(o)}

\* A cancellation and the returns of an order put back no more than it took.
CreditsFitSales ==
    \A o \in Orders, v \in Variants : BookedOn(v, CreditRefs(o)) <= -BookedOn(v, {OrderRef(o)})

\* What one order has taken, and what its cancellation has put back.
LEMMA OneOrderLemma ==
    ASSUME IInv, NEW o \in Orders, NEW v \in Variants
    PROVE  /\ BookedOn(v, {OrderRef(o)}) =
                  IF Moved(v, "SALE", OrderRef(o)) THEN -orders[o].items[v] ELSE 0
           /\ BookedOn(v, {CancelRef(o)}) =
                  IF Moved(v, "ADJUSTMENT_IN", CancelRef(o)) THEN orders[o].items[v] ELSE 0
           /\ orders[o].items[v] \in Nat
<1> DEFINE S == CitedFor(v, {o}, OrderNames, "SALE")
           R == CitedFor(v, {o}, CancelNames, "ADJUSTMENT_IN")
<1>1. TypeOK /\ MovedAtMostOnce /\ EntriesMatchDocuments
  BY DEF IInv
<1>2. /\ orders[o].items[v] \in Nat /\ -orders[o].items[v] \in Int
      /\ Sold(v)[o] = orders[o].items[v] /\ Unsold(v)[o] = -orders[o].items[v]
      /\ Sold(v)[o] \in Int /\ Unsold(v)[o] \in Int
  <2>1. orders[o].items[v] \in Nat
    BY <1>1 DEF TypeOK, OrderRows
  <2>2. -orders[o].items[v] \in Int
    BY <2>1
  <2> QED BY <2>1, <2>2 DEF Sold, Unsold
<1>3. KindOfDocument(v, {o}, OrderNames, "SALE", Unsold(v))
  <2>1. OrderNames[o] = OrderRef(o) /\ OrderNames[o] # Manual
    BY DEF OrderNames, OrderRef, Manual
  <2>2. \A i \in DOMAIN inventory[v].log :
          LET e == inventory[v].log[i]
          IN  e.ref = OrderNames[o] => e.type = "SALE" /\ e.delta = Unsold(v)[o]
    BY <1>1, <1>2, <2>1 DEF EntriesMatchDocuments, Matches
  <2> QED BY <1>2, <2>1, <2>2 DEF KindOfDocument
<1>4. KindOfDocument(v, {o}, CancelNames, "ADJUSTMENT_IN", Sold(v))
  <2>1. CancelNames[o] = CancelRef(o) /\ CancelNames[o] # Manual
    BY DEF CancelNames, CancelRef, Manual
  <2>2. \A i \in DOMAIN inventory[v].log :
          LET e == inventory[v].log[i]
          IN  e.ref = CancelNames[o] => e.type = "ADJUSTMENT_IN" /\ e.delta = Sold(v)[o]
    BY <1>1, <1>2, <2>1 DEF EntriesMatchDocuments, Matches
  <2> QED BY <1>2, <2>1, <2>2 DEF KindOfDocument
<1>5. /\ BookedOn(v, {OrderRef(o)}) = SumFunctionOnSet(Unsold(v), S)
      /\ BookedOn(v, {CancelRef(o)}) = SumFunctionOnSet(Sold(v), R)
  <2>1. /\ {i \in DOMAIN inventory[v].log : inventory[v].log[i].ref \in {OrderRef(o)}} = Citing(v, {o}, OrderNames)
        /\ {i \in DOMAIN inventory[v].log : inventory[v].log[i].ref \in {CancelRef(o)}} = Citing(v, {o}, CancelNames)
    BY DEF Citing, OrderNames, CancelNames
  <2>2. SumFunctionOnSet(Delta(v), Citing(v, {o}, OrderNames)) = SumFunctionOnSet(Unsold(v), S)
    BY <1>1, <1>3, KindLemma
  <2>3. SumFunctionOnSet(Delta(v), Citing(v, {o}, CancelNames)) = SumFunctionOnSet(Sold(v), R)
    BY <1>1, <1>4, KindLemma
  <2> QED BY <2>1, <2>2, <2>3 DEF BookedOn
<1>6. /\ S = IF Moved(v, "SALE", OrderRef(o)) THEN {o} ELSE {}
      /\ R = IF Moved(v, "ADJUSTMENT_IN", CancelRef(o)) THEN {o} ELSE {}
  BY DEF CitedFor, OrderNames, CancelNames
<1>7. ASSUME NEW f, f[o] \in Int
      PROVE  SumFunctionOnSet(f, {o}) = f[o] /\ SumFunctionOnSet(f, {}) = 0
  <2>1. SumFunctionOnSet(f, {}) = 0
    BY SumOfNone
  <2>2. IsFiniteSet({}) /\ o \notin {} /\ {} \cup {o} = {o} /\ \A i \in {} \cup {o} : f[i] \in Int
    BY <1>7, FS_EmptySet
  <2>3. SumFunctionOnSet(f, {} \cup {o}) = f[o] + SumFunctionOnSet(f, {})
    BY <2>2, SumWith
  <2> QED BY <1>7, <2>1, <2>2, <2>3
<1> HIDE DEF S, R
<1>8. /\ SumFunctionOnSet(Unsold(v), {o}) = -orders[o].items[v] /\ SumFunctionOnSet(Unsold(v), {}) = 0
      /\ SumFunctionOnSet(Sold(v), {o}) = orders[o].items[v] /\ SumFunctionOnSet(Sold(v), {}) = 0
  BY <1>2, <1>7
<1> QED BY <1>2, <1>5, <1>6, <1>8

\* What the returns of an order have put back.
LEMMA ItsReturnsLemma ==
    ASSUME RInv, NEW o \in Orders, NEW v \in Variants
    PROVE  LET refs == {ReturnRef(r) : r \in ReturnsOf(o)}
           IN  /\ BookedOn(v, refs) \in Int /\ BookedOn(v, refs) <= orders[o].items[v]
               /\ ~HasOpenReturns(o) => BookedOn(v, refs) = 0
<1> DEFINE refs == {ReturnRef(r) : r \in ReturnsOf(o)}
           S == CitedFor(v, ReturnsOf(o), ReturnNames, "RETURN")
<1>1. /\ TypeOK /\ MovedAtMostOnce /\ EntriesMatchDocuments /\ NoDoubleCredit
      /\ PriorIsASum /\ ReturnsWithinOrder
  BY PriorLemma DEF RInv, IInv
<1>2. \A r \in Returns : ReturnUnits[r] = returns[r].qty /\ ReturnUnits[r] \in Nat /\ ReturnUnits[r] \in Int
  BY <1>1 DEF PriorIsASum
<1>3. KindOfDocument(v, ReturnsOf(o), ReturnNames, "RETURN", ReturnUnits)
  <2>1. \A d \in ReturnsOf(o) : d \in Returns /\ ReturnNames[d] = ReturnRef(d)
    BY DEF ReturnsOf, ReturnNames
  <2>2. \A c, d : ReturnRef(c) = ReturnRef(d) => c = d
    BY DEF ReturnRef
  <2>3. \A d : ReturnRef(d) # Manual
    BY DEF ReturnRef, Manual
  <2>4. /\ \A c, d \in ReturnsOf(o) : ReturnNames[c] = ReturnNames[d] => c = d
        /\ \A d \in ReturnsOf(o) : ReturnNames[d] # Manual
    BY ONLY <2>1, <2>2, <2>3
  <2>5. \A i \in DOMAIN inventory[v].log, d \in ReturnsOf(o) :
          LET e == inventory[v].log[i]
          IN  e.ref = ReturnNames[d] => e.type = "RETURN" /\ e.delta = ReturnUnits[d]
    BY <1>1, <1>2, <2>1 DEF EntriesMatchDocuments, Matches
  <2> QED BY <1>2, <2>1, <2>4, <2>5 DEF KindOfDocument
<1>4. BookedOn(v, refs) = SumFunctionOnSet(ReturnUnits, S)
  <2>1. {i \in DOMAIN inventory[v].log : inventory[v].log[i].ref \in refs} = Citing(v, ReturnsOf(o), ReturnNames)
    BY DEF Citing, ReturnNames, ReturnsOf
  <2>2. SumFunctionOnSet(Delta(v), Citing(v, ReturnsOf(o), ReturnNames)) = SumFunctionOnSet(ReturnUnits, S)
    BY <1>1, <1>3, KindLemma
  <2> QED BY <2>1, <2>2 DEF BookedOn
<1>5. S \in SUBSET Prior(o, v)
  <2>1. \A r \in S : r \in Returns /\ returns[r].order = o /\ Moved(v, "RETURN", ReturnRef(r))
    BY DEF CitedFor, ReturnsOf, ReturnNames
  <2>2. \A r \in S : returns[r].status = "ACCEPTED" /\ returns[r].variant = v
    BY <1>1, <2>1 DEF NoDoubleCredit
  <2> QED BY <2>1, <2>2 DEF Prior, OpenReturn
<1> HIDE DEF S
<1>6. /\ IsFiniteSet(Prior(o, v)) /\ SumFunctionOnSet(ReturnUnits, Prior(o, v)) <= orders[o].items[v]
      /\ \A r \in Prior(o, v) : ReturnUnits[r] \in Nat
      /\ SumFunctionOnSet(ReturnUnits, Prior(o, v)) \in Int
  BY <1>1, <1>2 DEF PriorIsASum, ReturnsWithinOrder, Prior
<1>7. SumFunctionOnSet(ReturnUnits, S) <= SumFunctionOnSet(ReturnUnits, Prior(o, v))
  BY <1>5, <1>6, SumOfPart
<1>8. SumFunctionOnSet(ReturnUnits, S) \in Nat
  <2>1. IsFiniteSet(S) /\ \A r \in S : ReturnUnits[r] \in Nat
    BY <1>5, <1>6, FS_Subset
  <2> QED BY <2>1, SumIsNat
<1>9. ~HasOpenReturns(o) => SumFunctionOnSet(ReturnUnits, S) = 0
  <2>1. ~HasOpenReturns(o) => S = {}
    BY <1>5 DEF HasOpenReturns, Prior
  <2> QED BY <2>1, SumOfNone
<1>10. orders[o].items[v] \in Int
  <2>1. orders[o].items[v] \in Nat
    BY OneOrderLemma DEF RInv
  <2> QED BY <2>1
<1> HIDE DEF refs
<1>11. BookedOn(v, refs) \in Int /\ BookedOn(v, refs) <= orders[o].items[v]
  BY <1>4, <1>6, <1>7, <1>8, <1>10
<1> QED BY <1>4, <1>9, <1>11 DEF refs

\* A cancelled order has no returns open, so only one of the two is at work.
LEMMA CreditsLemma == RInv => CreditsFitSales
<1> SUFFICES ASSUME RInv, NEW o \in Orders, NEW v \in Variants
             PROVE  BookedOn(v, CreditRefs(o)) <= -BookedOn(v, {OrderRef(o)})
  BY DEF CreditsFitSales
<1> DEFINE refs == {ReturnRef(r) : r \in ReturnsOf(o)}
           D == DOMAIN inventory[v].log
           S(names) == {i \in D : inventory[v].log[i].ref \in names}
           sold == Moved(v, "SALE", OrderRef(o))
           restored == Moved(v, "ADJUSTMENT_IN", CancelRef(o))
           units == orders[o].items[v]
<1>1. /\ IInv /\ TypeOK /\ NoDoubleCredit
      /\ restored => sold /\ orders[o].status = "CANCELLED"
      /\ units > 0 => (orders[o].committed <=> sold /\ ~restored)
  BY DEF RInv, IInv, CommittedMeansSold
<1>2. /\ BookedOn(v, {OrderRef(o)}) = IF sold THEN -units ELSE 0
      /\ BookedOn(v, {CancelRef(o)}) = IF restored THEN units ELSE 0
      /\ units \in Nat
  BY <1>1, OneOrderLemma
<1>3. /\ BookedOn(v, refs) \in Int /\ BookedOn(v, refs) <= units
      /\ ~HasOpenReturns(o) => BookedOn(v, refs) = 0
  BY ItsReturnsLemma
<1>4. HasOpenReturns(o) => orders[o].committed /\ orders[o].status # "CANCELLED"
  BY <1>1 DEF NoDoubleCredit
<1>5. BookedOn(v, CreditRefs(o)) = BookedOn(v, {CancelRef(o)}) + BookedOn(v, refs)
  <2>1. IsFiniteSet(D) /\ \A i \in D : Delta(v)[i] \in Int
    BY <1>1, LogLemma
  <2>2. S(CreditRefs(o)) \in SUBSET D
    OBVIOUS
  <2>3. S({CancelRef(o)}) \in SUBSET S(CreditRefs(o))
    BY DEF CreditRefs
  <2>4. S(CreditRefs(o)) \ S({CancelRef(o)}) = S(refs)
    <3>1. \A r : ReturnRef(r) # CancelRef(o)
      BY DEF ReturnRef, CancelRef
    <3> QED BY <3>1 DEF CreditRefs
  <2> HIDE DEF S, D
  <2>5. IsFiniteSet(S(CreditRefs(o))) /\ \A i \in S(CreditRefs(o)) : Delta(v)[i] \in Int
    BY <2>1, <2>2, FS_Subset
  <2>6. SumFunctionOnSet(Delta(v), S(CreditRefs(o)))
          = SumFunctionOnSet(Delta(v), S({CancelRef(o)})) + SumFunctionOnSet(Delta(v), S(refs))
    <3> DEFINE all == S(CreditRefs(o))  one == S({CancelRef(o)})  rest == S(refs)  f == Delta(v)
    <3>1. /\ IsFiniteSet(all) /\ one \in SUBSET all /\ all \ one = rest
          /\ \A i \in all : f[i] \in Int
      BY <2>3, <2>4, <2>5
    <3> HIDE DEF all, one, rest, f
    <3>2. SumFunctionOnSet(f, all) = SumFunctionOnSet(f, one) + SumFunctionOnSet(f, all \ one)
      BY ONLY <3>1, SumSplit
    <3> QED BY <3>1, <3>2 DEF all, one, rest, f
  <2> QED BY <2>6 DEF BookedOn, S, D
<1> HIDE DEF sold, restored, units, refs
<1> QED BY <1>1, <1>2, <1>3, <1>4, <1>5

\* Of an order no more is ever credited, by its cancellation and its returns
\* together, than it took.
THEOREM CreditsFit == Spec => []CreditsFitSales
<1>1. Spec => []RInv
  BY InitRInv, StepRInv, PTL DEF Spec
<1> QED BY <1>1, CreditsLemma, PTL
=============================================================================
