----------------------- MODULE Transactions_proofs ------------------------
(***************************************************************************)
(* Proofs about what the services' transactions are made of: the document  *)
(* numbers they draw, DocNumbers; their attempts, TxRetry; and the prices  *)
(* an order's lines get in them, Pricing.  The numbers are for any clients *)
(* and keys; the attempts for any rows, connections and attempts, whose    *)
(* steps are steps of Contract; the prices for any catalogue, request and  *)
(* changes of the catalogue meanwhile.                                     *)
(***************************************************************************)
EXTENDS DocNumbers, TxRetry, Pricing, Shared_proofs, SequenceTheorems

-----------------------------------------------------------------------------
\* Document numbers.

Client == [pc : {"idle", "ensure", "bump", "number", "file", "commit"},
           key : Keys \cup {"NONE"}, taken : Seq(Nat), number : Nat]

-----------------------------------------------------------------------------
\* What a client knows of its transaction: the row it holds counts the
\* documents it has filed and the number in hand.
Counts(c, by, p, com, live) ==
    LET held == c.pc # "idle" /\ by = p
    IN  /\ held =>
              /\ live.value = com.value + Len(c.taken) + IF c.pc \in Drawing THEN 1 ELSE 0
              /\ \A i \in DOMAIN c.taken : c.taken[i] = com.value + i
        /\ c.pc \in Drawing => held
        /\ c.pc = "file" => c.number = com.value + Len(c.taken) + 1
        /\ ~held => c.taken = << >>
        /\ c.pc = "bump" => (IF by = p THEN live ELSE com).exists

\* NumbersAreHeld, one client and one key at a time.
LEMMA HeldLemma ==
    NumbersAreHeld <=>
        /\ \A p \in Clients : ~At(p, "idle") => client[p].key \in Keys
        /\ \A k \in Keys :
              /\ sequences[k].by = Nobody => sequences[k].live = sequences[k].com
              /\ sequences[k].by # Nobody =>
                    /\ client[sequences[k].by].key = k /\ client[sequences[k].by].pc # "idle"
                    /\ sequences[k].live.exists
              /\ ~sequences[k].com.exists => sequences[k].com.value = 0
        /\ \A p \in Clients :
              Counts(client[p], sequences[client[p].key].by, p,
                     sequences[client[p].key].com, sequences[client[p].key].live)
BY DEF NumbersAreHeld, Counts, At, Row, See

\* A step of p that writes at most the row of its key, and issues nothing.
LEMMA StepLemma ==
    ASSUME IInv, NEW p \in Clients, NEW c \in Client, NEW k \in Keys, NEW cell \in Cells(Rows),
           client' = [client EXCEPT ![p] = c], UNCHANGED issued,
           sequences' = [sequences EXCEPT ![k] = cell],
           cell.com = sequences[k].com,
           c.pc # "idle", c.key = k,
           cell = sequences[k] \/ (Free(sequences[k], p) /\ cell.by = p /\ cell.live.exists),
           client[p].key = k \/ \A x \in Keys : sequences[x].by # p,
           Counts(c, cell.by, p, cell.com, cell.live)
    PROVE  IInv'
<1>1. /\ client' \in [Clients -> Client] /\ client'[p] = c
      /\ \A q \in Clients : q # p => client'[q] = client[q]
  BY DEF IInv, TypeOK, Client
<1>2. /\ sequences' \in [Keys -> Cells(Rows)] /\ sequences'[k] = cell
      /\ \A x \in Keys : x # k => sequences'[x] = sequences[x]
  BY DEF IInv, TypeOK
<1>3. TypeOK'
  BY <1>1, <1>2 DEF IInv, TypeOK, Client
<1>4. GapFree'
  BY <1>2 DEF IInv, GapFree
<1>5. p # Nobody
  BY NobodyAssumption
<1>6. ASSUME NEW q \in Clients
      PROVE  /\ ~At(q, "idle")' => client'[q].key \in Keys
             /\ Counts(client'[q], sequences'[client'[q].key].by, q,
                       sequences'[client'[q].key].com, sequences'[client'[q].key].live)
  <2>1. CASE q = p
    BY <2>1, <1>1, <1>2 DEF At
  <2>2. CASE q # p
    <3>1. client'[q] = client[q] /\ (~At(q, "idle") => client[q].key \in Keys)
      BY <2>2, <1>1, HeldLemma DEF IInv, At
    <3>2. Counts(client[q], sequences[client[q].key].by, q,
                 sequences[client[q].key].com, sequences[client[q].key].live)
      BY HeldLemma DEF IInv
    <3>3. CASE client[q].key # k \/ client[q].pc = "idle" \/ cell = sequences[k]
      BY <3>1, <3>2, <3>3, <1>2 DEF Counts, Drawing, At
    <3>4. CASE client[q].key = k /\ client[q].pc # "idle" /\ Free(sequences[k], p) /\ cell.by = p
      <4>1. sequences[k].by # q
        BY <3>4, <2>2, NobodyAssumption DEF Free
      <4> QED BY <3>1, <3>2, <3>4, <4>1, <2>2, <1>2 DEF Counts, At
    <3> QED BY <3>3, <3>4
  <2> QED BY <2>1, <2>2
<1>7. ASSUME NEW x \in Keys
      PROVE  /\ sequences'[x].by = Nobody => sequences'[x].live = sequences'[x].com
             /\ sequences'[x].by # Nobody =>
                   /\ client'[sequences'[x].by].key = x /\ client'[sequences'[x].by].pc # "idle"
                   /\ sequences'[x].live.exists
             /\ ~sequences'[x].com.exists => sequences'[x].com.value = 0
  <2>1. /\ sequences[x].by = Nobody => sequences[x].live = sequences[x].com
        /\ sequences[x].by # Nobody =>
              /\ client[sequences[x].by].key = x /\ client[sequences[x].by].pc # "idle"
              /\ sequences[x].live.exists
        /\ ~sequences[x].com.exists => sequences[x].com.value = 0
        /\ sequences[x].by \in Clients \cup {Nobody}
    BY HeldLemma DEF IInv, TypeOK, Cells
  <2>2. CASE x # k
    <3>1. sequences'[x] = sequences[x] /\ sequences[x].by # p
      BY <2>2, <2>1, <1>2, <1>5
    <3> QED BY <3>1, <2>1, <1>1
  <2>3. CASE x = k
    BY <2>1, <2>3, <1>1, <1>2, <1>5
  <2> QED BY <2>2, <2>3
<1>8. NumbersAreHeld'
  BY <1>6, <1>7 DEF NumbersAreHeld, Counts, At, Row, See
<1> QED BY <1>3, <1>4, <1>8 DEF IInv

\* What a client is, and what it sees of its row.
LEMMA SeeLemma ==
    ASSUME IInv, NEW p \in Clients
    PROVE  /\ client[p] \in Client
           /\ client[p].pc # "idle" => /\ client[p].key \in Keys
                                       /\ sequences[client[p].key] \in Cells(Rows)
                                       /\ Row(p) \in Rows
           /\ Counts(client[p], sequences[client[p].key].by, p,
                     sequences[client[p].key].com, sequences[client[p].key].live)
<1>1. client[p] \in Client /\ sequences \in [Keys -> Cells(Rows)]
  BY DEF IInv, TypeOK, Client
<1>2. client[p].pc # "idle" => client[p].key \in Keys
  BY HeldLemma DEF IInv, At
<1>3. client[p].pc # "idle" => Row(p) \in Rows
  BY <1>1, <1>2 DEF Row, See, Cells
<1> QED BY <1>1, <1>2, <1>3, HeldLemma DEF IInv

\* A service asks for its first number.
LEMMA BeginLemma ==
    ASSUME IInv, NEW p \in Clients, NEW k \in Keys, Begin(p, k)
    PROVE  IInv'
<1> DEFINE c == [client[p] EXCEPT !.pc = "ensure", !.key = k]
<1>1. client' = [client EXCEPT ![p] = c]
  BY DEF Begin, IInv, TypeOK, Client
<1>2. client[p] \in Client /\ client[p].taken = << >>
  BY SeeLemma DEF Begin, At, Counts
<1>3. c \in Client /\ c.pc = "ensure" /\ c.key = k /\ c.taken = << >>
  BY <1>2 DEF Client
<1>4. \A x \in Keys : sequences[x].by # p
  BY HeldLemma, NobodyAssumption DEF IInv, Begin, At
<1> DEFINE cell == sequences[k]
<1>5. /\ cell \in Cells(Rows) /\ sequences' = [sequences EXCEPT ![k] = cell]
      /\ cell.com = sequences[k].com /\ cell = sequences[k]
      /\ UNCHANGED issued
  BY DEF Begin, IInv, TypeOK
<1> HIDE DEF c
<1>6. Counts(c, cell.by, p, cell.com, cell.live)
  BY <1>3, <1>4 DEF Counts, Drawing
<1>7. c.pc # "idle"
  BY <1>3
<1> HIDE DEF cell
<1> QED BY <1>1, <1>3, <1>4, <1>5, <1>6, <1>7, StepLemma, Zenon

\* A client goes on to another label and leaves its row alone.
LEMMA LookLemma ==
    ASSUME IInv, NEW p \in Clients, NEW c \in Client, client[p].pc # "idle",
           client' = [client EXCEPT ![p] = c], UNCHANGED <<sequences, issued>>,
           c.pc # "idle", c.key = client[p].key,
           Counts(c, sequences[c.key].by, p, sequences[c.key].com, sequences[c.key].live)
    PROVE  IInv'
<1> DEFINE k    == client[p].key
           cell == sequences[k]
<1>1. /\ k \in Keys /\ cell \in Cells(Rows)
      /\ sequences' = [sequences EXCEPT ![k] = cell]
  BY SeeLemma DEF IInv, TypeOK
<1>2. c.key = k /\ client[p].key = k /\ cell = sequences[k] /\ Counts(c, cell.by, p, cell.com, cell.live)
  OBVIOUS
<1>3. cell.com = sequences[k].com /\ UNCHANGED issued
  OBVIOUS
<1> HIDE DEF cell, k
<1>4. client[p].key = k \/ \A x \in Keys : sequences[x].by # p
  BY <1>2
<1>5. cell = sequences[k] \/ (Free(sequences[k], p) /\ cell.by = p /\ cell.live.exists)
  BY <1>2
<1> QED BY <1>1, <1>2, <1>3, <1>4, <1>5, StepLemma, Zenon

\* A client writes its row.
LEMMA WriteRowLemma ==
    ASSUME IInv, NEW p \in Clients, NEW c \in Client, NEW row \in Rows, row.exists, client[p].pc # "idle",
           client' = [client EXCEPT ![p] = c], UNCHANGED issued,
           Free(sequences[client[p].key], p),
           sequences' = [sequences EXCEPT ![client[p].key] = Written(@, p, row)],
           c.pc # "idle", c.key = client[p].key,
           Counts(c, p, p, sequences[c.key].com, row)
    PROVE  IInv'
<1> DEFINE k    == client[p].key
           cell == Written(sequences[k], p, row)
<1>1. k \in Keys /\ sequences[k] \in Cells(Rows)
  BY SeeLemma
<1>2. /\ cell \in Cells(Rows) /\ cell.com = sequences[k].com
      /\ cell.by = p /\ cell.live = row /\ cell.live.exists
  BY <1>1 DEF Written, Cells
<1>3. sequences' = [sequences EXCEPT ![k] = cell]
  BY <1>1 DEF IInv, TypeOK
<1> HIDE DEF cell, k
<1>4. c.key = k /\ client[p].key = k
  BY DEF k
<1>5. Free(sequences[k], p)
  BY DEF k
<1>6. Counts(c, cell.by, p, cell.com, cell.live)
  BY <1>2, <1>4, Zenon
<1>7. /\ client[p].key = k \/ \A x \in Keys : sequences[x].by # p
      /\ cell = sequences[k] \/ (Free(sequences[k], p) /\ cell.by = p /\ cell.live.exists)
  BY <1>2, <1>4, <1>5
<1>8. client' = [client EXCEPT ![p] = c] /\ UNCHANGED issued /\ c.pc # "idle"
  OBVIOUS
<1>9. cell.com = sequences[k].com
  BY <1>2
<1>10. k \in Keys /\ cell \in Cells(Rows) /\ c.key = k
  BY <1>1, <1>2, <1>4
<1> QED
  BY ONLY IInv, p \in Clients, c \in Client, <1>3, <1>6, <1>7, <1>8, <1>9, <1>10, StepLemma, Zenon

\* The row is made sure of.
LEMMA EnsureLemma ==
    ASSUME IInv, NEW p \in Clients, Ensure(p)
    PROVE  IInv'
<1> DEFINE k == client[p].key
           c == [client[p] EXCEPT !.pc = "bump"]
<1>1. client' = [client EXCEPT ![p] = c] /\ client[p].pc = "ensure"
  BY DEF Ensure, Goto, At, IInv, TypeOK, Client
<1>2. /\ client[p] \in Client /\ k \in Keys /\ sequences[k] \in Cells(Rows)
      /\ Counts(client[p], sequences[k].by, p, sequences[k].com, sequences[k].live)
  BY <1>1, SeeLemma
<1>3. c \in Client /\ c.pc = "bump" /\ c.key = k /\ c.taken = client[p].taken
  BY <1>2 DEF Client
<1> HIDE DEF c
<1>4. CASE Row(p).exists /\ UNCHANGED sequences
  <2>1. Counts(c, sequences[k].by, p, sequences[k].com, sequences[k].live)
    BY <1>1, <1>2, <1>3, <1>4 DEF Counts, Drawing, Row, See
  <2> QED BY <1>1, <1>3, <1>4, <2>1, LookLemma DEF Ensure
<1>5. CASE /\ ~Row(p).exists /\ Free(sequences[k], p)
           /\ sequences' = [sequences EXCEPT ![k] =
                               Written(@, p, [exists |-> TRUE, value |-> 0])]
  <2> DEFINE row == [exists |-> TRUE, value |-> 0]
  <2>1. row \in Rows /\ row.value = 0 /\ row.exists
    BY DEF Rows
  <2>2. CASE sequences[k].by # p
    <3>1. ~sequences[k].com.exists
      BY <1>5, <2>2 DEF Row, See
    <3>2. sequences[k].com.value = 0
      BY <1>2, <3>1, HeldLemma DEF IInv
    <3>3. c.taken = << >>
      BY <1>1, <1>2, <1>3, <2>2 DEF Counts
    <3> HIDE DEF row
    <3>4. Counts(c, p, p, sequences[k].com, row)
      BY <1>3, <2>1, <3>2, <3>3 DEF Counts, Drawing
    <3> QED BY <1>1, <1>3, <1>5, <2>1, <3>4, WriteRowLemma DEF Ensure, row
  <2>3. CASE sequences[k].by = p
    <3>1. sequences[k].live.exists
      BY HeldLemma, NobodyAssumption, <1>2, <2>3 DEF IInv
    <3> QED BY <1>5, <2>3, <3>1 DEF Row, See
  <2> QED BY <2>2, <2>3
<1> QED BY <1>4, <1>5 DEF Ensure

\* The row is bumped.
LEMMA BumpLemma ==
    ASSUME IInv, NEW p \in Clients, Bump(p)
    PROVE  IInv'
<1> DEFINE k == client[p].key
           c == [client[p] EXCEPT !.pc = "number"]
           row == [Row(p) EXCEPT !.value = @ + 1]
<1>1. client' = [client EXCEPT ![p] = c] /\ client[p].pc = "bump"
  BY DEF Bump, Goto, At, IInv, TypeOK, Client
<1>2. /\ client[p] \in Client /\ k \in Keys /\ sequences[k] \in Cells(Rows) /\ Row(p) \in Rows
      /\ Counts(client[p], sequences[k].by, p, sequences[k].com, sequences[k].live)
  BY <1>1, SeeLemma
<1>3. c \in Client /\ c.pc = "number" /\ c.key = k /\ c.taken = client[p].taken
  BY <1>2 DEF Client
<1>4. row \in Rows /\ row.value = Row(p).value + 1
  BY <1>2 DEF Rows
<1>8. row.exists
  BY <1>1, <1>2 DEF Counts, Row, See, Rows
<1>5. Row(p).value = sequences[k].com.value + Len(c.taken)
  <2>1. CASE sequences[k].by = p
    BY <1>1, <1>2, <1>3, <2>1 DEF Row, See, Counts, Drawing, Cells, Rows, Client
  <2>2. CASE sequences[k].by # p
    <3>1. c.taken = << >> /\ Row(p) = sequences[k].com
      BY <1>1, <1>2, <1>3, <2>2 DEF Row, See, Counts
    <3> QED BY <3>1, <1>2 DEF Rows
  <2> QED BY <2>1, <2>2
<1>6. \A i \in DOMAIN c.taken : c.taken[i] = sequences[k].com.value + i
  BY <1>1, <1>2, <1>3 DEF Counts
<1> HIDE DEF c, row
<1>7. Counts(c, p, p, sequences[k].com, row)
  BY <1>2, <1>3, <1>4, <1>5, <1>6 DEF Counts, Drawing
<1> QED BY <1>1, <1>3, <1>4, <1>7, <1>8, WriteRowLemma DEF Bump, row

\* The number is read.
LEMMA NumberLemma ==
    ASSUME IInv, NEW p \in Clients, Number(p)
    PROVE  IInv'
<1> DEFINE k == client[p].key
           c == [client[p] EXCEPT !.number = Row(p).value, !.pc = "file"]
<1>1. client' = [client EXCEPT ![p] = c] /\ client[p].pc = "number"
  BY DEF Number, At, IInv, TypeOK, Client
<1>2. /\ client[p] \in Client /\ k \in Keys /\ sequences[k] \in Cells(Rows) /\ Row(p) \in Rows
      /\ Counts(client[p], sequences[k].by, p, sequences[k].com, sequences[k].live)
  BY <1>1, SeeLemma
<1>3. /\ c \in Client /\ c.pc = "file" /\ c.key = k /\ c.taken = client[p].taken
      /\ c.number = Row(p).value
  BY <1>2 DEF Client, Rows
<1>4. sequences[k].by = p /\ Row(p) = sequences[k].live
  BY <1>1, <1>2 DEF Counts, Drawing, Row, See
<1> HIDE DEF c
<1>5. Counts(c, sequences[k].by, p, sequences[k].com, sequences[k].live)
  BY <1>1, <1>2, <1>3, <1>4 DEF Counts, Drawing
<1> QED BY <1>1, <1>3, <1>5, LookLemma DEF Number

\* A document is filed under it.
LEMMA FileLemma ==
    ASSUME IInv, NEW p \in Clients, File(p)
    PROVE  IInv'
<1>1. PICK label \in {"ensure", "commit"} :
         client' = [client EXCEPT ![p].taken = Append(@, client[p].number), ![p].pc = label]
  BY DEF File
<1> DEFINE k == client[p].key
           c == [client[p] EXCEPT !.taken = Append(@, client[p].number), !.pc = label]
<1>2. client' = [client EXCEPT ![p] = c] /\ client[p].pc = "file"
  BY <1>1 DEF File, At, IInv, TypeOK, Client
<1>3. /\ client[p] \in Client /\ k \in Keys /\ sequences[k] \in Cells(Rows)
      /\ Counts(client[p], sequences[k].by, p, sequences[k].com, sequences[k].live)
  BY <1>2, SeeLemma
<1>9. client[p].taken \in Seq(Nat) /\ client[p].number \in Nat
  BY <1>3 DEF Client
<1>10. Append(client[p].taken, client[p].number) \in Seq(Nat)
  BY <1>9
<1>4. /\ c \in Client /\ c.pc = label /\ c.key = k
      /\ c.taken = Append(client[p].taken, client[p].number)
  BY <1>3, <1>10 DEF Client
<1>5. /\ sequences[k].by = p
      /\ client[p].number = sequences[k].com.value + Len(client[p].taken) + 1
      /\ sequences[k].live.value = sequences[k].com.value + Len(client[p].taken) + 1
      /\ \A i \in DOMAIN client[p].taken : client[p].taken[i] = sequences[k].com.value + i
  BY <1>2, <1>3 DEF Counts, Drawing
<1>6. client[p].taken \in Seq(Nat) /\ client[p].number \in Nat /\ sequences[k].com.value \in Nat
  BY <1>3 DEF Client, Cells, Rows
<1>7. /\ Len(c.taken) = Len(client[p].taken) + 1
      /\ \A i \in DOMAIN c.taken : c.taken[i] = sequences[k].com.value + i
  <2> DEFINE t == client[p].taken
             n == client[p].number
             b == sequences[k].com.value
  <2>1. t \in Seq(Nat) /\ n \in Nat /\ b \in Nat /\ n = b + Len(t) + 1
    BY <1>5, <1>6
  <2>2. \A i \in DOMAIN t : t[i] = b + i
    BY <1>5
  <2> HIDE DEF t, n, b
  <2>3. /\ Len(Append(t, n)) = Len(t) + 1
        /\ \A i \in DOMAIN Append(t, n) : Append(t, n)[i] = b + i
    <3>1. /\ Append(t, n) \in Seq(Nat) /\ Len(Append(t, n)) = Len(t) + 1 /\ Len(t) \in Nat
          /\ \A i \in 1..Len(t) : Append(t, n)[i] = t[i]
          /\ Append(t, n)[Len(t) + 1] = n
      BY <2>1, AppendProperties
    <3>2. DOMAIN t = 1..Len(t) /\ DOMAIN Append(t, n) = 1..(Len(t) + 1)
      BY <2>1, <3>1
    <3>3. ASSUME NEW i \in 1..(Len(t) + 1) PROVE Append(t, n)[i] = b + i
      <4>1. CASE i = Len(t) + 1
        BY <4>1, <3>1, <2>1
      <4>2. CASE i \in 1..Len(t)
        BY <4>2, <3>1, <3>2, <2>2
      <4> QED BY <4>1, <4>2, <3>1
    <3> QED BY <3>1, <3>2, <3>3
  <2> QED BY <2>3, <1>4 DEF t, n, b
<1> HIDE DEF c
<1>8. Counts(c, sequences[k].by, p, sequences[k].com, sequences[k].live)
  <2>1. sequences[k].live.value = sequences[k].com.value + Len(c.taken)
    <3>1. c.taken \in Seq(Nat) /\ Len(c.taken) = Len(client[p].taken) + 1
      BY <1>4, <1>9, <1>10, <1>7
    <3>2. Len(client[p].taken) \in Nat
      BY <1>6, LenProperties
    <3>3. sequences[k].com.value + Len(client[p].taken) + 1 = sequences[k].com.value + Len(c.taken)
      BY <1>6, <3>1, <3>2
    <3> QED BY <1>5, <3>3
  <2>2. c.pc \notin Drawing /\ c.pc # "bump" /\ c.pc # "file"
    BY <1>4 DEF Drawing
  <2>3. sequences[k].live.value =
           sequences[k].com.value + Len(c.taken) + IF c.pc \in Drawing THEN 1 ELSE 0
    <3>1. sequences[k].com.value + Len(c.taken) \in Nat
      BY <1>4, <1>6, <1>7
    <3> QED BY <2>1, <2>2, <3>1
  <2> QED BY <1>5, <1>7, <2>2, <2>3, <1>4 DEF Counts
<1> QED BY <1>2, <1>4, <1>8, LookLemma DEF File

\* A transaction ends: the rows it holds are left at the version row.
LEMMA EndingLemma ==
    ASSUME IInv, NEW p \in Clients, client' = [client EXCEPT ![p] = Idle],
           NEW row \in [Keys -> Rows],
           \A k \in Keys : row[k] \in {sequences[k].com, sequences[k].live},
           sequences' = [k \in Keys |-> IF sequences[k].by = p THEN Cell(row[k])
                                                              ELSE sequences[k]],
           issued' \in [Keys -> Seq(Nat)], GapFree'
    PROVE  IInv'
<1>1. /\ Idle \in Client /\ Idle.pc = "idle" /\ Idle.taken = << >>
      /\ client' \in [Clients -> Client] /\ client'[p] = Idle
      /\ \A q \in Clients : q # p => client'[q] = client[q]
  <2>1. Idle \in Client /\ Idle.pc = "idle" /\ Idle.taken = << >>
    BY DEF Idle, Client
  <2> QED BY <2>1 DEF IInv, TypeOK, Client
<1>2. ASSUME NEW k \in Keys
      PROVE  /\ sequences[k] \in Cells(Rows) /\ sequences'[k] \in Cells(Rows)
             /\ sequences[k].by # p => sequences'[k] = sequences[k]
             /\ sequences[k].by = p => /\ sequences'[k].com = row[k] /\ sequences'[k].live = row[k]
                                       /\ sequences'[k].by = Nobody
  <2>1. sequences[k] \in Cells(Rows)
    BY DEF IInv, TypeOK
  <2>2. Cell(row[k]) \in Cells(Rows)
    BY DEF Cell, Cells
  <2> QED BY <2>1, <2>2 DEF Cell
<1>3. TypeOK'
  BY <1>1, <1>2 DEF IInv, TypeOK, Client
<1>4. ASSUME NEW k \in Keys
      PROVE  /\ sequences'[k].by = Nobody => sequences'[k].live = sequences'[k].com
             /\ sequences'[k].by # Nobody =>
                   /\ client'[sequences'[k].by].key = k /\ client'[sequences'[k].by].pc # "idle"
                   /\ sequences'[k].live.exists
             /\ ~sequences'[k].com.exists => sequences'[k].com.value = 0
  <2>1. /\ sequences[k].by = Nobody => sequences[k].live = sequences[k].com
        /\ sequences[k].by # Nobody =>
              /\ client[sequences[k].by].key = k /\ client[sequences[k].by].pc # "idle"
              /\ sequences[k].live.exists
        /\ ~sequences[k].com.exists => sequences[k].com.value = 0
        /\ sequences[k].by \in Clients \cup {Nobody}
    BY HeldLemma DEF IInv, TypeOK, Cells
  <2>2. CASE sequences[k].by # p
    BY <2>1, <2>2, <1>1, <1>2
  <2>3. CASE sequences[k].by = p
    BY <2>1, <2>3, <1>2, NobodyAssumption
  <2> QED BY <2>2, <2>3
<1>5. ASSUME NEW q \in Clients
      PROVE  /\ client'[q].pc # "idle" => client'[q].key \in Keys
             /\ Counts(client'[q], sequences'[client'[q].key].by, q,
                       sequences'[client'[q].key].com, sequences'[client'[q].key].live)
  <2>1. CASE client'[q].pc = "idle"
    <3>1. client'[q].taken = << >>
      <4>1. CASE q = p
        BY <4>1, <1>1
      <4>2. CASE q # p
        BY <4>2, <2>1, <1>1, SeeLemma DEF Counts
      <4> QED BY <4>1, <4>2
    <3> QED BY <2>1, <3>1 DEF Counts, Drawing
  <2>2. CASE client'[q].pc # "idle"
    <3>1. q # p /\ client'[q] = client[q]
      BY <2>2, <1>1
    <3> DEFINE k == client[q].key
    <3>2. k \in Keys /\ Counts(client[q], sequences[k].by, q, sequences[k].com, sequences[k].live)
      BY <2>2, <3>1, SeeLemma
    <3>3. CASE sequences[k].by # p
      BY <3>1, <3>2, <3>3, <1>2
    <3>4. CASE sequences[k].by = p
      <4>1. sequences[k].live.exists
        BY <3>2, <3>4, HeldLemma, NobodyAssumption DEF IInv
      <4>2. /\ client[q].pc \notin Drawing /\ client[q].pc # "file" /\ client[q].taken = << >>
            /\ client[q].pc = "bump" => sequences[k].com.exists
        BY <3>1, <3>2, <3>4 DEF Counts, Drawing
      <4>3. client[q].pc = "bump" => row[k].exists
        BY <3>2, <4>1, <4>2
      <4>4. sequences'[k].by # q /\ sequences'[k].com = row[k]
        BY <3>2, <3>4, <1>2, NobodyAssumption
      <4> QED BY <3>1, <3>2, <4>2, <4>3, <4>4 DEF Counts
    <3> QED BY <3>3, <3>4
  <2> QED BY <2>1, <2>2
<1>6. NumbersAreHeld'
  BY <1>4, <1>5 DEF NumbersAreHeld, Counts, At, Row, See
<1> QED BY <1>3, <1>6 DEF IInv

\* A transaction fails: its numbers are given back.
LEMMA RollbackLemma ==
    ASSUME IInv, NEW p \in Clients, Rollback(p)
    PROVE  IInv'
<1> DEFINE row == [k \in Keys |-> sequences[k].com]
<1>1. row \in [Keys -> Rows] /\ \A k \in Keys : row[k] \in {sequences[k].com, sequences[k].live}
  BY DEF IInv, TypeOK, Cells
<1>2. sequences' = [k \in Keys |-> IF sequences[k].by = p THEN Cell(row[k]) ELSE sequences[k]]
  BY DEF Rollback, RolledBack, IInv, TypeOK
<1>3. issued' \in [Keys -> Seq(Nat)] /\ client' = [client EXCEPT ![p] = Idle]
  BY DEF Rollback, IInv, TypeOK
<1>4. GapFree'
  <2>1. \A k \in Keys : sequences'[k].com = sequences[k].com
    BY <1>2 DEF Cell
  <2> QED BY <2>1 DEF IInv, GapFree, Rollback
<1> HIDE DEF row
<1> QED BY <1>1, <1>2, <1>3, <1>4, EndingLemma

\* A transaction commits: its documents continue those of the key.
LEMMA CommitLemma ==
    ASSUME IInv, NEW p \in Clients, Commit(p)
    PROVE  IInv'
<1> DEFINE row  == [k \in Keys |-> sequences[k].live]
           key  == client[p].key
           file == client[p].taken
<1>1. row \in [Keys -> Rows] /\ \A k \in Keys : row[k] \in {sequences[k].com, sequences[k].live}
  BY DEF IInv, TypeOK, Cells
<1>2. sequences' = [k \in Keys |-> IF sequences[k].by = p THEN Cell(row[k]) ELSE sequences[k]]
  BY DEF Commit, Committed, IInv, TypeOK
<1>3. client[p].pc = "commit" /\ client' = [client EXCEPT ![p] = Idle]
  BY DEF Commit, At
<1>4. /\ key \in Keys /\ file \in Seq(Nat) /\ sequences[key] \in Cells(Rows)
      /\ Counts(client[p], sequences[key].by, p, sequences[key].com, sequences[key].live)
  BY <1>3, SeeLemma DEF Client
<1>5. /\ issued \in [Keys -> Seq(Nat)]
      /\ issued' = [issued EXCEPT ![key] = issued[key] \o file]
  BY <1>4 DEF IInv, TypeOK, Commit
<1>6. issued' \in [Keys -> Seq(Nat)]
  BY <1>4, <1>5
<1>7. ASSUME NEW k \in Keys
      PROVE  /\ Len(issued'[k]) = sequences'[k].com.value
             /\ \A i \in DOMAIN issued'[k] : issued'[k][i] = i
  <2>1. /\ Len(issued[k]) = sequences[k].com.value
        /\ \A i \in DOMAIN issued[k] : issued[k][i] = i
        /\ issued[k] \in Seq(Nat)
    BY <1>5 DEF IInv, GapFree
  <2>2. CASE k # key
    <3>1. sequences[k].by # p
      BY <2>2, HeldLemma, NobodyAssumption DEF IInv
    <3> QED BY <2>1, <2>2, <3>1, <1>2, <1>5
  <2>3. CASE k = key /\ sequences[k].by # p
    <3>1. file = << >>
      BY <2>3, <1>4 DEF Counts
    <3>2. issued'[k] = issued[k]
      BY <2>1, <2>3, <3>1, <1>5, <1>6
    <3> QED BY <2>1, <2>3, <3>2, <1>2
  <2>4. CASE k = key /\ sequences[k].by = p
    <3> DEFINE s == issued[k]
               n == sequences[k].com.value
    <3>1. /\ sequences[k].live.value = n + Len(file)
          /\ \A i \in DOMAIN file : file[i] = n + i
      <4>1. n \in Nat /\ Len(file) \in Nat
        BY <1>4, <2>4 DEF Cells, Rows
      <4> QED BY <2>4, <1>3, <1>4, <4>1 DEF Counts, Drawing
    <3>2. issued'[k] = s \o file /\ sequences'[k].com = sequences[k].live
      BY <2>4, <1>2, <1>4, <1>5 DEF Cell
    <3>3. /\ s \in Seq(Nat) /\ file \in Seq(Nat) /\ n = Len(s)
          /\ \A i \in DOMAIN s : s[i] = i
      BY <2>1, <1>4
    <3> HIDE DEF s, n, file
    <3>4. /\ Len(s \o file) = Len(s) + Len(file)
          /\ \A i \in 1..(Len(s) + Len(file)) :
                (s \o file)[i] = IF i <= Len(s) THEN s[i] ELSE file[i - Len(s)]
      BY <3>3, ConcatProperties
    <3>5. DOMAIN (s \o file) = 1..(Len(s) + Len(file)) /\ Len(s) \in Nat /\ Len(file) \in Nat
      BY <3>3, <3>4
    <3>6. ASSUME NEW i \in 1..(Len(s) + Len(file)) PROVE (s \o file)[i] = i
      <4>1. CASE i <= Len(s)
        <5>1. i \in DOMAIN s
          BY <4>1, <3>3, <3>5
        <5> QED BY <4>1, <5>1, <3>3, <3>4
      <4>2. CASE i > Len(s)
        <5>1. i - Len(s) \in DOMAIN file
          BY <4>2, <3>3, <3>5
        <5>2. file[i - Len(s)] = n + (i - Len(s))
          BY <5>1, <3>1
        <5> QED BY <4>2, <5>2, <3>3, <3>4, <3>5
      <4> QED BY <4>1, <4>2, <3>5
    <3> QED BY <3>1, <3>2, <3>3, <3>4, <3>5, <3>6
  <2> QED BY <2>2, <2>3, <2>4
<1>8. GapFree'
  BY <1>7 DEF GapFree
<1> HIDE DEF row
<1> QED BY <1>1, <1>2, <1>3, <1>6, <1>8, EndingLemma

-----------------------------------------------------------------------------
LEMMA InitLemma == Init => IInv
<1> SUFFICES ASSUME Init PROVE IInv
  OBVIOUS
<1>1. Idle \in Client /\ Idle.pc = "idle" /\ Idle.taken = << >>
  BY DEF Idle, Client
<1>2. Cell(Missing) \in Cells(Rows)
  BY DEF Cell, Cells, Missing, Rows
<1>3. TypeOK
  BY <1>1, <1>2 DEF Init, TypeOK, Client
<1>4. GapFree
  BY DEF Init, GapFree, Cell, Missing
<1>5. NumbersAreHeld
  BY <1>1 DEF Init, NumbersAreHeld, Cell, Missing, At, Drawing
<1> QED BY <1>3, <1>4, <1>5 DEF IInv

LEMMA StepLemmaNext == IInv /\ [Next]_vars => IInv'
<1> SUFFICES ASSUME IInv, [Next]_vars PROVE IInv'
  OBVIOUS
<1>1. CASE UNCHANGED vars
  BY <1>1 DEF vars, IInv, TypeOK, GapFree, NumbersAreHeld, At, Row, See
<1>2. ASSUME NEW p \in Clients, Step(p) PROVE IInv'
  <2>1. ASSUME NEW k \in Keys, Begin(p, k) PROVE IInv'
    BY <2>1, BeginLemma
  <2> QED BY <1>2, <2>1, EnsureLemma, BumpLemma, NumberLemma, FileLemma, CommitLemma,
             RollbackLemma DEF Step
<1> QED BY <1>1, <1>2 DEF Next

\* The inductive invariant of the document numbers.
THEOREM Invariant == Spec => []IInv
BY InitLemma, StepLemmaNext, PTL DEF Spec

\* The tables and the clients keep their types.
THEOREM TypeCorrect == Spec => []TypeOK
<1>1. IInv => TypeOK
  BY DEF IInv
<1> QED BY <1>1, Invariant, PTL

\* For any number of concurrent requests, the documents of a key are numbered
\* 1, 2, 3, ... in commit order, whichever transactions fail.
THEOREM NumbersAreGapFree == Spec => []GapFree
<1>1. IInv => GapFree
  BY DEF IInv
<1> QED BY <1>1, Invariant, PTL

-----------------------------------------------------------------------------
\* Attempts.

Caller == [pc : Labels, req : Seq(Lockables), todo : Seq(Lockables), attempt : 0..MaxAttempts]

Working == {"connect", "run", "sleep"}

-----------------------------------------------------------------------------
\* p ends its attempt and gives up its rows, or goes on to another label
\* without them.
LEMMA ReleaseLemma ==
    ASSUME RetryInv, NEW p \in Clients, NEW c \in Caller, NEW n \in 0..1,
           caller' = [caller EXCEPT ![p] = c],
           applied' = [applied EXCEPT ![p] = n],
           holder' = Released(p) \/ (UNCHANGED holder /\ ~Stands(p, "run")),
           c.pc \in Working => n = 0 /\ c.attempt > 0,
           c.pc = "sleep" => c.attempt < MaxAttempts
    PROVE  RetryInv'
<1>1. /\ caller' \in [Clients -> Caller] /\ caller'[p] = c
      /\ \A q \in Clients : q # p => caller'[q] = caller[q]
  BY DEF RetryInv, RetryTypeOK, Caller
<1>2. /\ applied' \in [Clients -> 0..1] /\ applied'[p] = n
      /\ \A q \in Clients : q # p => applied'[q] = applied[q]
  BY DEF RetryInv, RetryTypeOK
<1>3. holder' \in [Lockables -> Clients \cup {Nobody}]
  BY DEF RetryInv, RetryTypeOK, Released
<1>4. \A r \in Lockables : holder'[r] # Nobody => holder'[r] = holder[r] /\ holder[r] # p
  BY DEF RetryInv, LocksAreInTransactions, RetryTypeOK, Released, Stands
<1>5. RetryTypeOK'
  BY <1>1, <1>2, <1>3 DEF RetryTypeOK, Caller
<1>6. LocksAreInTransactions'
  BY <1>1, <1>3, <1>4 DEF RetryInv, LocksAreInTransactions, RetryTypeOK, Stands
<1>7. NothingWrittenYet'
  BY <1>1, <1>2 DEF RetryInv, NothingWrittenYet, Stands, Working
<1> QED BY <1>5, <1>6, <1>7 DEF RetryInv

\* A caller is at a label, with its counts.
LEMMA CallerLemma ==
    ASSUME RetryInv, NEW p \in Clients
    PROVE  /\ caller[p] \in Caller /\ applied[p] \in 0..1
           /\ caller[p].pc \in Working => applied[p] = 0 /\ caller[p].attempt > 0
           /\ Stands(p, "sleep") => caller[p].attempt < MaxAttempts
BY DEF RetryInv, RetryTypeOK, NothingWrittenYet, Caller, Working

LEMMA SubmitLemma ==
    ASSUME RetryInv, NEW p \in Clients, NEW req \in Requests, Submit(p, req)
    PROVE  RetryInv'
<1> DEFINE c == [pc |-> "connect", req |-> req, todo |-> req, attempt |-> 1]
<1>1. c \in Caller /\ c.pc = "connect" /\ c.attempt = 1
  BY RequestsAssumption, PoolAssumption DEF Caller, Labels
<1>2. caller' = [caller EXCEPT ![p] = c] /\ applied' = [applied EXCEPT ![p] = 0]
      /\ UNCHANGED holder /\ ~Stands(p, "run")
  BY DEF Submit, Stands
<1> HIDE DEF c
<1>3. 0 \in 0..1 /\ c.attempt > 0 /\ c.pc # "sleep"
  BY <1>1
<1> QED BY <1>1, <1>2, <1>3, ReleaseLemma

\* A step that neither takes nor commits anything, and holds no row.
LEMMA QuietLemma ==
    ASSUME RetryInv, NEW p \in Clients, NEW c \in Caller,
           caller' = [caller EXCEPT ![p] = c], UNCHANGED applied,
           holder' = Released(p) \/ (UNCHANGED holder /\ ~Stands(p, "run")),
           c.pc \in Working => caller[p].pc \in Working /\ c.attempt > 0,
           c.pc = "sleep" => c.attempt < MaxAttempts
    PROVE  RetryInv'
<1>1. applied' = [applied EXCEPT ![p] = applied[p]]
  BY DEF RetryInv, RetryTypeOK
<1>2. applied[p] \in 0..1 /\ (c.pc \in Working => applied[p] = 0 /\ c.attempt > 0)
  BY CallerLemma
<1> QED BY <1>1, <1>2, ReleaseLemma

LEMMA RetriedLemma ==
    ASSUME RetryInv, NEW p \in Clients, Retried(p), caller[p].pc \in {"connect", "run"}
    PROVE  RetryInv'
<1> DEFINE c == [caller[p] EXCEPT !.pc = IF caller[p].attempt = MaxAttempts THEN "busy" ELSE "sleep"]
<1>1. caller[p] \in Caller /\ caller[p].attempt > 0 /\ caller[p].pc \in Working
  BY CallerLemma DEF Working
<1>2. caller' = [caller EXCEPT ![p] = c] /\ UNCHANGED applied /\ holder' = Released(p)
  BY DEF Retried, RetryInv, RetryTypeOK, Caller
<1>3. /\ c \in Caller /\ c.attempt = caller[p].attempt
      /\ c.pc = "busy" \/ (c.pc = "sleep" /\ caller[p].attempt # MaxAttempts)
  BY <1>1 DEF Caller, Labels
<1>4. caller[p].attempt \in 0..MaxAttempts
  BY <1>1 DEF Caller
<1> HIDE DEF c
<1>5. /\ c.pc \in Working => caller[p].pc \in Working /\ c.attempt > 0
      /\ c.pc = "sleep" => c.attempt < MaxAttempts
  BY <1>1, <1>3, <1>4, PoolAssumption DEF Working
<1> QED BY <1>2, <1>3, <1>5, QuietLemma

\* A running transaction takes its next row, or a connection.
LEMMA RunLemma ==
    ASSUME RetryInv, NEW p \in Clients, Connect(p) \/ Lock(p)
    PROVE  RetryInv'
<1>1. caller[p] \in Caller /\ caller[p].pc \in Working
  BY CallerLemma DEF Connect, Lock, Stands, Working
<1>2. PICK c \in Caller : /\ caller' = [caller EXCEPT ![p] = c]
                          /\ c.pc = "run" /\ c.attempt = caller[p].attempt
  <2>1. CASE Connect(p)
    <3>1. [caller[p] EXCEPT !.pc = "run"] \in Caller
      BY <1>1 DEF Caller, Labels
    <3> QED BY <2>1, <3>1, <1>1 DEF Connect, RetryInv, RetryTypeOK, Caller
  <2>2. CASE Lock(p)
    <3>1. Tail(caller[p].todo) \in Seq(Lockables)
      BY <1>1, <2>2 DEF Lock, Caller
    <3>2. [caller[p] EXCEPT !.todo = Tail(caller[p].todo)] \in Caller
      BY <1>1, <3>1 DEF Caller
    <3> QED BY <2>2, <3>2, <1>1 DEF Lock, Stands, RetryInv, RetryTypeOK, Caller
  <2> QED BY <2>1, <2>2
<1>3. /\ caller' \in [Clients -> Caller] /\ caller'[p] = c
      /\ \A q \in Clients : q # p => caller'[q] = caller[q]
  BY <1>2 DEF RetryInv, RetryTypeOK, Caller
<1>4. /\ UNCHANGED applied
      /\ holder' \in [Lockables -> Clients \cup {Nobody}]
      /\ \A r \in Lockables : holder'[r] = holder[r] \/ holder'[r] = p
  BY DEF Connect, Lock, RetryInv, RetryTypeOK
<1>5. RetryTypeOK'
  BY <1>3, <1>4 DEF RetryInv, RetryTypeOK, Caller
<1>6. LocksAreInTransactions'
  BY <1>2, <1>3, <1>4 DEF RetryInv, LocksAreInTransactions, RetryTypeOK, Stands
<1>7. NothingWrittenYet'
  BY <1>1, <1>2, <1>3, <1>4 DEF RetryInv, NothingWrittenYet, Stands, Working
<1> QED BY <1>5, <1>6, <1>7 DEF RetryInv

LEMMA WakeLemma ==
    ASSUME RetryInv, NEW p \in Clients, Wake(p)
    PROVE  RetryInv'
<1> DEFINE c == [caller[p] EXCEPT !.pc = "connect", !.todo = caller[p].req, !.attempt = @ + 1]
<1>1. caller[p] \in Caller /\ caller[p].pc = "sleep" /\ caller[p].attempt < MaxAttempts
  BY CallerLemma DEF Wake, Stands
<1>2. caller' = [caller EXCEPT ![p] = c]
  BY DEF Wake, RetryInv, RetryTypeOK, Caller
<1>3. caller[p].attempt + 1 \in 0..MaxAttempts /\ caller[p].attempt + 1 > 0
  BY <1>1, PoolAssumption DEF Caller
<1>4. c \in Caller /\ c.pc = "connect" /\ c.attempt > 0
  BY <1>1, <1>3 DEF Caller, Labels
<1> HIDE DEF c
<1>5. UNCHANGED holder /\ UNCHANGED applied /\ ~Stands(p, "run")
  BY DEF Wake, Stands
<1> QED BY <1>1, <1>2, <1>4, <1>5, QuietLemma DEF Working

\* p is answered by the closure's outcome, or goes back to where it started.
LEMMA SucceedLemma ==
    ASSUME RetryInv, NEW p \in Clients, Succeed(p) \/ Refuse(p) \/ Answer(p)
    PROVE  RetryInv'
<1>1. caller[p] \in Caller /\ applied[p] \in 0..1 /\ (Stands(p, "run") => applied[p] = 0)
  BY CallerLemma DEF Stands, Working
<1>2. CASE Succeed(p)
  <2> DEFINE c == [caller[p] EXCEPT !.pc = "done"]
  <2>1. c \in Caller /\ c.pc = "done"
    BY <1>1 DEF Caller, Labels
  <2>2. caller' = [caller EXCEPT ![p] = c] /\ holder' = Released(p)
    BY <1>2 DEF Succeed, RetryInv, RetryTypeOK, Caller
  <2>3. applied' = [applied EXCEPT ![p] = 1]
    BY <1>1, <1>2 DEF Succeed, RetryInv, RetryTypeOK
  <2> HIDE DEF c
  <2>4. 1 \in 0..1 /\ c.pc \notin Working /\ c.pc # "sleep"
    BY <2>1 DEF Working
  <2> QED BY <2>1, <2>2, <2>3, <2>4, ReleaseLemma
<1>3. CASE Refuse(p)
  <2> DEFINE c == [caller[p] EXCEPT !.pc = "refused"]
  <2>1. c \in Caller /\ c.pc = "refused"
    BY <1>1 DEF Caller, Labels
  <2>2. caller' = [caller EXCEPT ![p] = c] /\ holder' = Released(p) /\ UNCHANGED applied
    BY <1>3 DEF Refuse, RetryInv, RetryTypeOK, Caller
  <2> HIDE DEF c
  <2> QED BY <2>1, <2>2, QuietLemma DEF Working
<1>4. CASE Answer(p)
  <2>1. NoRequest \in Caller /\ NoRequest.pc = "idle"
    BY PoolAssumption DEF NoRequest, Caller, Labels
  <2>2. caller' = [caller EXCEPT ![p] = NoRequest] /\ UNCHANGED holder /\ UNCHANGED applied
        /\ ~Stands(p, "run")
    BY <1>4 DEF Answer, Stands
  <2> QED BY <2>1, <2>2, QuietLemma DEF Working
<1> QED BY <1>2, <1>3, <1>4

-----------------------------------------------------------------------------
LEMMA RetryInitLemma == RetryInit => RetryInv
<1> SUFFICES ASSUME RetryInit PROVE RetryInv
  OBVIOUS
<1>1. NoRequest \in Caller /\ NoRequest.pc = "idle"
  BY PoolAssumption DEF NoRequest, Caller, Labels
<1> QED BY <1>1 DEF RetryInit, RetryInv, RetryTypeOK, LocksAreInTransactions, NothingWrittenYet, Stands, Caller

LEMMA RetryStepLemma == RetryInv /\ [RetryNext]_retryVars => RetryInv'
<1> SUFFICES ASSUME RetryInv, [RetryNext]_retryVars PROVE RetryInv'
  OBVIOUS
<1>1. CASE UNCHANGED retryVars
  BY <1>1 DEF retryVars, RetryInv, RetryTypeOK, LocksAreInTransactions, NothingWrittenYet, Stands
<1>2. ASSUME NEW p \in Clients, Proceed(p) PROVE RetryInv'
  <2>1. CASE Connect(p) \/ Lock(p)
    BY <2>1, RunLemma
  <2>2. CASE Succeed(p) \/ Refuse(p) \/ Answer(p)
    BY <2>2, SucceedLemma
  <2>3. CASE NoConnection(p) \/ Fail(p)
    BY <2>3, RetriedLemma DEF NoConnection, Fail, Stands
  <2>4. CASE Wake(p)
    BY <2>4, WakeLemma
  <2> QED BY <1>2, <2>1, <2>2, <2>3, <2>4 DEF Proceed
<1>3. ASSUME NEW p \in Clients, NEW req \in Requests, Submit(p, req) PROVE RetryInv'
  BY <1>3, SubmitLemma
<1> QED BY <1>1, <1>2, <1>3 DEF RetryNext

\* The inductive invariant of runInTransaction.
THEOREM RetryInvariant == RetrySpec => []RetryInv
BY RetryInitLemma, RetryStepLemma, PTL DEF RetrySpec

\* However an attempt ends, its rows are given up: no caller waits for one
\* that backs off, queues for a connection or has been answered.
THEOREM LocksEndWithTransactions == RetrySpec => []LocksAreInTransactions
<1>1. RetryInv => LocksAreInTransactions
  BY DEF RetryInv
<1> QED BY <1>1, RetryInvariant, PTL

-----------------------------------------------------------------------------
LEMMA RefineInitLemma == RetryInit => Promise!Init
BY DEF RetryInit, Promise!Init, Phase, NoRequest

\* Only the phase of p may change.
LEMMA PhaseLemma ==
    ASSUME NEW p \in Clients, NEW c, caller \in [Clients -> Caller],
           caller' = [caller EXCEPT ![p] = c]
    PROVE  [q \in Clients |-> Phase(q)]' =
               [[q \in Clients |-> Phase(q)] EXCEPT
                   ![p] = IF c.pc \in Working THEN "working" ELSE c.pc]
BY DEF Phase, Working

LEMMA RefineStepLemma == RetryInv /\ [RetryNext]_retryVars => [Promise!Next]_Promise!vars
<1> SUFFICES ASSUME RetryInv, [RetryNext]_retryVars PROVE [Promise!Next]_Promise!vars
  OBVIOUS
<1> DEFINE phase == [q \in Clients |-> Phase(q)]
<1>0. caller \in [Clients -> Caller] /\ applied \in [Clients -> 0..1]
  BY DEF RetryInv, RetryTypeOK, Caller
<1>1. CASE UNCHANGED retryVars
  BY <1>1 DEF retryVars, Promise!vars, Phase
<1>2. ASSUME NEW p \in Clients, Proceed(p) PROVE [Promise!Next]_Promise!vars
  <2>1. /\ caller[p] \in Caller
        /\ phase[p] = IF caller[p].pc \in Working THEN "working" ELSE caller[p].pc
        /\ caller[p].pc \in Working => applied[p] = 0
    BY CallerLemma DEF Phase, Working
  \* A step within the request is a stutter.
  <2>2. ASSUME NEW c, caller' = [caller EXCEPT ![p] = c], UNCHANGED applied,
               c.pc \in Working, caller[p].pc \in Working
        PROVE  UNCHANGED Promise!vars
    <3>1. phase' = [phase EXCEPT ![p] = "working"]
      BY <1>0, <2>2, PhaseLemma
    <3>2. phase' = phase
      BY <2>1, <2>2, <3>1
    <3> QED BY <2>2, <3>2 DEF Promise!vars
  \* A request turned down.
  <2>3. ASSUME NEW c, caller' = [caller EXCEPT ![p] = c], UNCHANGED applied,
               c.pc \in {"refused", "busy"}, caller[p].pc \in Working
        PROVE  Promise!TurnDown(p)
    <3>1. phase' = [phase EXCEPT ![p] = c.pc]
      BY <1>0, <2>3, PhaseLemma DEF Working
    <3> QED BY <2>1, <2>3, <3>1 DEF Promise!TurnDown
  <2>4. CASE Connect(p)
    <3>1. caller' = [caller EXCEPT ![p] = [caller[p] EXCEPT !.pc = "run"]]
      BY <2>4, <1>0 DEF Connect, Caller
    <3>2. [caller[p] EXCEPT !.pc = "run"].pc = "run" /\ caller[p].pc = "connect"
      BY <2>1, <2>4 DEF Connect, Caller, Stands
    <3> QED BY <2>2, <2>4, <3>1, <3>2 DEF Connect, Working
  <2>5. CASE Lock(p)
    <3>1. caller' = [caller EXCEPT ![p] = [caller[p] EXCEPT !.todo = Tail(caller[p].todo)]]
      BY <2>5, <1>0 DEF Lock, Caller
    <3>2. [caller[p] EXCEPT !.todo = Tail(caller[p].todo)].pc = "run" /\ caller[p].pc = "run"
      BY <2>1, <2>5 DEF Lock, Caller, Stands
    <3> QED BY <2>2, <2>5, <3>1, <3>2 DEF Lock, Working
  <2>6. CASE Succeed(p)
    <3>1. caller' = [caller EXCEPT ![p] = [caller[p] EXCEPT !.pc = "done"]]
      BY <2>6, <1>0 DEF Succeed, Caller
    <3>2. [caller[p] EXCEPT !.pc = "done"].pc = "done" /\ caller[p].pc = "run"
      BY <2>1, <2>6 DEF Succeed, Caller, Stands
    <3> DEFINE c == [caller[p] EXCEPT !.pc = "done"]
    <3>6. (IF c.pc \in Working THEN "working" ELSE c.pc) = "done"
      BY <3>2 DEF Working
    <3>7. caller' = [caller EXCEPT ![p] = c]
      BY <3>1
    <3> HIDE DEF c
    <3>3. phase' = [phase EXCEPT ![p] = "done"]
      BY <1>0, <3>6, <3>7, PhaseLemma
    <3>4. applied' = [applied EXCEPT ![p] = 1]
      BY <1>0, <2>1, <2>6, <3>2 DEF Succeed, Working
    <3>5. phase[p] = "working"
      BY <2>1, <3>2 DEF Working
    <3> QED BY <3>3, <3>4, <3>5 DEF Promise!Next, Promise!Work, Promise!Apply
  <2>7. CASE Refuse(p)
    <3>1. caller' = [caller EXCEPT ![p] = [caller[p] EXCEPT !.pc = "refused"]]
      BY <2>7, <1>0 DEF Refuse, Caller
    <3>2. [caller[p] EXCEPT !.pc = "refused"].pc = "refused" /\ caller[p].pc = "run"
      BY <2>1, <2>7 DEF Refuse, Caller, Stands
    <3> QED BY <2>3, <2>7, <3>1, <3>2 DEF Refuse, Working, Promise!Next, Promise!Work
  <2>8. CASE NoConnection(p) \/ Fail(p)
    <3> DEFINE label == IF caller[p].attempt = MaxAttempts THEN "busy" ELSE "sleep"
    <3>1. Retried(p) /\ caller[p].pc \in {"connect", "run"}
      BY <2>8 DEF NoConnection, Fail, Stands
    <3>2. /\ caller' = [caller EXCEPT ![p] = [caller[p] EXCEPT !.pc = label]]
          /\ UNCHANGED applied
      BY <3>1, <1>0 DEF Retried, Caller
    <3>3. [caller[p] EXCEPT !.pc = label].pc = label
      BY <2>1 DEF Caller
    <3>4. CASE label = "busy"
      BY <3>1, <3>2, <3>3, <3>4, <2>3 DEF Working, Promise!Next, Promise!Work
    <3>5. CASE label = "sleep"
      BY <3>1, <3>2, <3>3, <3>5, <2>2 DEF Working
    <3> QED BY <3>4, <3>5
  <2>9. CASE Wake(p)
    <3> DEFINE c == [caller[p] EXCEPT !.pc = "connect", !.todo = caller[p].req, !.attempt = @ + 1]
    <3>1. caller' = [caller EXCEPT ![p] = c]
      BY <2>9, <1>0 DEF Wake, Caller
    <3>2. c.pc = "connect" /\ caller[p].pc = "sleep"
      BY <2>1, <2>9 DEF Wake, Caller, Stands
    <3> QED BY <2>2, <2>9, <3>1, <3>2 DEF Wake, Working
  <2>10. CASE Answer(p)
    <3>1. caller' = [caller EXCEPT ![p] = NoRequest] /\ NoRequest.pc = "idle"
      BY <2>10 DEF Answer, NoRequest
    <3>4. (IF NoRequest.pc \in Working THEN "working" ELSE NoRequest.pc) = "idle"
      BY <3>1 DEF Working
    <3>2. phase' = [phase EXCEPT ![p] = "idle"]
      BY <1>0, <3>1, <3>4, PhaseLemma
    <3>3. phase[p] \in {"done", "refused", "busy"}
      BY <2>1, <2>10 DEF Answer, Working
    <3> QED BY <2>10, <3>2, <3>3 DEF Answer, Promise!Next, Promise!Work, Promise!Answer
  <2> QED BY <1>2, <2>4, <2>5, <2>6, <2>7, <2>8, <2>9, <2>10 DEF Proceed
<1>3. ASSUME NEW p \in Clients, NEW req \in Requests, Submit(p, req)
      PROVE  [Promise!Next]_Promise!vars
  <2> DEFINE c == [pc |-> "connect", req |-> req, todo |-> req, attempt |-> 1]
  <2>1. caller' = [caller EXCEPT ![p] = c] /\ c.pc = "connect" /\ caller[p].pc = "idle"
    BY <1>3 DEF Submit, Stands
  <2>2. phase' = [phase EXCEPT ![p] = "working"]
    BY <1>0, <2>1, PhaseLemma DEF Working
  <2>3. phase[p] = "idle"
    BY <2>1 DEF Phase
  <2> QED BY <1>3, <2>2, <2>3 DEF Submit, Promise!Next, Promise!Begin
<1> QED BY <1>1, <1>2, <1>3 DEF RetryNext

\* Whatever deadlocks, runs out of connections or times out, a request that is
\* answered "done" has made its writes once, and any other none.
THEOREM RetriesKeepThePromise == RetrySpec => Promise!Safety
BY RefineInitLemma, RefineStepLemma, RetryInvariant, PTL DEF RetrySpec, Promise!Safety

-----------------------------------------------------------------------------
\* Pricing.

\* What a priced line is made of.
PricedLines == [variant : Variants, quantity : Nat \ {0}, unit : Prices, discount : Nat, total : Int]

\* A requested line the catalogue admits as it stands.
Admitted(l) == catalogue[l.variant].active /\ l.discount <= GrossOf(l)

\* What the lines looked up so far add up to.
LookedUp == 1..next - 1

PriceInv ==
    /\ PriceTypeOK
    /\ priced \in Seq(PricedLines)
    /\ \A v \in Variants : catalogue[v] \in offered[v]
    /\ changes = 0 => \A v \in Variants : offered[v] = {catalogue[v]}
    /\ LinesFoldTheRequest
    /\ NegativeOnlyWhenDearer
    /\ LineDiscounts = SumAt(LAMBDA l : l.discount, request.lines, LookedUp)
    /\ changes = 0 => /\ \A k \in LookedUp : Admitted(request.lines[k])
                      /\ Subtotal = SumAt(GrossOf, request.lines, LookedUp)
    /\ PricesExactly
    /\ outcome.state = "priced" => outcome.subtotal = Subtotal

-----------------------------------------------------------------------------
\* Sums over lines.

\* The lines asked for are a finite sequence of them.
LEMMA AskedLemma ==
    ASSUME request \in PriceRequests
    PROVE  /\ request.lines \in Seq(Lines) /\ Len(request.lines) \in Nat
           /\ DOMAIN request.lines = 1..Len(request.lines)
           /\ \A k \in 1..Len(request.lines) :
                 /\ request.lines[k] \in Lines /\ request.lines[k].variant \in Variants
                 /\ request.lines[k].quantity \in Nat \ {0} /\ request.lines[k].discount \in Nat
           /\ request.header \in Headers
<1>1. PICK n \in 1..MaxLines : request.lines \in [1..n -> Lines]
  BY DEF PriceRequests
<1>2. n \in Nat
  BY <1>1, AmountsAssumption
<1>3. request.lines \in Seq(Lines) /\ Len(request.lines) = n
  BY <1>1, <1>2
<1>4. \A l \in Lines : l.variant \in Variants /\ l.quantity \in Nat \ {0} /\ l.discount \in Nat
  BY AmountsAssumption DEF Lines
<1> QED BY <1>1, <1>2, <1>3, <1>4 DEF PriceRequests

\* What is looked up next, and what the catalogue has for it.
LEMMA NextLine ==
    ASSUME PriceInv, LineWaits
    PROVE  /\ next \in 1..Len(request.lines) /\ next \in Nat \ {0} /\ Line = request.lines[next]
           /\ Line.variant \in Variants /\ Line.quantity \in Nat \ {0} /\ Line.discount \in Nat
           /\ Offer \in Offers /\ Offer.price \in Prices /\ Offer.price \in Nat
           /\ Offer.active \in BOOLEAN /\ Gross \in Nat /\ Offer \in offered[Line.variant]
           /\ GrossOf(Line) = Gross
           /\ ~LineRefusal <=> Admitted(Line)
<1>1. request \in PriceRequests /\ next \in 1..Len(request.lines) + 1 /\ catalogue \in [Variants -> Offers]
  BY DEF PriceInv, PriceTypeOK
<1>2. next \in 1..Len(request.lines) /\ next \in Nat \ {0}
  BY <1>1, AskedLemma DEF LineWaits
<1>3. Line.variant \in Variants /\ Line.quantity \in Nat \ {0} /\ Line.discount \in Nat
  BY <1>1, <1>2, AskedLemma DEF Line
<1>4. Offer \in Offers
  BY <1>1, <1>3 DEF Offer
<1>5. Offer.price \in Prices /\ Offer.price \in Nat /\ Offer.active \in BOOLEAN
  BY <1>4, AmountsAssumption DEF Offers
<1>6. Gross \in Nat
  BY <1>3, <1>5 DEF Gross
<1>7. Offer \in offered[Line.variant]
  BY <1>3 DEF PriceInv, Offer
<1>8. GrossOf(Line) = Gross
  BY DEF GrossOf, Gross, Offer
<1>9. ~LineRefusal <=> Admitted(Line)
  BY <1>3, <1>6, <1>8 DEF LineRefusal, Admitted, Offer
<1> QED BY <1>2, <1>3, <1>4, <1>5, <1>6, <1>7, <1>8, <1>9 DEF Line

\* What a step to the next line does to the sums of what has been looked up.
LEMMA LookedUpLemma ==
    ASSUME PriceInv, LineWaits, next' = next + 1, request' = request,
           NEW f, \A k \in 1..Len(request.lines) : f[k] \in Int
    PROVE  /\ LookedUp' = LookedUp \cup {next} /\ next \notin LookedUp
           /\ LookedUp \subseteq 1..Len(request.lines)
           /\ SumFunctionOnSet(f, LookedUp') = SumFunctionOnSet(f, LookedUp) + f[next]
           /\ SumFunctionOnSet(f, LookedUp) \in Int
           /\ \A v : Asked(v)' = IF v = Line.variant THEN Asked(v) \cup {next} ELSE Asked(v)
           /\ \A v : SumFunctionOnSet(f, Asked(v)) \in Int
           /\ \A v : v = Line.variant =>
                 SumFunctionOnSet(f, Asked(v)') = SumFunctionOnSet(f, Asked(v)) + f[next]
<1>1. /\ next \in 1..Len(request.lines) /\ next \in Nat \ {0} /\ Line = request.lines[next]
      /\ Len(request.lines) \in Nat
  BY NextLine, AskedLemma DEF PriceInv, PriceTypeOK
<1>2. /\ LookedUp' = LookedUp \cup {next} /\ next \notin LookedUp
      /\ LookedUp \subseteq 1..Len(request.lines)
  BY <1>1 DEF LookedUp
<1>3. IsFiniteSet(LookedUp)
  BY <1>1, FS_Interval DEF LookedUp
<1>4. \A v : /\ Asked(v) \subseteq LookedUp
             /\ Asked(v)' = IF v = Line.variant THEN Asked(v) \cup {next} ELSE Asked(v)
  BY <1>1 DEF Asked, LookedUp
<1>5. ASSUME NEW S \in SUBSET LookedUp
      PROVE  /\ SumFunctionOnSet(f, S) \in Int
             /\ SumFunctionOnSet(f, S \cup {next}) = SumFunctionOnSet(f, S) + f[next]
  <2>1. IsFiniteSet(S) /\ next \notin S /\ \A i \in S \cup {next} : f[i] \in Int
    BY <1>1, <1>2, <1>3, FS_Subset
  <2>2. SumFunctionOnSet(f, S) \in Int
    BY <2>1, SumIsInt
  <2>3. SumFunctionOnSet(f, S \cup {next}) = f[next] + SumFunctionOnSet(f, S)
    BY <2>1, SumWith
  <2> QED BY <1>1, <2>1, <2>2, <2>3
<1>6. /\ SumFunctionOnSet(f, LookedUp) \in Int
      /\ SumFunctionOnSet(f, LookedUp \cup {next}) = SumFunctionOnSet(f, LookedUp) + f[next]
  BY <1>5
<1>7. \A v : /\ SumFunctionOnSet(f, Asked(v)) \in Int
             /\ SumFunctionOnSet(f, Asked(v) \cup {next}) = SumFunctionOnSet(f, Asked(v)) + f[next]
  BY <1>4, <1>5
<1> QED BY <1>2, <1>4, <1>6, <1>7

\* The quantities and the discounts of lines, requested or priced.
Units(lines) == [i \in DOMAIN lines |-> lines[i].quantity]
Off(lines)   == [i \in DOMAIN lines |-> lines[i].discount]

\* The gross amounts asked for.
GrossAsked == [k \in DOMAIN request.lines |-> GrossOf(request.lines[k])]

\* The line adds up those of the first n requested ones that name its variant.
Naming(asking, n, v) == {i \in 1..n : asking[i].variant = v}

FoldsInto(asking, n, offers, line) ==
    LET asked == Naming(asking, n, line.variant)
    IN  /\ line.quantity = SumFunctionOnSet(Units(asking), asked)
        /\ line.discount = SumFunctionOnSet(Off(asking), asked)
        /\ line.total = line.unit * line.quantity - line.discount
        /\ \E row \in offers[line.variant] : row.active /\ row.price = line.unit

Folded(asking, n, offers, lines) ==
    /\ {lines[i].variant : i \in DOMAIN lines} = {v \in Variants : Naming(asking, n, v) # {}}
    /\ \A i, j \in DOMAIN lines : lines[i].variant = lines[j].variant => i = j
    /\ \A i \in DOMAIN lines : FoldsInto(asking, n, offers, lines[i])

LEMMA FoldedLemma == LinesFoldTheRequest <=> Folded(request.lines, next - 1, offered, priced)
<1>1. \A v : Asked(v) = Naming(request.lines, next - 1, v)
  BY DEF Asked, Naming
<1> QED BY <1>1 DEF LinesFoldTheRequest, Folded, FoldsInto, SumAt, Units, Off

LEMMA FoldedNext ==
    LinesFoldTheRequest' <=> Folded(request.lines', next' - 1, offered', priced')
<1>1. \A v : Asked(v)' = Naming(request.lines', next' - 1, v)
  BY DEF Asked, Naming
<1> QED BY <1>1 DEF LinesFoldTheRequest, Folded, FoldsInto, SumAt, Units, Off

\* The sums of the requested lines, as functions.
LEMMA AskedSums ==
    ASSUME request \in PriceRequests, catalogue \in [Variants -> Offers]
    PROVE  /\ \A S : SumAt(LAMBDA l : l.discount, request.lines, S) = SumFunctionOnSet(Off(request.lines), S)
           /\ \A S : SumAt(GrossOf, request.lines, S) = SumFunctionOnSet(GrossAsked, S)
           /\ \A k \in 1..Len(request.lines) :
                 /\ Off(request.lines)[k] = request.lines[k].discount /\ Off(request.lines)[k] \in Nat /\ Off(request.lines)[k] \in Int
                 /\ GrossAsked[k] = GrossOf(request.lines[k]) /\ GrossAsked[k] \in Nat /\ GrossAsked[k] \in Int
<1>1. /\ \A S : SumAt(LAMBDA l : l.discount, request.lines, S) = SumFunctionOnSet(Off(request.lines), S)
      /\ \A S : SumAt(GrossOf, request.lines, S) = SumFunctionOnSet(GrossAsked, S)
  BY DEF SumAt, Off, GrossAsked
<1>2. ASSUME NEW k \in 1..Len(request.lines)
      PROVE  /\ Off(request.lines)[k] = request.lines[k].discount /\ Off(request.lines)[k] \in Nat /\ Off(request.lines)[k] \in Int
             /\ GrossAsked[k] = GrossOf(request.lines[k]) /\ GrossAsked[k] \in Nat /\ GrossAsked[k] \in Int
  <2>1. /\ k \in DOMAIN request.lines /\ request.lines[k].variant \in Variants
        /\ request.lines[k].quantity \in Nat /\ request.lines[k].discount \in Nat
    BY AskedLemma
  <2>2. catalogue[request.lines[k].variant].price \in Nat
    BY <2>1, AmountsAssumption DEF Offers
  <2>3. GrossOf(request.lines[k]) \in Nat
    BY <2>1, <2>2 DEF GrossOf
  <2> QED BY <2>1, <2>3 DEF Off, GrossAsked
<1> QED BY <1>1, <1>2

\* What the priced lines are worth.
Worth(lines) == [i \in DOMAIN lines |-> lines[i].unit * lines[i].quantity]

LEMMA PricedSums ==
    ASSUME priced \in Seq(PricedLines)
    PROVE  /\ Subtotal = SumFunctionOnSet(Worth(priced), DOMAIN priced) /\ Subtotal \in Int
           /\ LineDiscounts = SumFunctionOnSet(Off(priced), DOMAIN priced) /\ LineDiscounts \in Int
           /\ IsFiniteSet(DOMAIN priced)
           /\ \A i \in DOMAIN priced :
                 /\ priced[i] \in PricedLines /\ priced[i].variant \in Variants
                 /\ priced[i].quantity \in Nat \ {0} /\ priced[i].unit \in Prices
                 /\ priced[i].unit \in Nat /\ priced[i].discount \in Nat /\ priced[i].total \in Int
                 /\ Worth(priced)[i] = priced[i].unit * priced[i].quantity
                 /\ Worth(priced)[i] \in Int
                 /\ Off(priced)[i] = priced[i].discount /\ Off(priced)[i] \in Nat
<1>1. /\ Subtotal = SumFunctionOnSet(Worth(priced), DOMAIN priced)
      /\ LineDiscounts = SumFunctionOnSet(Off(priced), DOMAIN priced)
  BY DEF Subtotal, LineDiscounts, SumOf, SumAt, Worth, Off
<1>2. IsFiniteSet(DOMAIN priced)
  BY FS_Interval
<1>3. ASSUME NEW i \in DOMAIN priced
      PROVE  /\ priced[i] \in PricedLines /\ priced[i].variant \in Variants
             /\ priced[i].quantity \in Nat \ {0} /\ priced[i].unit \in Prices
             /\ priced[i].unit \in Nat /\ priced[i].discount \in Nat /\ priced[i].total \in Int
             /\ Worth(priced)[i] = priced[i].unit * priced[i].quantity
             /\ Worth(priced)[i] \in Int
             /\ Off(priced)[i] = priced[i].discount /\ Off(priced)[i] \in Nat
  <2>1. priced[i] \in PricedLines
    OBVIOUS
  <2>2. /\ priced[i].variant \in Variants /\ priced[i].quantity \in Nat \ {0}
        /\ priced[i].unit \in Prices /\ priced[i].discount \in Nat /\ priced[i].total \in Int
    BY <2>1 DEF PricedLines
  <2>3. priced[i].unit \in Nat /\ priced[i].unit * priced[i].quantity \in Int
    <3>1. priced[i].unit \in Nat
      BY <2>2, AmountsAssumption
    <3> QED BY <2>2, <3>1
  <2> QED BY <2>1, <2>2, <2>3 DEF Worth, Off
<1>4. /\ SumFunctionOnSet(Worth(priced), DOMAIN priced) \in Int
      /\ SumFunctionOnSet(Off(priced), DOMAIN priced) \in Int
  BY <1>2, <1>3, SumIsInt
<1> QED BY <1>1, <1>2, <1>3, <1>4

\* A line has been looked up: what its step has to see to.
LEMMA LookUpStep ==
    ASSUME PriceInv, LineWaits, ~LineRefusal, next' = next + 1,
           UNCHANGED <<catalogue, offered, changes, request, outcome>>,
           priced' \in Seq(PricedLines), LinesFoldTheRequest', NegativeOnlyWhenDearer',
           LineDiscounts' = LineDiscounts + Line.discount,
           changes = 0 => Subtotal' = Subtotal + Gross
    PROVE  PriceInv'
<1>1. request \in PriceRequests /\ catalogue \in [Variants -> Offers]
  BY DEF PriceInv, PriceTypeOK
<1>2. /\ next \in 1..Len(request.lines) /\ next \in Nat \ {0} /\ Line = request.lines[next]
      /\ Admitted(Line) /\ GrossOf(Line) = Gross
  BY NextLine
<1>3. Off(request.lines)' = Off(request.lines) /\ GrossAsked' = GrossAsked
  BY DEF Off, GrossAsked, GrossOf
<1>4. /\ LookedUp' = LookedUp \cup {next} /\ LookedUp \subseteq 1..Len(request.lines)
      /\ SumFunctionOnSet(Off(request.lines), LookedUp') = SumFunctionOnSet(Off(request.lines), LookedUp) + Off(request.lines)[next]
      /\ SumFunctionOnSet(GrossAsked, LookedUp')
           = SumFunctionOnSet(GrossAsked, LookedUp) + GrossAsked[next]
  <2>1. \A k \in 1..Len(request.lines) : Off(request.lines)[k] \in Int /\ GrossAsked[k] \in Int
    BY <1>1, AskedSums
  <2> QED BY <2>1, LookedUpLemma
<1>5. /\ Off(request.lines)[next] = Line.discount /\ GrossAsked[next] = Gross
  BY <1>1, <1>2, AskedSums
<1>6. LineDiscounts' = SumAt(LAMBDA l : l.discount, request.lines, LookedUp)'
  <2>1. LineDiscounts = SumFunctionOnSet(Off(request.lines), LookedUp)
    BY <1>1, AskedSums DEF PriceInv
  <2>2. SumAt(LAMBDA l : l.discount, request.lines, LookedUp)' = SumFunctionOnSet(Off(request.lines'), LookedUp')
    BY DEF SumAt, Off
  <2> QED BY <1>3, <1>4, <1>5, <2>1, <2>2
<1>7. changes' = 0 => /\ \A k \in LookedUp' : Admitted(request.lines[k])'
                      /\ Subtotal' = SumAt(GrossOf, request.lines, LookedUp)'
  <2> SUFFICES ASSUME changes = 0
               PROVE  /\ \A k \in LookedUp' : Admitted(request.lines[k])'
                      /\ Subtotal' = SumAt(GrossOf, request.lines, LookedUp)'
    OBVIOUS
  <2>1. Subtotal = SumFunctionOnSet(GrossAsked, LookedUp) /\ \A k \in LookedUp : Admitted(request.lines[k])
    BY <1>1, AskedSums DEF PriceInv
  <2>2. SumAt(GrossOf, request.lines, LookedUp)' = SumFunctionOnSet(GrossAsked', LookedUp')
    BY DEF SumAt, GrossAsked
  <2>3. \A k \in LookedUp' : Admitted(request.lines[k])
    BY <1>2, <1>4, <2>1
  <2>4. \A k \in LookedUp' : Admitted(request.lines[k])'
    BY <2>3 DEF Admitted, GrossOf
  <2> QED BY <1>3, <1>4, <1>5, <2>1, <2>2, <2>4
<1>8. PriceTypeOK'
  <2>1. next' \in 1..Len(request.lines) + 1
    BY <1>1, <1>2, AskedLemma
  <2>2. \A i \in DOMAIN priced' : priced'[i] \in PricedLines
    OBVIOUS
  <2> QED BY <2>1, <2>2 DEF PriceInv, PriceTypeOK, PricedLines
<1>9. outcome' = Pending
  BY DEF LineWaits
<1>10. PricesExactly' /\ outcome'.state # "priced"
  BY <1>9 DEF PricesExactly, Pending
<1> QED BY <1>6, <1>7, <1>8, <1>10 DEF PriceInv

\* One more line that names a variant, for the sums over those that do.
LEMMA OneMoreNamed ==
    ASSUME NEW asking \in Seq(Lines), NEW n \in Nat, n + 1 \in 1..Len(asking),
           NEW v, NEW f, \A k \in DOMAIN asking : f[k] \in Int
    PROVE  /\ asking[n + 1].variant # v => Naming(asking, n + 1, v) = Naming(asking, n, v)
           /\ asking[n + 1].variant = v =>
                 /\ Naming(asking, n + 1, v) # {}
                 /\ SumFunctionOnSet(f, Naming(asking, n + 1, v))
                      = SumFunctionOnSet(f, Naming(asking, n, v)) + f[n + 1]
           /\ SumFunctionOnSet(f, Naming(asking, n, v)) \in Int
<1> DEFINE S == Naming(asking, n, v)
<1>1. S \subseteq 1..n /\ IsFiniteSet(S) /\ n + 1 \notin S /\ \A k \in S \cup {n + 1} : f[k] \in Int
  <2>1. S \subseteq 1..n /\ n + 1 \notin S /\ \A k \in S \cup {n + 1} : f[k] \in Int
    BY DEF Naming
  <2>2. IsFiniteSet(1..n)
    <3>1. n \in Int
      OBVIOUS
    <3> QED BY ONLY <3>1, FS_Interval
  <2> HIDE DEF S
  <2> QED BY <2>1, <2>2, FS_Subset
<1>2. /\ asking[n + 1].variant # v => Naming(asking, n + 1, v) = S
      /\ asking[n + 1].variant = v => Naming(asking, n + 1, v) = S \cup {n + 1}
  BY DEF Naming
<1> HIDE DEF S
<1>3. SumFunctionOnSet(f, S \cup {n + 1}) = f[n + 1] + SumFunctionOnSet(f, S)
  BY <1>1, SumWith
<1>4. SumFunctionOnSet(f, S) \in Int /\ f[n + 1] \in Int
  BY <1>1, SumIsInt
<1>5. SumFunctionOnSet(f, S \cup {n + 1}) = SumFunctionOnSet(f, S) + f[n + 1] /\ S \cup {n + 1} # {}
  BY <1>3, <1>4
<1> QED BY ONLY <1>2, <1>4, <1>5 DEF S

\* A line of another variant is not touched by it.
LEMMA StillFolds ==
    ASSUME NEW asking \in Seq(Lines), NEW n \in Nat, n + 1 \in 1..Len(asking),
           NEW offers, NEW line, FoldsInto(asking, n, offers, line),
           line.variant # asking[n + 1].variant
    PROVE  FoldsInto(asking, n + 1, offers, line)
<1>1. Naming(asking, n + 1, line.variant) = Naming(asking, n, line.variant)
  BY DEF Naming
<1> QED BY <1>1 DEF FoldsInto

\* What requested lines have.
LEMMA AskedLine ==
    ASSUME NEW asking \in Seq(Lines), NEW k \in DOMAIN asking
    PROVE  /\ asking[k].variant \in Variants /\ asking[k].quantity \in Nat \ {0}
           /\ asking[k].discount \in Nat
           /\ Units(asking)[k] = asking[k].quantity /\ Off(asking)[k] = asking[k].discount
           /\ Units(asking)[k] \in Int /\ Off(asking)[k] \in Int
<1>1. asking[k] \in Lines
  OBVIOUS
<1>2. asking[k].variant \in Variants /\ asking[k].quantity \in Nat \ {0} /\ asking[k].discount \in Nat
  BY <1>1, AmountsAssumption DEF Lines
<1> QED BY <1>2 DEF Units, Off

\* The variants that are named.
LEMMA NamedLemma ==
    ASSUME NEW asking \in Seq(Lines), NEW n \in Nat, n + 1 \in 1..Len(asking)
    PROVE  {v \in Variants : Naming(asking, n + 1, v) # {}}
             = {v \in Variants : Naming(asking, n, v) # {}} \cup {asking[n + 1].variant}
<1>1. asking[n + 1].variant \in Variants
  BY AskedLine
<1> QED BY <1>1 DEF Naming

\* The first line of a variant is added to the priced ones.
LEMMA AddFolds ==
    ASSUME NEW asking \in Seq(Lines), NEW n \in Nat, n + 1 \in 1..Len(asking),
           NEW offers, NEW lines \in Seq(PricedLines), Folded(asking, n, offers, lines),
           NEW new \in PricedLines,
           new.variant = asking[n + 1].variant, new.quantity = asking[n + 1].quantity,
           new.discount = asking[n + 1].discount,
           new.total = new.unit * new.quantity - new.discount,
           \E row \in offers[new.variant] : row.active /\ row.price = new.unit,
           \A i \in DOMAIN lines : lines[i].variant # new.variant
    PROVE  Folded(asking, n + 1, offers, Append(lines, new))
<1> DEFINE more == Append(lines, new)
           m    == Len(lines)
           v    == new.variant
<1>1. /\ m \in Nat /\ DOMAIN lines = 1..m /\ DOMAIN more = 1..m + 1
      /\ \A i \in 1..m : more[i] = lines[i]
      /\ more[m + 1] = new
  OBVIOUS
<1> HIDE DEF more, m
<1>2. /\ {lines[i].variant : i \in 1..m} = {x \in Variants : Naming(asking, n, x) # {}}
      /\ \A i, j \in 1..m : lines[i].variant = lines[j].variant => i = j
      /\ \A i \in 1..m : FoldsInto(asking, n, offers, lines[i])
  BY <1>1 DEF Folded
<1>3. {more[i].variant : i \in 1..m + 1} = {x \in Variants : Naming(asking, n + 1, x) # {}}
  <2>1. {more[i].variant : i \in 1..m + 1} = {lines[i].variant : i \in 1..m} \cup {v}
    <3>1. \A i \in 1..m + 1 : i \in 1..m \/ i = m + 1
      BY <1>1
    <3>2. 1..m \subseteq 1..m + 1 /\ m + 1 \in 1..m + 1
      BY <1>1
    <3> QED BY <1>1, <3>1, <3>2
  <2>2. {x \in Variants : Naming(asking, n + 1, x) # {}}
          = {x \in Variants : Naming(asking, n, x) # {}} \cup {asking[n + 1].variant}
    BY NamedLemma
  <2> QED BY ONLY <1>2, <2>1, <2>2, new.variant = asking[n + 1].variant
<1>4. \A i, j \in 1..m + 1 : more[i].variant = more[j].variant => i = j
  <2>1. \A i \in 1..m + 1 : i \in 1..m \/ i = m + 1
    BY <1>1
  <2> QED BY <1>1, <1>2, <2>1
<1>5. FoldsInto(asking, n + 1, offers, new)
  <2>1. Naming(asking, n, v) = {}
    <3>1. v \in Variants /\ v \notin {lines[i].variant : i \in 1..m}
      BY <1>1 DEF PricedLines
    <3> QED BY <1>2, <3>1
  <2>2. \A f : SumFunctionOnSet(f, Naming(asking, n, v)) = 0
    BY <2>1, SumOfNone
  <2>3. \A k \in DOMAIN asking : Units(asking)[k] \in Int /\ Off(asking)[k] \in Int
    BY AskedLine
  <2>4. /\ SumFunctionOnSet(Units(asking), Naming(asking, n + 1, v)) = 0 + Units(asking)[n + 1]
        /\ SumFunctionOnSet(Off(asking), Naming(asking, n + 1, v)) = 0 + Off(asking)[n + 1]
    <3>1. asking[n + 1].variant = v
      OBVIOUS
    <3>2. ASSUME NEW f, \A k \in DOMAIN asking : f[k] \in Int
          PROVE  SumFunctionOnSet(f, Naming(asking, n + 1, v)) = 0 + f[n + 1]
      <4>1. SumFunctionOnSet(f, Naming(asking, n + 1, v)) = SumFunctionOnSet(f, Naming(asking, n, v)) + f[n + 1]
        BY <3>1, <3>2, OneMoreNamed
      <4> QED BY <2>2, <4>1
    <3> QED BY <2>3, <3>2
  <2>5. /\ Units(asking)[n + 1] = asking[n + 1].quantity /\ asking[n + 1].quantity \in Int
        /\ Off(asking)[n + 1] = asking[n + 1].discount /\ asking[n + 1].discount \in Int
    BY AskedLine
  <2> QED BY <2>4, <2>5 DEF FoldsInto
<1>6. \A i \in 1..m + 1 : FoldsInto(asking, n + 1, offers, more[i])
  <2>1. \A i \in 1..m + 1 : i \in 1..m \/ i = m + 1
    BY <1>1
  <2>2. \A i \in 1..m : FoldsInto(asking, n + 1, offers, lines[i])
    BY <1>1, <1>2, StillFolds
  <2> QED BY <1>1, <1>5, <2>1, <2>2
<1>7. Folded(asking, n + 1, offers, more)
  BY <1>1, <1>3, <1>4, <1>6 DEF Folded
<1> QED BY <1>7 DEF more

\* A further line of a variant is merged with the first.
LEMMA MergeFolds ==
    ASSUME NEW asking \in Seq(Lines), NEW n \in Nat, n + 1 \in 1..Len(asking),
           NEW offers, NEW lines \in Seq(PricedLines), Folded(asking, n, offers, lines),
           NEW i \in DOMAIN lines, lines[i].variant = asking[n + 1].variant,
           NEW new \in PricedLines,
           new.variant = lines[i].variant, new.unit = lines[i].unit,
           new.quantity = lines[i].quantity + asking[n + 1].quantity,
           new.discount = lines[i].discount + asking[n + 1].discount,
           new.total = new.unit * new.quantity - new.discount
    PROVE  Folded(asking, n + 1, offers, [lines EXCEPT ![i] = new])
<1> DEFINE merged == [lines EXCEPT ![i] = new]
           D == DOMAIN lines
           v == new.variant
<1>1. DOMAIN merged = D /\ merged[i] = new /\ \A j \in D : j # i => merged[j] = lines[j]
  OBVIOUS
<1> HIDE DEF merged
<1>2. /\ {lines[j].variant : j \in D} = {x \in Variants : Naming(asking, n, x) # {}}
      /\ \A j, k \in D : lines[j].variant = lines[k].variant => j = k
      /\ \A j \in D : FoldsInto(asking, n, offers, lines[j])
  BY DEF Folded
<1>3. \A j \in D : merged[j].variant = lines[j].variant
  BY <1>1
<1>4. {merged[j].variant : j \in D} = {x \in Variants : Naming(asking, n + 1, x) # {}}
  <2>1. {merged[j].variant : j \in D} = {lines[j].variant : j \in D}
    BY <1>3
  <2>2. asking[n + 1].variant \in {lines[j].variant : j \in D}
    OBVIOUS
  <2>3. {x \in Variants : Naming(asking, n + 1, x) # {}}
          = {x \in Variants : Naming(asking, n, x) # {}} \cup {asking[n + 1].variant}
    BY NamedLemma
  <2> QED BY ONLY <1>2, <2>1, <2>2, <2>3
<1>5. \A j, k \in D : merged[j].variant = merged[k].variant => j = k
  BY <1>2, <1>3
<1>6. FoldsInto(asking, n + 1, offers, new)
  <2>1. FoldsInto(asking, n, offers, lines[i])
    BY <1>2
  <2>2. \A k \in DOMAIN asking : Units(asking)[k] \in Int /\ Off(asking)[k] \in Int
    BY AskedLine
  <2>3. /\ SumFunctionOnSet(Units(asking), Naming(asking, n + 1, v))
             = SumFunctionOnSet(Units(asking), Naming(asking, n, v)) + Units(asking)[n + 1]
        /\ SumFunctionOnSet(Off(asking), Naming(asking, n + 1, v))
             = SumFunctionOnSet(Off(asking), Naming(asking, n, v)) + Off(asking)[n + 1]
    BY <2>2, OneMoreNamed
  <2>4. /\ Units(asking)[n + 1] = asking[n + 1].quantity
        /\ Off(asking)[n + 1] = asking[n + 1].discount
    BY AskedLine
  <2> QED BY <2>1, <2>3, <2>4 DEF FoldsInto
<1>7. \A j \in D : FoldsInto(asking, n + 1, offers, merged[j])
  <2>1. ASSUME NEW j \in D, j # i
        PROVE  FoldsInto(asking, n + 1, offers, lines[j])
    <3>1. lines[j].variant # asking[n + 1].variant
      BY <1>2, <2>1
    <3> QED BY <1>2, <3>1, StillFolds
  <2> QED BY <1>1, <1>6, <2>1
<1>8. Folded(asking, n + 1, offers, merged)
  BY <1>1, <1>4, <1>5, <1>7 DEF Folded
<1> QED BY <1>8 DEF merged

\* The first line of a variant.
LEMMA AddStep ==
    ASSUME PriceInv, AddLine
    PROVE  PriceInv'
<1> DEFINE m   == Len(priced)
           v   == Line.variant
           new == [variant |-> Line.variant, quantity |-> Line.quantity, unit |-> Offer.price,
                   discount |-> Line.discount, total |-> Gross - Line.discount]
           more == Append(priced, new)
<1>1. /\ LineWaits /\ ~LineRefusal /\ SameVariant = {} /\ priced' = more
      /\ next' = next + 1 /\ UNCHANGED <<catalogue, offered, changes, request, outcome>>
  BY DEF AddLine
<1>2. /\ request \in PriceRequests /\ priced \in Seq(PricedLines)
      /\ LinesFoldTheRequest /\ NegativeOnlyWhenDearer
  BY DEF PriceInv, PriceTypeOK
<1>3. /\ next \in 1..Len(request.lines) /\ next \in Nat \ {0} /\ Line = request.lines[next]
      /\ v \in Variants /\ Line.quantity \in Nat \ {0} /\ Line.discount \in Nat
      /\ Offer.price \in Prices /\ Offer.price \in Nat
      /\ Gross \in Nat /\ Offer \in offered[v] /\ Offer.active /\ Line.discount <= Gross
      /\ Gross = Offer.price * Line.quantity
  BY <1>1, NextLine DEF LineRefusal, Gross
<1>4. new \in PricedLines /\ new.total >= 0
  BY <1>3 DEF PricedLines
<1> HIDE DEF new
<1>5. /\ more \in Seq(PricedLines) /\ m \in Nat
      /\ DOMAIN priced = 1..m /\ DOMAIN more = 1..m + 1
      /\ \A i \in 1..m : more[i] = priced[i]
      /\ more[m + 1] = new
  BY <1>2, <1>4
<1> HIDE DEF m, more
<1>6. Folded(request.lines, next, offered, more)
  <2> DEFINE n == next - 1
             asking == request.lines
  <2>1. n \in Nat /\ n + 1 = next /\ asking \in Seq(Lines) /\ n + 1 \in 1..Len(asking)
    BY <1>2, <1>3, AskedLemma
  <2>2. Folded(asking, n, offered, priced)
    BY <1>2, FoldedLemma
  <2>3. /\ new.variant = asking[n + 1].variant /\ new.quantity = asking[n + 1].quantity
        /\ new.discount = asking[n + 1].discount
        /\ new.total = new.unit * new.quantity - new.discount
        /\ \E row \in offered[new.variant] : row.active /\ row.price = new.unit
    BY <1>3, <2>1 DEF new
  <2>4. \A i \in DOMAIN priced : priced[i].variant # new.variant
    BY <1>1 DEF SameVariant, new
  <2> HIDE DEF n, asking
  <2>5. Folded(asking, n + 1, offered, Append(priced, new))
    BY <1>2, <1>4, <2>1, <2>2, <2>3, <2>4, AddFolds
  <2> QED BY <2>1, <2>5 DEF asking, more
<1>7. LinesFoldTheRequest'
  <2>1. (next + 1) - 1 = next
    BY <1>3
  <2>2. Folded(request.lines', next' - 1, offered', priced')
    BY <1>1, <1>6, <2>1
  <2> QED BY <2>2, FoldedNext
<1>8. NegativeOnlyWhenDearer'
  <2>1. \A i \in 1..m + 1 : i \in 1..m \/ i = m + 1
    BY <1>5
  <2>2. \A i \in 1..m + 1 : more[i].total < 0 =>
           \E row \in offered[more[i].variant] : row.price > more[i].unit
    <3>1. ~(new.total < 0)
      BY <1>4 DEF PricedLines
    <3>2. \A i \in 1..m : priced[i].total < 0 =>
             \E row \in offered[priced[i].variant] : row.price > priced[i].unit
      BY <1>2, <1>5 DEF NegativeOnlyWhenDearer
    <3> QED BY <1>5, <2>1, <3>1, <3>2
  <2> QED BY <1>1, <1>5, <2>2 DEF NegativeOnlyWhenDearer
<1>9. /\ LineDiscounts' = LineDiscounts + Line.discount
      /\ Subtotal' = Subtotal + Gross
  <2>1. /\ Subtotal = SumFunctionOnSet(Worth(priced), 1..m)
        /\ LineDiscounts = SumFunctionOnSet(Off(priced), 1..m)
        /\ \A i \in 1..m : Worth(priced)[i] \in Int /\ Off(priced)[i] \in Nat
    BY <1>2, <1>5, PricedSums
  <2>2. /\ Subtotal' = SumFunctionOnSet(Worth(more), 1..m + 1)
        /\ LineDiscounts' = SumFunctionOnSet(Off(more), 1..m + 1)
    BY <1>1, <1>5 DEF Subtotal, LineDiscounts, SumOf, SumAt, Worth, Off
  <2>3. /\ \A i \in 1..m : Worth(more)[i] = Worth(priced)[i] /\ Off(more)[i] = Off(priced)[i]
        /\ Worth(more)[m + 1] = Gross /\ Off(more)[m + 1] = Line.discount
    <3>1. \A i \in 1..m : i \in 1..m + 1
      BY <1>5
    <3>2. m + 1 \in 1..m + 1
      BY <1>5
    <3> QED BY <1>3, <1>5, <3>1, <3>2 DEF Worth, Off, new
  <2>4. ASSUME NEW f, NEW g, NEW x \in Nat, \A i \in 1..m : f[i] \in Int /\ g[i] = f[i], g[m + 1] = x
        PROVE  SumFunctionOnSet(g, 1..m + 1) = SumFunctionOnSet(f, 1..m) + x
    <3>1. m \in Nat /\ g[m + 1] \in Int /\ \A i \in 1..m : f[i] \in Int /\ g[i] = f[i]
      BY <1>5, <2>4
    <3>2. SumFunctionOnSet(g, 1..m + 1) = SumFunctionOnSet(f, 1..m) + g[m + 1]
      BY ONLY <3>1, SumLonger
    <3> QED BY <2>4, <3>2
  <2>5. SumFunctionOnSet(Worth(more), 1..m + 1) = SumFunctionOnSet(Worth(priced), 1..m) + Gross
    BY <1>3, <2>1, <2>3, <2>4
  <2>6. SumFunctionOnSet(Off(more), 1..m + 1) = SumFunctionOnSet(Off(priced), 1..m) + Line.discount
    BY <1>3, <2>1, <2>3, <2>4
  <2> QED BY <2>1, <2>2, <2>5, <2>6
<1> QED BY <1>1, <1>5, <1>7, <1>8, <1>9, LookUpStep

\* Arithmetic of a merge.
LEMMA MergedAmount ==
    ASSUME NEW u \in Nat, NEW q \in Nat, NEW r \in Nat, NEW d \in Nat, NEW e \in Nat, NEW p \in Nat
    PROVE  /\ u * (q + r) = u * q + u * r
           /\ u * (q + r) - (d + e) = (u * q - d) + (u * r - e)
           /\ p <= u => p * r <= u * r
<1>1. u * (q + r) = u * q + u * r /\ u * q \in Int /\ u * r \in Int
  OBVIOUS
<1>2. p <= u => p * r <= u * r
  OBVIOUS
<1> QED BY <1>1, <1>2

\* A further line of a variant.
LEMMA MergeStep ==
    ASSUME PriceInv, MergeLine
    PROVE  PriceInv'
<1>1. /\ LineWaits /\ ~LineRefusal
      /\ next' = next + 1 /\ UNCHANGED <<catalogue, offered, changes, request, outcome>>
  BY DEF MergeLine
<1>2. PICK i \in SameVariant : priced' = [priced EXCEPT ![i] = Merged(priced[i])]
  BY DEF MergeLine
<1> DEFINE new    == Merged(priced[i])
           old    == priced[i]
           merged == [priced EXCEPT ![i] = new]
           v      == Line.variant
           D      == DOMAIN priced
<1>3. /\ request \in PriceRequests /\ priced \in Seq(PricedLines) /\ catalogue \in [Variants -> Offers]
      /\ LinesFoldTheRequest /\ NegativeOnlyWhenDearer
  BY DEF PriceInv, PriceTypeOK
<1>4. /\ next \in 1..Len(request.lines) /\ next \in Nat \ {0} /\ Line = request.lines[next]
      /\ v \in Variants /\ Line.quantity \in Nat \ {0} /\ Line.discount \in Nat
      /\ Offer.price \in Nat /\ Gross \in Nat /\ Offer \in offered[v] /\ Line.discount <= Gross
      /\ Gross = Offer.price * Line.quantity
  BY <1>1, NextLine DEF LineRefusal, Gross
<1>5. /\ i \in D /\ old.variant = v
      /\ old \in PricedLines /\ old.quantity \in Nat \ {0} /\ old.unit \in Prices /\ old.unit \in Nat
      /\ old.discount \in Nat /\ old.total \in Int
  BY <1>3, PricedSums DEF SameVariant
<1>6. new = [variant |-> v, quantity |-> old.quantity + Line.quantity, unit |-> old.unit,
             discount |-> old.discount + Line.discount,
             total |-> old.unit * (old.quantity + Line.quantity) - (old.discount + Line.discount)]
  <2> DEFINE q   == old.quantity + Line.quantity
             d   == old.discount + Line.discount
             t   == old.unit * q - d
             one == [old EXCEPT !.quantity = q]
             two == [one EXCEPT !.discount = d]
             all == [two EXCEPT !.total = t]
  <2>1. new = [old EXCEPT !.quantity = q, !.discount = d, !.total = t]
    BY DEF Merged
  <2> HIDE DEF new, old, q, d, t
  <2>2. one = [variant |-> v, quantity |-> q, unit |-> old.unit, discount |-> old.discount,
               total |-> old.total]
    BY <1>5 DEF PricedLines
  <2>3. [old EXCEPT !.quantity = q, !.discount = d, !.total = t] = all
    BY DEF all, two, one
  <2> HIDE DEF one
  <2>4. two = [variant |-> v, quantity |-> q, unit |-> old.unit, discount |-> d, total |-> old.total]
    BY <2>2
  <2> HIDE DEF two
  <2>5. all = [variant |-> v, quantity |-> q, unit |-> old.unit, discount |-> d, total |-> t]
    BY <2>4
  <2> QED BY <2>1, <2>3, <2>5 DEF q, d, t
<1> HIDE DEF new, old
<1>7. new \in PricedLines
  <2>1. /\ old.quantity + Line.quantity \in Nat \ {0} /\ old.discount + Line.discount \in Nat
    <3>1. /\ old.quantity \in Nat /\ old.quantity > 0 /\ Line.quantity \in Nat /\ Line.quantity > 0
          /\ old.discount \in Nat /\ Line.discount \in Nat
      BY <1>4, <1>5
    <3>2. \A x, y \in Nat : x > 0 /\ y > 0 => x + y \in Nat \ {0}
      OBVIOUS
    <3>3. \A x, y \in Nat : x + y \in Nat
      OBVIOUS
    <3> QED BY ONLY <3>1, <3>2, <3>3
  <2>2. old.unit * (old.quantity + Line.quantity) - (old.discount + Line.discount) \in Int
    BY <1>5, <2>1
  <2> QED BY <1>4, <1>5, <1>6, <2>1, <2>2 DEF PricedLines
<1>8. /\ merged \in Seq(PricedLines) /\ DOMAIN merged = D
      /\ merged[i] = new /\ \A j \in D \ {i} : merged[j] = priced[j]
      /\ priced' = merged
  BY <1>2, <1>3, <1>5, <1>7 DEF new
<1>9. Folded(request.lines, next, offered, merged)
  <2> DEFINE n == next - 1
             asking == request.lines
  <2>1. n \in Nat /\ n + 1 = next /\ asking \in Seq(Lines) /\ n + 1 \in 1..Len(asking)
    BY <1>3, <1>4, AskedLemma
  <2>2. Folded(asking, n, offered, priced)
    BY <1>3, FoldedLemma
  <2>3. /\ priced[i].variant = asking[n + 1].variant
        /\ new.variant = priced[i].variant /\ new.unit = priced[i].unit
        /\ new.quantity = priced[i].quantity + asking[n + 1].quantity
        /\ new.discount = priced[i].discount + asking[n + 1].discount
        /\ new.total = new.unit * new.quantity - new.discount
    BY <1>4, <1>5, <1>6, <2>1 DEF old
  <2> HIDE DEF n, asking
  <2>4. Folded(asking, n + 1, offered, merged)
    BY <1>3, <1>5, <1>7, <2>1, <2>2, <2>3, MergeFolds
  <2> QED BY <2>1, <2>4 DEF asking
<1> HIDE DEF merged
<1>10. LinesFoldTheRequest'
  <2>1. (next + 1) - 1 = next
    BY <1>4
  <2>2. Folded(request.lines', next' - 1, offered', priced')
    BY <1>1, <1>8, <1>9, <2>1
  <2> QED BY <2>2, FoldedNext
<1>11. /\ new.unit * new.quantity = old.unit * old.quantity + old.unit * Line.quantity
       /\ new.total = (old.unit * old.quantity - old.discount)
                        + (old.unit * Line.quantity - Line.discount)
       /\ Offer.price <= old.unit => Gross <= old.unit * Line.quantity
  <2> DEFINE u == old.unit
             q == old.quantity
             r == Line.quantity
             d == old.discount
             e == Line.discount
             p == Offer.price
  <2>1. u \in Nat /\ q \in Nat /\ r \in Nat /\ d \in Nat /\ e \in Nat /\ p \in Nat
    BY <1>4, <1>5
  <2>2. /\ new.unit = u /\ new.quantity = q + r /\ new.total = u * (q + r) - (d + e)
        /\ Gross = p * r
    BY <1>4, <1>6
  <2> HIDE DEF u, q, r, d, e, p
  <2>3. /\ u * (q + r) = u * q + u * r
        /\ u * (q + r) - (d + e) = (u * q - d) + (u * r - e)
        /\ p <= u => p * r <= u * r
    BY ONLY <2>1, MergedAmount
  <2> QED BY ONLY <2>2, <2>3 DEF u, q, r, d, e, p
<1>12. old.total = old.unit * old.quantity - old.discount
  BY <1>3, <1>5, FoldedLemma DEF Folded, FoldsInto, old
<1>13. NegativeOnlyWhenDearer'
  <2>1. new.total < 0 => \E row \in offered[v] : row.price > old.unit
    <3>1. CASE Offer.price > old.unit
      BY <1>4, <3>1
    <3>2. CASE ~(Offer.price > old.unit)
      <4>1. /\ old.unit * old.quantity - old.discount \in Int
            /\ old.unit * Line.quantity \in Int
        BY <1>4, <1>5
      <4>2. new.total < 0 => old.total < 0
        BY <1>4, <1>5, <1>11, <1>12, <3>2, <4>1
      <4> QED BY <1>3, <1>5, <4>2 DEF NegativeOnlyWhenDearer, old
    <3> QED BY <3>1, <3>2
  <2>2. \A j \in D : merged[j].total < 0 =>
           \E row \in offered[merged[j].variant] : row.price > merged[j].unit
    BY <1>3, <1>6, <1>8, <2>1 DEF NegativeOnlyWhenDearer
  <2> QED BY <1>1, <1>8, <2>2 DEF NegativeOnlyWhenDearer
<1>14. /\ Worth(priced)' = Worth(merged) /\ Off(priced)' = Off(merged)
       /\ Subtotal' = SumFunctionOnSet(Worth(merged), D)
       /\ LineDiscounts' = SumFunctionOnSet(Off(merged), D)
  BY <1>8 DEF Subtotal, LineDiscounts, SumOf, SumAt, Worth, Off
<1>15. /\ Subtotal = SumFunctionOnSet(Worth(priced), D) /\ Subtotal \in Int
       /\ LineDiscounts = SumFunctionOnSet(Off(priced), D) /\ LineDiscounts \in Int
       /\ IsFiniteSet(D)
       /\ \A j \in D : Worth(priced)[j] \in Int /\ Off(priced)[j] \in Nat
  BY <1>3, PricedSums
<1>16. /\ \A j \in D \ {i} : Worth(merged)[j] = Worth(priced)[j] /\ Off(merged)[j] = Off(priced)[j]
       /\ Worth(merged)[i] = new.unit * new.quantity /\ Off(merged)[i] = new.discount
       /\ Worth(priced)[i] = old.unit * old.quantity /\ Off(priced)[i] = old.discount
  BY <1>5, <1>8 DEF Worth, Off, old
<1>17. LineDiscounts' = LineDiscounts + Line.discount
  <2>1. /\ \A j \in D : Off(priced)[j] \in Int /\ Off(merged)[j] \in Int
        /\ \A j \in D \ {i} : Off(merged)[j] = Off(priced)[j]
    <3>1. Off(merged)[i] \in Int /\ \A j \in D : Off(priced)[j] \in Int
      BY <1>4, <1>5, <1>6, <1>15, <1>16
    <3> QED BY <1>16, <3>1
  <2>2. SumFunctionOnSet(Off(merged), D)
          = SumFunctionOnSet(Off(priced), D) + (Off(merged)[i] - Off(priced)[i])
    BY <1>5, <1>15, <2>1, SumChange
  <2>3. Off(merged)[i] - Off(priced)[i] = Line.discount
    BY <1>4, <1>5, <1>6, <1>16
  <2> QED BY <1>14, <1>15, <2>2, <2>3
<1>18. changes = 0 => Subtotal' = Subtotal + Gross
  <2> SUFFICES ASSUME changes = 0
               PROVE  Subtotal' = Subtotal + Gross
    OBVIOUS
  <2>1. old.unit = Offer.price
    <3>1. offered[v] = {Offer}
      BY <1>4 DEF PriceInv, Offer
    <3>2. FoldsInto(request.lines, next - 1, offered, priced[i])
      BY <1>3, <1>5, FoldedLemma DEF Folded
    <3>3. \E row \in offered[v] : row.price = old.unit
      BY <1>5, <3>2 DEF FoldsInto, old
    <3> QED BY <3>1, <3>3
  <2>2. old.unit * Line.quantity = Gross
    BY <1>4, <2>1
  <2>3. /\ \A j \in D : Worth(priced)[j] \in Int /\ Worth(merged)[j] \in Int
        /\ \A j \in D \ {i} : Worth(merged)[j] = Worth(priced)[j]
        /\ old.unit * old.quantity \in Int
    <3>1. old.unit * old.quantity \in Int
      <4> DEFINE u == old.unit
                 q == old.quantity
      <4>1. u \in Nat /\ q \in Nat
        BY <1>5
      <4> HIDE DEF u, q
      <4>2. u * q \in Int
        BY ONLY <4>1
      <4> QED BY <4>2 DEF u, q
    <3>2. old.unit * old.quantity + Gross \in Int
      BY <1>4, <3>1
    <3>3. Worth(merged)[i] \in Int
      BY <1>11, <1>16, <2>2, <3>2
    <3>4. \A j \in D : Worth(merged)[j] \in Int
      BY <1>15, <1>16, <3>3
    <3> QED BY <1>15, <1>16, <3>1, <3>4
  <2>4. SumFunctionOnSet(Worth(merged), D)
          = SumFunctionOnSet(Worth(priced), D) + (Worth(merged)[i] - Worth(priced)[i])
    BY <1>5, <1>15, <2>3, SumChange
  <2>5. Worth(merged)[i] - Worth(priced)[i] = Gross
    BY <1>4, <1>11, <1>16, <2>2, <2>3
  <2> QED BY <1>14, <1>15, <2>4, <2>5
<1> QED BY <1>1, <1>8, <1>10, <1>13, <1>17, <1>18, LookUpStep

\* A whole number at most half a one away from a share is within what is shared.
LEMMA NearLemma ==
    ASSUME NEW whole \in Nat \ {0}, NEW amount \in Int, NEW value \in 0..whole, NEW s \in Int,
           2 * (whole * s) - whole <= 2 * (amount * value),
           2 * (amount * value) <= 2 * (whole * s) + whole
    PROVE  /\ amount >= 0 => s \in 0..amount
           /\ amount < 0 => s >= amount
<1> DEFINE x == amount * value
           y == whole * s
           z == whole * amount
<1>1. x \in Int /\ y \in Int /\ z \in Int
  OBVIOUS
<1>2. /\ amount >= 0 => x >= 0 /\ x <= z
      /\ amount < 0 => x >= z
  OBVIOUS
<1>3. /\ s < 0 => y <= -whole
      /\ s > amount => y >= z + whole
      /\ s < amount => y <= z - whole
  OBVIOUS
<1>4. 2 * y - whole <= 2 * x /\ 2 * x <= 2 * y + whole
  OBVIOUS
<1> HIDE DEF x, y, z
<1> QED BY <1>1, <1>2, <1>3, <1>4

\* A share is a nearest cent of it, and no more than the whole.
LEMMA ShareLemma ==
    ASSUME NEW amount \in Int, NEW value \in 0..100 * Scale, NEW s \in Shares(amount, value)
    PROVE  LET whole == 100 * Scale
           IN  /\ s \in Int
               /\ 2 * whole * s - whole <= 2 * amount * value
               /\ 2 * amount * value <= 2 * whole * s + whole
               /\ HeldExactly(value) => 2 * amount * value # 2 * whole * s + whole
               /\ amount >= 0 => s \in 0..amount
               /\ amount < 0 => s >= amount
<1> DEFINE whole == 100 * Scale
           x == amount * value
           h == (2 * amount * value + whole) \div (2 * whole)
           half == 2 * amount * value + whole = 2 * whole * h
<1>1. whole \in Nat \ {0} /\ value \in 0..whole
  BY AmountsAssumption
<1>2. s = h \/ (half /\ ~HeldExactly(value) /\ s = h - 1)
  BY DEF Shares
<1> HIDE DEF whole
<1>3. value \in Int /\ whole \in Int
  BY <1>1
<1>4. x \in Int /\ 2 * amount * value = 2 * x
  BY <1>3
<1>5. h = (2 * x + whole) \div (2 * whole) /\ 2 * whole \in Nat \ {0} /\ 2 * x + whole \in Int
  BY <1>1, <1>3, <1>4
<1> HIDE DEF h
<1>6. half <=> 2 * x + whole = (2 * whole) * h
  BY <1>4
<1> HIDE DEF x, half
<1>7. h \in Int /\ (2 * whole) * h <= 2 * x + whole /\ 2 * x + whole < (2 * whole) * h + 2 * whole
  BY <1>5, DivLemma
<1>8. s \in Int
  BY <1>2, <1>7
<1> DEFINE y == whole * s
           u == whole * h
<1>9. /\ y \in Int /\ u \in Int /\ 2 * whole * s = 2 * y /\ (2 * whole) * h = 2 * u
      /\ s = h => y = u
      /\ s = h - 1 => y = u - whole
  BY <1>3, <1>7, <1>8
<1> HIDE DEF y, u
<1>10. /\ 2 * y - whole <= 2 * x /\ 2 * x <= 2 * y + whole
       /\ HeldExactly(value) => 2 * x # 2 * y + whole
  <2>1. CASE s = h
    BY <1>1, <1>3, <1>4, <1>7, <1>9, <2>1
  <2>2. CASE half /\ ~HeldExactly(value) /\ s = h - 1
    BY <1>1, <1>3, <1>4, <1>6, <1>7, <1>9, <2>2
  <2> QED BY <1>2, <2>1, <2>2
<1>11. /\ amount >= 0 => s \in 0..amount
       /\ amount < 0 => s >= amount
  BY <1>1, <1>8, <1>10, NearLemma DEF x, y
<1> QED BY <1>4, <1>8, <1>9, <1>10, <1>11 DEF whole

LEMMA PriceInitially == PriceInit => PriceInv
<1> SUFFICES ASSUME PriceInit
             PROVE  PriceInv
  OBVIOUS
<1>1. /\ priced = << >> /\ next = 1 /\ outcome = Pending /\ changes = 0
      /\ request \in PriceRequests /\ catalogue \in [Variants -> Offers]
      /\ offered = [v \in Variants |-> {catalogue[v]}]
  BY DEF PriceInit
<1>2. priced \in Seq(PricedLines) /\ DOMAIN priced = {} /\ LookedUp = {} /\ \A v : Asked(v) = {}
  BY <1>1 DEF LookedUp, Asked
<1>3. PriceTypeOK
  <2>1. next \in 1..Len(request.lines) + 1 /\ changes \in 0..MaxChanges
    BY <1>1, AskedLemma, AmountsAssumption
  <2> QED BY <1>1, <1>2, <2>1 DEF PriceTypeOK
<1>4. LinesFoldTheRequest /\ NegativeOnlyWhenDearer
  BY <1>2 DEF LinesFoldTheRequest, NegativeOnlyWhenDearer
<1>5. Subtotal = 0 /\ LineDiscounts = 0
  BY <1>2, SumOfNone DEF Subtotal, LineDiscounts, SumOf, SumAt
<1>6. SumAt(LAMBDA l : l.discount, request.lines, LookedUp) = 0 /\ SumAt(GrossOf, request.lines, LookedUp) = 0
  BY <1>2, SumOfNone DEF SumAt
<1>7. PricesExactly /\ outcome.state # "priced"
  BY <1>1 DEF PricesExactly, Pending
<1> QED BY <1>1, <1>2, <1>3, <1>4, <1>5, <1>6, <1>7 DEF PriceInv

\* A line is refused as the catalogue stands.
LEMMA RefuseStep ==
    ASSUME PriceInv, RefuseLine
    PROVE  PriceInv'
<1>1. /\ LineWaits /\ LineRefusal
      /\ outcome' = Refused(IF Offer.active THEN "DISCOUNT_TOO_LARGE" ELSE "VARIANT_INACTIVE")
      /\ UNCHANGED <<catalogue, offered, changes, request, next, priced>>
  BY DEF RefuseLine
<1>2. outcome' \in [state : {"refused"}, code : Refusals] /\ outcome'.state = "refused"
  BY <1>1 DEF Refused, Refusals
<1>3. PriceTypeOK'
  BY <1>1, <1>2 DEF PriceInv, PriceTypeOK
<1>4. Admissible' = FALSE
  <2>1. next \in 1..Len(request.lines) /\ Line = request.lines[next] /\ ~Admitted(Line)
    BY <1>1, NextLine
  <2>2. next \in DOMAIN request.lines
    BY <2>1, AskedLemma DEF PriceInv, PriceTypeOK
  <2> QED BY <1>1, <2>1, <2>2 DEF Admissible, Asking, Admitted, GrossOf
<1>5. PricesExactly'
  BY <1>2, <1>4 DEF PricesExactly
<1>6. (LinesFoldTheRequest /\ NegativeOnlyWhenDearer)'
  BY <1>1, FoldedLemma, FoldedNext DEF PriceInv, NegativeOnlyWhenDearer
<1>7. /\ LineDiscounts' = LineDiscounts /\ Subtotal' = Subtotal /\ LookedUp' = LookedUp
      /\ SumAt(LAMBDA l : l.discount, request.lines, LookedUp)'
           = SumAt(LAMBDA l : l.discount, request.lines, LookedUp)
      /\ SumAt(GrossOf, request.lines, LookedUp)' = SumAt(GrossOf, request.lines, LookedUp)
      /\ \A k : Admitted(request.lines[k])' <=> Admitted(request.lines[k])
  BY <1>1 DEF LineDiscounts, Subtotal, LookedUp, SumOf, SumAt, GrossOf, Admitted
<1> QED BY <1>1, <1>2, <1>3, <1>5, <1>6, <1>7 DEF PriceInv

\* The catalogue is changed meanwhile.
LEMMA ChangeStep ==
    ASSUME PriceInv, NEW v \in Variants, NEW row \in Offers, Change(v, row)
    PROVE  PriceInv'
<1>1. /\ changes < MaxChanges /\ changes' = changes + 1
      /\ catalogue' = [catalogue EXCEPT ![v] = row]
      /\ offered' = [offered EXCEPT ![v] = @ \cup {row}]
      /\ UNCHANGED <<request, next, priced, outcome>>
  BY DEF Change
<1>2. /\ catalogue \in [Variants -> Offers] /\ offered \in [Variants -> SUBSET Offers]
      /\ changes \in 0..MaxChanges /\ priced \in Seq(PricedLines)
  BY DEF PriceInv, PriceTypeOK
<1>3. /\ \A x \in Variants : offered[x] \subseteq offered'[x] /\ catalogue'[x] \in offered'[x]
      /\ catalogue' \in [Variants -> Offers] /\ offered' \in [Variants -> SUBSET Offers]
      /\ changes' \in 0..MaxChanges /\ changes' # 0
  <2>1. catalogue' \in [Variants -> Offers] /\ offered' \in [Variants -> SUBSET Offers]
    BY <1>1, <1>2
  <2>2. \A x \in Variants : offered[x] \subseteq offered'[x] /\ catalogue'[x] \in offered'[x]
    BY <1>1, <1>2 DEF PriceInv
  <2>3. changes' \in 0..MaxChanges /\ changes' # 0
    BY <1>1, <1>2, AmountsAssumption
  <2> QED BY <2>1, <2>2, <2>3
<1>4. \A i \in DOMAIN priced : priced[i].variant \in Variants
  BY <1>2, PricedSums
<1>5. LinesFoldTheRequest'
  <2>1. Folded(request.lines, next - 1, offered, priced)
    BY FoldedLemma DEF PriceInv
  <2>2. Folded(request.lines, next - 1, offered', priced)
    BY <1>3, <1>4, <2>1 DEF Folded, FoldsInto
  <2> QED BY <1>1, <2>2, FoldedNext
<1>6. NegativeOnlyWhenDearer'
  <2>1. NegativeOnlyWhenDearer
    BY DEF PriceInv
  <2> QED BY <1>1, <1>3, <1>4, <2>1 DEF NegativeOnlyWhenDearer
<1>7. PriceTypeOK'
  BY <1>1, <1>3 DEF PriceInv, PriceTypeOK
<1>8. /\ LineDiscounts' = LineDiscounts /\ Subtotal' = Subtotal /\ HeaderDiscounts' = HeaderDiscounts
      /\ SumAt(LAMBDA l : l.discount, request.lines, LookedUp)'
           = SumAt(LAMBDA l : l.discount, request.lines, LookedUp)
  BY <1>1 DEF LineDiscounts, Subtotal, HeaderDiscounts, LookedUp, SumOf, SumAt
<1>9. PricesExactly'
  BY <1>3 DEF PricesExactly
<1> QED BY <1>1, <1>2, <1>3, <1>5, <1>6, <1>7, <1>8, <1>9 DEF PriceInv

\* The discounts are not more than what they are taken off, while the
\* catalogue stands still.
LEMMA HeaderLemma ==
    ASSUME PriceInv, NEW header \in HeaderDiscounts
    PROVE  /\ header \in Int
           /\ request.header.kind = "amount" => header = request.header.value /\ header \in Nat
           /\ request.header.kind \in {"percent", "amount"}
           /\ request.header.kind = "percent" =>
                 /\ request.header.value \in 0..100 * Scale
                 /\ header \in Shares(Subtotal - LineDiscounts, request.header.value)
<1>1. request.header \in Headers
  BY AskedLemma DEF PriceInv, PriceTypeOK
<1>2. Subtotal - LineDiscounts \in Int
  BY PricedSums DEF PriceInv
<1>3. CASE request.header.kind = "percent"
  <2>1. request.header.value \in 0..100 * Scale
    BY <1>1, <1>3, AmountsAssumption
  <2>2. header \in Shares(Subtotal - LineDiscounts, request.header.value)
    BY <1>3 DEF HeaderDiscounts
  <2>3. header \in Int
    BY <1>2, <2>1, <2>2, ShareLemma
  <2> QED BY <1>3, <2>1, <2>2, <2>3
<1>4. CASE request.header.kind # "percent"
  <2>1. request.header.kind = "amount" /\ request.header.value \in Nat
    BY <1>1, <1>4, AmountsAssumption
  <2>2. header = request.header.value
    BY <1>4 DEF HeaderDiscounts
  <2> QED BY <2>1, <2>2
<1> QED BY <1>3, <1>4

\* What is admissible leaves a total, and a discount, of at least nothing.
LEMMA TotalsLemma ==
    ASSUME PriceInv, NEW header \in HeaderDiscounts, ~TooLarge(header)
    PROVE  [state |-> "priced", subtotal |-> Subtotal, discount |-> LineDiscounts + header,
            total |-> Subtotal - (LineDiscounts + header)] \in Totals
<1>1. priced \in Seq(PricedLines)
  BY DEF PriceInv
<1>2. Subtotal \in Nat /\ LineDiscounts \in Nat
  <2>1. \A i \in DOMAIN priced : Worth(priced)[i] \in Nat /\ Off(priced)[i] \in Nat
    <3>1. ASSUME NEW i \in DOMAIN priced
          PROVE  Worth(priced)[i] \in Nat /\ Off(priced)[i] \in Nat
      <4>1. priced[i].unit \in Nat /\ priced[i].quantity \in Nat
        BY <1>1, PricedSums
      <4>2. priced[i].unit * priced[i].quantity \in Nat
        BY <4>1
      <4> QED BY <1>1, <4>2, PricedSums
    <3> QED BY <3>1
  <2>2. IsFiniteSet(DOMAIN priced)
    BY <1>1, PricedSums
  <2>3. SumFunctionOnSet(Worth(priced), DOMAIN priced) \in Nat /\ SumFunctionOnSet(Off(priced), DOMAIN priced) \in Nat
    BY <2>1, <2>2, SumIsNat
  <2> QED BY <1>1, <2>3, PricedSums
<1>3. /\ header \in Int
      /\ request.header.kind = "amount" => header \in Nat
      /\ request.header.kind \in {"percent", "amount"}
      /\ request.header.kind = "percent" =>
            /\ request.header.value \in 0..100 * Scale
            /\ header \in Shares(Subtotal - LineDiscounts, request.header.value)
  BY HeaderLemma
<1>4. LineDiscounts + header \in Nat /\ Subtotal - (LineDiscounts + header) \in Nat
  <2>1. LineDiscounts + header <= Subtotal
    BY <1>2, <1>3 DEF TooLarge
  <2>2. LineDiscounts + header >= 0
    <3>1. CASE request.header.kind = "amount"
      BY <1>2, <1>3, <3>1
    <3>2. CASE request.header.kind = "percent"
      <4> DEFINE net == Subtotal - LineDiscounts
      <4>1. net \in Int
        BY <1>2
      <4>2. /\ net >= 0 => header \in 0..net
            /\ net < 0 => header >= net
        BY <1>3, <3>2, <4>1, ShareLemma
      <4> QED BY <1>2, <1>3, <3>2, <4>1, <4>2
    <3> QED BY <1>3, <3>1, <3>2
  <2> QED BY <1>2, <1>3, <2>1, <2>2
<1> QED BY <1>2, <1>4 DEF Totals

\* While the catalogue stands still, the sums of the priced lines are those of
\* the lines asked for.
LEMMA StandsStill ==
    ASSUME PriceInv, changes = 0, outcome = Pending, next > Len(request.lines)
    PROVE  /\ Subtotal = FullGross /\ Subtotal - LineDiscounts = Net
           /\ Subtotal \in Int /\ LineDiscounts \in Int /\ LineDiscounts <= Subtotal
           /\ \A k \in DOMAIN Asking : /\ catalogue[Asking[k].variant].active
                                       /\ Asking[k].discount <= GrossOf(Asking[k])
<1>1. request \in PriceRequests /\ catalogue \in [Variants -> Offers] /\ next \in 1..Len(request.lines) + 1
  BY DEF PriceInv, PriceTypeOK
<1>2. Len(request.lines) \in Nat /\ DOMAIN request.lines = 1..Len(request.lines)
  BY <1>1, AskedLemma
<1>3. LookedUp = 1..Len(request.lines) /\ LookedUp = DOMAIN request.lines
  BY <1>1, <1>2 DEF LookedUp
<1>4. \A k \in LookedUp : Admitted(request.lines[k])
  BY DEF PriceInv
<1>5. /\ Subtotal = SumAt(GrossOf, request.lines, LookedUp)
      /\ LineDiscounts = SumAt(LAMBDA l : l.discount, request.lines, LookedUp)
  BY DEF PriceInv
<1>6. Subtotal = FullGross /\ Subtotal - LineDiscounts = Net
  BY <1>3, <1>5 DEF FullGross, Net, SumOf, Asking
<1>7. /\ Subtotal = SumFunctionOnSet(GrossAsked, LookedUp)
      /\ LineDiscounts = SumFunctionOnSet(Off(request.lines), LookedUp)
  BY <1>1, <1>5, AskedSums
<1>8. \A k \in LookedUp : /\ Off(request.lines)[k] \in Int /\ GrossAsked[k] \in Int
                          /\ Off(request.lines)[k] <= GrossAsked[k]
  <2>1. ASSUME NEW k \in LookedUp
        PROVE  /\ Off(request.lines)[k] \in Int /\ GrossAsked[k] \in Int
               /\ Off(request.lines)[k] <= GrossAsked[k]
    <3>1. k \in 1..Len(request.lines)
      BY <1>3
    <3>2. /\ Off(request.lines)[k] = request.lines[k].discount /\ Off(request.lines)[k] \in Int
          /\ GrossAsked[k] = GrossOf(request.lines[k]) /\ GrossAsked[k] \in Int
      BY <1>1, <3>1, AskedSums
    <3> QED BY <1>4, <3>2 DEF Admitted
  <2> QED BY <2>1
<1>9. IsFiniteSet(LookedUp)
  BY <1>2, <1>3, FS_Interval
<1>10. LineDiscounts <= Subtotal
  BY <1>7, <1>8, <1>9, SumAtMost
<1>11. Subtotal \in Int /\ LineDiscounts \in Int
  BY PricedSums DEF PriceInv
<1> QED BY <1>3, <1>4, <1>6, <1>10, <1>11 DEF Admitted, Asking

\* The request is admissible exactly if its discounts are not too large.
LEMMA PricedRight ==
    ASSUME PriceInv, changes = 0, outcome = Pending, next > Len(request.lines),
           NEW header \in HeaderDiscounts
    PROVE  /\ ~TooLarge(header) <=> Admissible
           /\ \A total : total = Subtotal - (LineDiscounts + header) => Payable(total)
<1>1. /\ Subtotal - LineDiscounts = Net /\ Subtotal \in Int /\ LineDiscounts \in Int
      /\ LineDiscounts <= Subtotal
      /\ \A k \in DOMAIN Asking : /\ catalogue[Asking[k].variant].active
                                  /\ Asking[k].discount <= GrossOf(Asking[k])
  BY StandsStill
<1>2. /\ header \in Int
      /\ request.header.kind = "amount" => header = request.header.value /\ header \in Nat
      /\ request.header.kind \in {"percent", "amount"}
      /\ request.header.kind = "percent" =>
            /\ request.header.value \in 0..100 * Scale
            /\ header \in Shares(Subtotal - LineDiscounts, request.header.value)
  BY HeaderLemma
<1>3. Net \in Nat
  BY <1>1
<1>4. Subtotal - (LineDiscounts + header) = Net - header /\ (TooLarge(header) <=> header > Net)
  BY <1>1, <1>2 DEF TooLarge
<1>5. Admissible <=> (request.header.kind = "amount" => request.header.value <= Net)
  BY <1>1 DEF Admissible
<1>6. CASE request.header.kind = "amount"
  <2>1. \A total : total = Net - header => Payable(total)
    BY <1>2, <1>6 DEF Payable
  <2>2. ~TooLarge(header) <=> Admissible
    BY <1>2, <1>3, <1>4, <1>5, <1>6
  <2> QED BY <1>4, <2>1, <2>2
<1>7. CASE request.header.kind = "percent"
  <2> DEFINE net == Net
             value == request.header.value
  <2>1. net \in Int /\ net >= 0 /\ header \in Shares(net, value) /\ value \in 0..100 * Scale
    BY <1>1, <1>2, <1>3, <1>7
  <2> HIDE DEF net, value
  <2>2. LET whole == 100 * Scale
        IN  /\ 2 * whole * header - whole <= 2 * net * value
            /\ 2 * net * value <= 2 * whole * header + whole
            /\ HeldExactly(value) => 2 * net * value # 2 * whole * header + whole
            /\ net >= 0 => header \in 0..net
    BY <2>1, ShareLemma
  <2>3. IsNearest(header, value)
    BY <2>2 DEF IsNearest, net
  <2>4. Net - (Net - header) = header
    BY <1>3, <1>2
  <2>5. \A total : total = Net - header => Payable(total)
    BY <1>7, <2>3, <2>4 DEF Payable, value
  <2>6. header \in 0..Net
    BY <2>1, <2>2 DEF net
  <2>7. ~TooLarge(header) /\ Admissible
    BY <1>3, <1>4, <1>5, <1>7, <2>6
  <2> QED BY <1>4, <2>5, <2>7
<1> QED BY <1>2, <1>6, <1>7

\* The totals are worked out once every line has been looked up.
LEMMA ComputeStep ==
    ASSUME PriceInv, ComputeTotals
    PROVE  PriceInv'
<1>0. PICK header \in HeaderDiscounts :
        outcome' = IF TooLarge(header) THEN Refused("DISCOUNT_TOO_LARGE")
                   ELSE [state |-> "priced", subtotal |-> Subtotal, discount |-> LineDiscounts + header,
                         total |-> Subtotal - (LineDiscounts + header)]
  BY DEF ComputeTotals
<1> DEFINE totals == [state |-> "priced", subtotal |-> Subtotal, discount |-> LineDiscounts + header,
                      total |-> Subtotal - (LineDiscounts + header)]
<1>1. /\ outcome = Pending /\ next > Len(request.lines)
      /\ outcome' = IF TooLarge(header) THEN Refused("DISCOUNT_TOO_LARGE") ELSE totals
      /\ UNCHANGED <<catalogue, offered, changes, request, next, priced>>
  BY <1>0 DEF ComputeTotals
<1>2. /\ ~TooLarge(header) => totals \in Totals
      /\ totals.state = "priced" /\ totals.subtotal = Subtotal
      /\ totals.total = Subtotal - (LineDiscounts + header)
  BY TotalsLemma
<1> HIDE DEF totals
<1>3. /\ TooLarge(header) => outcome' \in [state : {"refused"}, code : Refusals] /\ outcome'.state = "refused"
      /\ ~TooLarge(header) => outcome' \in Totals /\ outcome' = totals
  BY <1>1, <1>2 DEF Refused, Refusals
<1>4. PriceTypeOK'
  <2>1. \/ outcome' \in [state : {"refused"}, code : Refusals]
        \/ outcome' \in Totals
    BY <1>3
  <2> QED BY <1>1, <2>1 DEF PriceInv, PriceTypeOK
<1>5. /\ LineDiscounts' = LineDiscounts /\ Subtotal' = Subtotal /\ HeaderDiscounts' = HeaderDiscounts
      /\ LookedUp' = LookedUp
      /\ SumAt(LAMBDA l : l.discount, request.lines, LookedUp)'
           = SumAt(LAMBDA l : l.discount, request.lines, LookedUp)
      /\ SumAt(GrossOf, request.lines, LookedUp)' = SumAt(GrossOf, request.lines, LookedUp)
      /\ \A k : Admitted(request.lines[k])' <=> Admitted(request.lines[k])
  BY <1>1 DEF LineDiscounts, Subtotal, HeaderDiscounts, LookedUp, SumOf, SumAt, GrossOf, Admitted
<1>6. PricesExactly'
  <2> SUFFICES ASSUME changes = 0
               PROVE  PricesExactly'
    BY <1>1 DEF PricesExactly
  <2>1. /\ ~TooLarge(header) <=> Admissible
        /\ \A total : total = Subtotal - (LineDiscounts + header) => Payable(total)
        /\ Subtotal = FullGross
    BY <1>1, PricedRight, StandsStill
  <2>2. /\ Admissible' <=> Admissible
        /\ FullGross' = FullGross
    BY <1>1 DEF Admissible, FullGross, Net, SumOf, SumAt, GrossOf, Asking
  <2>3. \A total : total = Subtotal - (LineDiscounts + header) => Payable(total)'
    BY <1>1, <2>1 DEF Payable, IsNearest, FullGross, Net, SumOf, SumAt, GrossOf, Asking
  <2>4. Payable(outcome.total)' <=> (\A t : t = outcome'.total => Payable(t)')
    BY DEF Payable, IsNearest
  <2>5. CASE TooLarge(header)
    <3>1. outcome'.state = "refused"
      BY <1>3, <2>5
    <3>2. ~(outcome'.state = "priced") /\ ~Admissible'
      BY <2>1, <2>2, <2>5, <3>1
    <3>3. (outcome'.state = "priced") = Admissible'
      BY <3>2 DEF Admissible
    <3> QED BY <3>2, <3>3 DEF PricesExactly
  <2>6. CASE ~TooLarge(header)
    <3>1. outcome'.state = "priced" /\ outcome'.subtotal = Subtotal
          /\ outcome'.total = Subtotal - (LineDiscounts + header)
      BY <1>2, <1>3, <2>6
    <3>2. Payable(outcome.total)'
      BY <2>3, <2>4, <3>1
    <3> QED BY <2>1, <2>2, <2>6, <3>1, <3>2 DEF PricesExactly
  <2> QED BY <2>5, <2>6
<1>7. outcome'.state = "priced" => outcome'.subtotal = Subtotal
  BY <1>2, <1>3
<1>8. (LinesFoldTheRequest /\ NegativeOnlyWhenDearer)'
  BY <1>1, FoldedLemma, FoldedNext DEF PriceInv, NegativeOnlyWhenDearer
<1> QED BY <1>1, <1>4, <1>5, <1>6, <1>7, <1>8 DEF PriceInv

LEMMA PriceStep == PriceInv /\ [PriceNext]_priceVars => PriceInv'
<1> SUFFICES ASSUME PriceInv, [PriceNext]_priceVars
             PROVE  PriceInv'
  OBVIOUS
<1>1. CASE UNCHANGED priceVars
  <2>1. UNCHANGED <<catalogue, offered, changes, request, next, priced, outcome>>
    BY <1>1 DEF priceVars
  <2>2. PriceTypeOK'
    BY <2>1 DEF PriceInv, PriceTypeOK
  <2>3. (LinesFoldTheRequest /\ NegativeOnlyWhenDearer)'
    BY <2>1, FoldedLemma, FoldedNext DEF PriceInv, NegativeOnlyWhenDearer
  <2>4. PricesExactly'
    BY <2>1 DEF PriceInv, PricesExactly, Admissible, Payable, IsNearest, FullGross, Net, SumOf, SumAt, GrossOf, Asking
  <2>5. /\ LineDiscounts' = LineDiscounts /\ Subtotal' = Subtotal /\ HeaderDiscounts' = HeaderDiscounts
        /\ LookedUp' = LookedUp
        /\ SumAt(LAMBDA l : l.discount, request.lines, LookedUp)'
             = SumAt(LAMBDA l : l.discount, request.lines, LookedUp)
        /\ SumAt(GrossOf, request.lines, LookedUp)' = SumAt(GrossOf, request.lines, LookedUp)
        /\ \A k : Admitted(request.lines[k])' <=> Admitted(request.lines[k])
    BY <2>1 DEF LineDiscounts, Subtotal, HeaderDiscounts, LookedUp, SumOf, SumAt, GrossOf, Admitted
  <2> QED BY <2>1, <2>2, <2>3, <2>4, <2>5 DEF PriceInv
<1>2. CASE \E v \in Variants, row \in Offers : Change(v, row)
  BY <1>2, ChangeStep
<1>3. CASE RefuseLine
  BY <1>3, RefuseStep
<1>4. CASE AddLine
  BY <1>4, AddStep
<1>5. CASE MergeLine
  BY <1>5, MergeStep
<1>6. CASE ComputeTotals
  BY <1>6, ComputeStep
<1> QED BY <1>1, <1>2, <1>3, <1>4, <1>5, <1>6 DEF PriceNext

\* The sums of priceLines as far as it has come, and what they come to at the
\* end, hold together at every statement.
THEOREM PricingInvariant == PriceSpec => []PriceInv
BY PriceInitially, PriceStep, PTL DEF PriceSpec

\* Halves of a cent per unit: what is given back for the line is near its total.
LEMMA RefundLemma ==
    ASSUME NEW line, line.total \in Int, line.quantity \in Nat \ {0}
    PROVE  /\ Refund(line, line.quantity) \in Int
           /\ 2 * Refund(line, line.quantity) <= 2 * line.total + line.quantity
           /\ 2 * line.total - line.quantity <= 2 * Refund(line, line.quantity)
<1> DEFINE t == line.total
           q == line.quantity
           u == UnitRefund(line)
<1>1. t \in Int /\ q \in Nat \ {0}
  OBVIOUS
<1>2. Refund(line, q) = u * q
  BY DEF Refund
<1>3. u = (2 * t + q) \div (2 * q)
  BY DEF UnitRefund
<1> HIDE DEF t, q, u
<1>4. 2 * t + q \in Int /\ 2 * q \in Nat \ {0}
  BY <1>1
<1>5. u \in Int /\ (2 * q) * u <= 2 * t + q /\ 2 * t + q < (2 * q) * u + 2 * q
  BY <1>3, <1>4, DivLemma
<1>6. (2 * q) * u = 2 * (u * q) /\ u * q \in Int
  BY <1>1, <1>5
<1>7. u * q \in Int /\ 2 * (u * q) <= 2 * t + q /\ 2 * t - q <= 2 * (u * q)
  BY <1>1, <1>5, <1>6
<1> QED BY <1>2, <1>7 DEF t, q

\* The same of all the lines together.
LEMMA RefundsLemma ==
    ASSUME PriceInv, outcome.state = "priced"
    PROVE  RefundsWhatLinesCost
<1> DEFINE S == DOMAIN priced
           back == [i \in S |-> Refund(priced[i], priced[i].quantity)]
           cost == [i \in S |-> Worth(priced)[i] - Off(priced)[i]]
           twice == [i \in S |-> back[i] + back[i]]
           most == [i \in S |-> (cost[i] + cost[i]) + Units(priced)[i]]
           least == [i \in S |-> (cost[i] + cost[i]) - Units(priced)[i]]
           costs == [i \in S |-> cost[i] + cost[i]]
<1>1. priced \in Seq(PricedLines) /\ IsFiniteSet(S)
  BY PricedSums DEF PriceInv
<1>2. ASSUME NEW i \in S
      PROVE  /\ Units(priced)[i] \in Nat /\ Units(priced)[i] \in Int
             /\ Worth(priced)[i] \in Int /\ Off(priced)[i] \in Int
             /\ cost[i] \in Int /\ back[i] \in Int
             /\ cost[i] = Worth(priced)[i] - Off(priced)[i]
             /\ 2 * back[i] <= 2 * cost[i] + Units(priced)[i]
             /\ 2 * cost[i] - Units(priced)[i] <= 2 * back[i]
  <2>1. /\ priced[i].quantity \in Nat \ {0} /\ priced[i].total \in Int
        /\ Worth(priced)[i] = priced[i].unit * priced[i].quantity /\ Worth(priced)[i] \in Int
        /\ Off(priced)[i] = priced[i].discount /\ Off(priced)[i] \in Nat
    BY <1>1, PricedSums
  <2>2. priced[i].total = priced[i].unit * priced[i].quantity - priced[i].discount
    BY FoldedLemma DEF PriceInv, Folded, FoldsInto
  <2>3. cost[i] = priced[i].total /\ cost[i] = Worth(priced)[i] - Off(priced)[i]
    BY <2>1, <2>2
  <2>4. back[i] = Refund(priced[i], priced[i].quantity) /\ Units(priced)[i] = priced[i].quantity
    BY DEF Units
  <2>5. /\ Refund(priced[i], priced[i].quantity) \in Int
        /\ 2 * Refund(priced[i], priced[i].quantity) <= 2 * priced[i].total + priced[i].quantity
        /\ 2 * priced[i].total - priced[i].quantity <= 2 * Refund(priced[i], priced[i].quantity)
    BY <2>1, RefundLemma
  <2> HIDE DEF back, cost
  <2> QED BY <2>1, <2>3, <2>4, <2>5
<1>3. /\ SumFunctionOnSet(back, S) = SumOf(LAMBDA l : Refund(l, l.quantity), priced)
      /\ SumFunctionOnSet(Units(priced), S) = SumOf(LAMBDA l : l.quantity, priced)
  BY DEF SumOf, SumAt, Units
<1> HIDE DEF back, cost
<1>4. \A i \in S : /\ twice[i] = back[i] + back[i] /\ twice[i] \in Int
                   /\ costs[i] = cost[i] + cost[i] /\ costs[i] \in Int
                   /\ most[i] = costs[i] + Units(priced)[i] /\ most[i] \in Int
                   /\ least[i] = costs[i] - Units(priced)[i] /\ least[i] \in Int
                   /\ twice[i] <= most[i] /\ least[i] <= twice[i]
  <2> TAKE i \in S
  <2> QED BY <1>2
<1> HIDE DEF twice, most, least, costs
<1> DEFINE B == SumFunctionOnSet(back, S)
           C == SumFunctionOnSet(cost, S)
           U == SumFunctionOnSet(Units(priced), S)
<1>5. B \in Int /\ C \in Int /\ U \in Int
  BY <1>1, <1>2, SumIsInt
<1>6. SumFunctionOnSet(twice, S) = B + B
  BY <1>1, <1>2, <1>4, SumPlus
<1>7. SumFunctionOnSet(costs, S) = C + C /\ SumFunctionOnSet(costs, S) \in Int
  BY <1>1, <1>2, <1>4, SumPlus, SumIsInt
<1>8. SumFunctionOnSet(most, S) = SumFunctionOnSet(costs, S) + U
  BY <1>1, <1>2, <1>4, SumPlus
<1>9. SumFunctionOnSet(least, S) = SumFunctionOnSet(costs, S) - U
  BY <1>1, <1>2, <1>4, SumMinus
<1>10. /\ SumFunctionOnSet(twice, S) <= SumFunctionOnSet(most, S)
       /\ SumFunctionOnSet(least, S) <= SumFunctionOnSet(twice, S)
  BY <1>1, <1>4, SumAtMost
<1>11. C = Subtotal - LineDiscounts
  <2>1. C = SumFunctionOnSet(Worth(priced), S) - SumFunctionOnSet(Off(priced), S)
    BY <1>1, <1>2, SumMinus
  <2> QED BY <1>1, <2>1, PricedSums
<1>12. outcome.subtotal - LineDiscounts = C
  BY <1>11 DEF PriceInv
<1>13. 2 * (B - C) \in -U..U
  <2> HIDE DEF B, C, U
  <2> QED BY <1>5, <1>6, <1>7, <1>8, <1>9, <1>10
<1> QED BY <1>3, <1>12, <1>13 DEF RefundsWhatLinesCost

-----------------------------------------------------------------------------
\* Whatever changes of the catalogue fall between the lines of a request, its
\* priced lines have every quantity and discount asked for, once, at one price
\* the variant really had.
THEOREM LinesAreFolded == PriceSpec => []LinesFoldTheRequest
<1>1. PriceInv => LinesFoldTheRequest
  BY DEF PriceInv
<1> QED BY <1>1, PricingInvariant, PTL

\* priceLines prices a line below zero only where its variant became dearer
\* between two lines that name it.
THEOREM DearerOnly == PriceSpec => []NegativeOnlyWhenDearer
<1>1. PriceInv => NegativeOnlyWhenDearer
  BY DEF PriceInv
<1> QED BY <1>1, PricingInvariant, PTL

\* Every variable of Pricing has its shape: no total is below zero, and no
\* discount (PriceTypeOK).
THEOREM TotalsAreNeverNegative == PriceSpec => []PriceTypeOK
<1>1. PriceInv => PriceTypeOK
  BY DEF PriceInv
<1> QED BY <1>1, PricingInvariant, PTL

\* While the catalogue stands still, priceLines and computeTotals price a
\* request exactly if it is admissible, and to the nearest cent.
THEOREM PricesAreExact == PriceSpec => []PricesExactly
<1>1. PriceInv => PricesExactly
  BY DEF PriceInv
<1> QED BY <1>1, PricingInvariant, PTL

\* Returning a whole order gives back what its lines cost, but for half a cent
\* on each unit.
THEOREM RefundsAreFair == PriceSpec => []RefundsWhatLinesCost
<1>1. PriceInv => RefundsWhatLinesCost
  <2>1. CASE outcome # Pending /\ outcome.state = "priced"
    BY <2>1, RefundsLemma
  <2>2. CASE ~(outcome # Pending /\ outcome.state = "priced")
    BY <2>2 DEF RefundsWhatLinesCost
  <2> QED BY <2>1, <2>2
<1> QED BY <1>1, PricingInvariant, PTL
=============================================================================
