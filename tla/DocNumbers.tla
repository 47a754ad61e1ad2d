----------------------------- MODULE DocNumbers -----------------------------
(***************************************************************************)
(* Document numbers: nextSequence (utils/sequence.ts) statement by         *)
(* statement, called one or more times by the transaction that writes the  *)
(* numbered documents.  The date and the prefix in the printed number are  *)
(* left out: per key it is the value that tells documents apart.           *)
(***************************************************************************)
EXTENDS ReadCommitted, Naturals, Sequences

CONSTANTS
    Keys,      \* the sequence keys
    MaxValue   \* bound on the value of a sequence

ASSUME MaxValueAssumption == MaxValue \in Nat

VARIABLES
    sequences,  \* the number_sequences table
    issued,     \* the numbers of the committed documents, in commit order
    client      \* what each client is doing

vars == <<sequences, issued, client>>

-----------------------------------------------------------------------------
\* taken holds the numbers of the documents the transaction has written.
Idle == [pc |-> "idle", key |-> "NONE", taken |-> << >>, number |-> 0]

Missing == [exists |-> FALSE, value |-> 0]

Init ==
    /\ sequences = [k \in Keys |-> Cell(Missing)]
    /\ issued = [k \in Keys |-> << >>]
    /\ client = [p \in Clients |-> Idle]

At(p, label)   == client[p].pc = label
Goto(p, label) == client' = [client EXCEPT ![p].pc = label]
Row(p)         == See(sequences[client[p].key], p)

\* A service opens its transaction and asks for the first number.
Begin(p, k) ==
    /\ At(p, "idle")
    /\ client' = [client EXCEPT ![p].pc = "ensure", ![p].key = k]
    /\ UNCHANGED <<sequences, issued>>

\* INSERT ... ON CONFLICT DO NOTHING: waits for an insertion under way.
Ensure(p) ==
    LET k == client[p].key
    IN  /\ At(p, "ensure")
        /\ \/ Row(p).exists /\ UNCHANGED sequences
           \/ /\ ~Row(p).exists /\ Free(sequences[k], p)
              /\ sequences' = [sequences EXCEPT ![k] =
                                  Written(@, p, [exists |-> TRUE, value |-> 0])]
        /\ Goto(p, "bump")
        /\ UNCHANGED issued

\* UPDATE ... SET value = value + 1, under the row lock.
Bump(p) ==
    LET k == client[p].key
    IN  /\ At(p, "bump")
        /\ Free(sequences[k], p)
        /\ Row(p).value < MaxValue
        /\ sequences' = [sequences EXCEPT ![k] =
                            Written(@, p, [Row(p) EXCEPT !.value = @ + 1])]
        /\ Goto(p, "number")
        /\ UNCHANGED issued

\* The SELECT that answers the number.
Number(p) ==
    /\ At(p, "number")
    /\ client' = [client EXCEPT ![p].number = Row(p).value, ![p].pc = "file"]
    /\ UNCHANGED <<sequences, issued>>

\* The document is inserted under that number; a request with several lines
\* (ReturnService.create) asks for the next one.
File(p) ==
    /\ At(p, "file")
    /\ \E label \in {"ensure", "commit"} :
          client' = [client EXCEPT ![p].taken = Append(@, client[p].number), ![p].pc = label]
    /\ UNCHANGED <<sequences, issued>>

Commit(p) ==
    /\ At(p, "commit")
    /\ sequences' = Committed(sequences, p)
    /\ issued' = [issued EXCEPT ![client[p].key] = @ \o client[p].taken]
    /\ client' = [client EXCEPT ![p] = Idle]

\* Bug: a number drawn is lost when its transaction fails, as with a sequence
\* of the database.
RollbackKeepsNumber(p) ==
    /\ ~At(p, "idle")
    /\ sequences' = Committed(sequences, p)
    /\ client' = [client EXCEPT ![p] = Idle]
    /\ UNCHANGED issued

\* A refusal, a transient failure or a crash.
Rollback(p) ==
    /\ ~At(p, "idle")
    /\ sequences' = RolledBack(sequences, p)
    /\ client' = [client EXCEPT ![p] = Idle]
    /\ UNCHANGED issued

-----------------------------------------------------------------------------
Step(p) ==
    \/ \E k \in Keys : Begin(p, k)
    \/ Ensure(p)
    \/ Bump(p)
    \/ Number(p)
    \/ File(p)
    \/ Commit(p)
    \/ Rollback(p)

Next == \E p \in Clients : Step(p)

Spec == Init /\ [][Next]_vars

-----------------------------------------------------------------------------
\* Properties.

Rows == [exists : BOOLEAN, value : Nat]

\* Every cell holds rows of the table, and every client is at a label.
TypeOK ==
    /\ sequences \in [Keys -> Cells(Rows)]
    /\ issued \in [Keys -> Seq(Nat)]
    /\ client \in [Clients -> [pc : {"idle", "ensure", "bump", "number", "file", "commit"},
                               key : Keys \cup {"NONE"}, taken : Seq(Nat), number : Nat]]

\* "Gap-free, race-safe document numbering": the documents of a key carry
\* 1, 2, 3, ... in the order they were committed, each number once, and the
\* sequence stands at the last of them, however many transactions wait for
\* each other and whichever of them fail.
GapFree ==
    \A k \in Keys :
        /\ Len(issued[k]) = sequences[k].com.value
        /\ \A i \in DOMAIN issued[k] : issued[k][i] = i

\* The labels at which a client has the row, and those at which it has drawn
\* a number that is on no document yet.
Drawing == {"number", "file"}

\* A client that has drawn numbers holds the row and has filed all of them,
\* in order, but the one in hand.
NumbersAreHeld ==
    /\ \A p \in Clients : ~At(p, "idle") => client[p].key \in Keys
    /\ \A k \in Keys :
          /\ sequences[k].by = Nobody => sequences[k].live = sequences[k].com
          /\ sequences[k].by # Nobody =>
                /\ client[sequences[k].by].key = k /\ ~At(sequences[k].by, "idle")
                /\ sequences[k].live.exists
          /\ ~sequences[k].com.exists => sequences[k].com.value = 0
    /\ \A p \in Clients :
          LET c    == client[p]
              held == ~At(p, "idle") /\ sequences[c.key].by = p
              base == sequences[c.key].com.value
          IN  /\ held =>
                    /\ sequences[c.key].live.value =
                          base + Len(c.taken) + IF c.pc \in Drawing THEN 1 ELSE 0
                    /\ \A i \in DOMAIN c.taken : c.taken[i] = base + i
              /\ c.pc \in Drawing => held
              /\ c.pc = "file" => c.number = base + Len(c.taken) + 1
              /\ ~held => c.taken = << >>
              /\ c.pc = "bump" => Row(p).exists

\* The inductive invariant.
IInv == TypeOK /\ GapFree /\ NumbersAreHeld
=============================================================================
