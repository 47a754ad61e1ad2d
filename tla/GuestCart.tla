----------------------------- MODULE GuestCart ------------------------------
(***************************************************************************)
(* The cart a visitor collects before signing in, and its merge into the   *)
(* server's cart (CartProvider, web/src/hooks/useCart.tsx).                *)
(*                                                                         *)
(* React runs an effect after a render in which one of its dependencies    *)
(* has changed, and the clean-up of its last run before that.  A change of *)
(* state is rendered some time after it was made, and an answer of the     *)
(* server may come before or after that: rendered holds the dependencies   *)
(* as the last render saw them.                                            *)
(***************************************************************************)
EXTENDS Naturals, FiniteSets

CONSTANTS
    Choices,       \* the variants a guest may collect
    MaxCollected,  \* bound on the units of a variant a guest collects
    MaxMerges      \* bound on the times a merge is begun

ASSUME BoundsAssumption == MaxCollected \in Nat /\ MaxMerges \in Nat

VARIABLES
    provider,   \* the state of CartProvider: signedIn, lines (guestLines), merging
    rendered,   \* that state as last rendered
    stored,     \* the guest lines in local storage
    merges,     \* the runs of the merge, in the order they were begun
    collected,  \* the units of each variant the guest has ever collected
    merged      \* the units the merge has put into the server's cart

guestVars == <<provider, rendered, stored, merges, collected, merged>>

-----------------------------------------------------------------------------
NoLines == [v \in Choices |-> 0]

\* A page just loaded: the lines come from local storage, and the session is
\* yet to be restored.
Loaded(lines) == [signedIn |-> FALSE, lines |-> lines, merging |-> FALSE]

GuestInit ==
    /\ provider = Loaded(NoLines)
    /\ rendered = provider
    /\ stored = NoLines
    /\ merges = {}
    /\ collected = NoLines
    /\ merged = NoLines

\* addItem of a page that was rendered for a guest.
Collect(v) ==
    /\ ~rendered.signedIn
    /\ collected[v] < MaxCollected
    /\ provider' = [provider EXCEPT !.lines[v] = @ + 1]
    /\ collected' = [collected EXCEPT ![v] = @ + 1]
    /\ UNCHANGED <<rendered, stored, merges, merged>>

\* setQuantity to zero and removeItem.
Drop(v) ==
    /\ ~rendered.signedIn
    /\ provider.lines[v] > 0
    /\ provider' = [provider EXCEPT !.lines[v] = 0]
    /\ UNCHANGED <<rendered, stored, merges, collected, merged>>

\* A login, a registration or the session restored after a load.
SignIn ==
    /\ ~provider.signedIn
    /\ provider' = [provider EXCEPT !.signedIn = TRUE]
    /\ UNCHANGED <<rendered, stored, merges, collected, merged>>

SignOut ==
    /\ provider.signedIn
    /\ provider' = [provider EXCEPT !.signedIn = FALSE]
    /\ UNCHANGED <<rendered, stored, merges, collected, merged>>

\* Bug: the clean-up is missing.
CancelledNone == merges

\* The clean-up tells the runs begun so far that they are out of date.
Cancelled == {[m EXCEPT !.cancelled = TRUE] : m \in merges}

\* Bug: nothing remembers that a merge is under way.
WantedAgain == provider.signedIn /\ provider.lines # NoLines

\* On sign-in, what was collected as a guest is to be merged.
Wanted == provider.signedIn /\ provider.lines # NoLines /\ ~provider.merging

\* A render and its effects: the lines are stored, and a merge of the lines
\* as they stand is begun where one is wanted.
Render ==
    /\ provider # rendered
    /\ rendered' = provider
    /\ stored' = provider.lines
    /\ IF Wanted
       THEN /\ Cardinality(merges) < MaxMerges
            /\ merges' = Cancelled \cup
                  {[id |-> Cardinality(merges) + 1, lines |-> provider.lines, stage |-> "push",
                    todo |-> {v \in Choices : provider.lines[v] > 0}, cancelled |-> FALSE]}
            /\ provider' = [provider EXCEPT !.merging = TRUE]
       ELSE /\ merges' = Cancelled
            /\ UNCHANGED provider
    /\ UNCHANGED <<collected, merged>>

\* The server has answered one addItem of the merge; a refusal is swallowed.
Push(m, v) ==
    /\ m.stage = "push" /\ v \in m.todo
    /\ merges' = (merges \ {m}) \cup {[m EXCEPT !.todo = @ \ {v}]}
    /\ \/ merged' = [merged EXCEPT ![v] = @ + m.lines[v]]
       \/ UNCHANGED merged
    /\ UNCHANGED <<provider, rendered, stored, collected>>

\* All lines are answered: the guest's lines are cleared, unless the run is
\* out of date.
Clear(m) ==
    /\ m.stage = "push" /\ m.todo = {}
    /\ merges' = (merges \ {m}) \cup {[m EXCEPT !.stage = "clear"]}
    /\ provider' = IF m.cancelled THEN provider ELSE [provider EXCEPT !.lines = NoLines]
    /\ UNCHANGED <<rendered, stored, collected, merged>>

\* The cart is fetched again and the flag reset, unless the run is out of
\* date by then.
Finish(m) ==
    /\ m.stage = "clear"
    /\ merges' = (merges \ {m}) \cup {[m EXCEPT !.stage = "done"]}
    /\ provider' = IF m.cancelled THEN provider ELSE [provider EXCEPT !.merging = FALSE]
    /\ UNCHANGED <<rendered, stored, collected, merged>>

\* The visitor loads the page anew, once it has settled: what was under way
\* in it is gone.
Reload ==
    /\ provider = rendered
    /\ provider' = Loaded(stored)
    /\ rendered' = Loaded(stored)
    /\ merges' = {[m EXCEPT !.stage = IF @ = "done" THEN "done" ELSE "gone"] : m \in merges}
    /\ UNCHANGED <<stored, collected, merged>>

-----------------------------------------------------------------------------
GuestNext ==
    \/ \E v \in Choices : Collect(v)
    \/ \E v \in Choices : Drop(v)
    \/ SignIn \/ SignOut
    \/ Render
    \/ \E m \in merges : \E v \in m.todo : Push(m, v)
    \/ \E m \in merges : Clear(m)
    \/ \E m \in merges : Finish(m)
    \/ Reload

GuestSpec == GuestInit /\ [][GuestNext]_guestVars

-----------------------------------------------------------------------------
\* Properties.

Lines == [Choices -> 0..MaxCollected]
Pages == [signedIn : BOOLEAN, lines : Lines, merging : BOOLEAN]

\* Every part of the state has its shape.
GuestTypeOK ==
    /\ provider \in Pages /\ rendered \in Pages
    /\ stored \in Lines /\ collected \in Lines
    /\ merged \in [Choices -> Nat]
    /\ merges \subseteq [id : 1..MaxMerges, lines : Lines, stage : {"push", "clear", "done", "gone"},
                         todo : SUBSET Choices, cancelled : BOOLEAN]

\* Renders may come late and the session may change under a merge, but no two
\* runs push lines at the same time: that would add the same units twice.
OneMergeAtATime ==
    \A m, n \in merges : m.stage = "push" /\ n.stage = "push" => m = n

\* A merge never throws away lines it has not offered to the server, such as
\* those collected after a sign-out while its answers were still coming.
ClearsOnlyWhatItMerged ==
    [][\A m \in merges : Clear(m) /\ provider'.lines # provider.lines => provider.lines = m.lines]_guestVars

\* On sign-in the guest cart is merged into the server cart and cleared: unless
\* a load of the page interrupted a merge, no unit enters the server's cart
\* more often than it was collected.
MergedOnce ==
    (\A m \in merges : m.stage # "gone") => \A v \in Choices : merged[v] <= collected[v]
=============================================================================
