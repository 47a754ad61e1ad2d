---------------------------- MODULE Cart_proofs -----------------------------
(***************************************************************************)
(* Proofs about the two carts of a customer, GuestCart and Storefront: for *)
(* any variants, any number of calls and any of their interleavings.       *)
(***************************************************************************)
EXTENDS GuestCart, Storefront, Shared_proofs, FiniteSetTheorems, TLAPS

-----------------------------------------------------------------------------
\* The guest cart.

Stages == {"push", "clear", "done", "gone"}
Runs   == [id : 1..MaxMerges, lines : Lines, stage : Stages, todo : SUBSET Choices, cancelled : BOOLEAN]

Active(m) == m.stage \in {"push", "clear"}

\* What a guest has in the cart, wherever it is kept, has been collected.
LinesAreCollected ==
    \A v \in Choices :
        /\ provider.lines[v] <= collected[v] /\ rendered.lines[v] <= collected[v]
        /\ stored[v] <= collected[v]

\* While a merge is under way the flag says so, and no other one is.
FlagIsUp == \A m \in merges : Active(m) => provider.merging /\ \A n \in merges : Active(n) => n = m

\* Until a run is cleaned up, the last render was the one that began it, with
\* a customer signed in: the lines are those it pushes.
PushesWhatIsShown ==
    \A m \in merges :
        m.stage = "push" /\ ~m.cancelled => rendered.signedIn /\ provider.lines = m.lines

GuestInv ==
    /\ GuestTypeOK /\ IsFiniteSet(merges)
    /\ LinesAreCollected /\ FlagIsUp /\ PushesWhatIsShown

LEMMA PagesLemma ==
    GuestTypeOK <=>
        /\ provider \in Pages /\ rendered \in Pages
        /\ stored \in Lines /\ collected \in Lines
        /\ merged \in [Choices -> Nat]
        /\ merges \subseteq Runs
BY DEF GuestTypeOK, Runs, Stages

\* A run replaced by another, and all of them changed alike.
LEMMA ReplaceLemma ==
    ASSUME NEW S \in SUBSET Runs, IsFiniteSet(S), NEW m \in S, NEW n \in Runs
    PROVE  /\ (S \ {m}) \cup {n} \subseteq Runs
           /\ IsFiniteSet((S \ {m}) \cup {n})
BY FS_RemoveElement, FS_AddElement

LEMMA MapLemma ==
    ASSUME NEW S \in SUBSET Runs, IsFiniteSet(S), NEW f \in [S -> Runs]
    PROVE  {f[m] : m \in S} \subseteq Runs /\ IsFiniteSet({f[m] : m \in S})
<1>1. f \in Surjection(S, {f[m] : m \in S})
  BY DEF Surjection
<1> QED BY <1>1, FS_Surjection

\* The clean-up changes nothing of a run but that it is cancelled.
LEMMA CancelledLemma ==
    ASSUME merges \subseteq Runs, IsFiniteSet(merges)
    PROVE  /\ Cancelled \subseteq Runs /\ IsFiniteSet(Cancelled)
           /\ \A n \in Cancelled : n.cancelled
           /\ \A n \in Cancelled : \E m \in merges : n = [m EXCEPT !.cancelled = TRUE]
           /\ \A m \in merges : [m EXCEPT !.cancelled = TRUE].stage = m.stage
<1> DEFINE f == [m \in merges |-> [m EXCEPT !.cancelled = TRUE]]
<1>1. ASSUME NEW m \in merges
      PROVE  /\ [m EXCEPT !.cancelled = TRUE] \in Runs /\ [m EXCEPT !.cancelled = TRUE].cancelled
             /\ [m EXCEPT !.cancelled = TRUE].stage = m.stage
  BY DEF Runs
<1>2. f \in [merges -> Runs] /\ Cancelled = {f[m] : m \in merges}
  BY <1>1 DEF Cancelled
<1>3. {f[m] : m \in merges} \subseteq Runs /\ IsFiniteSet({f[m] : m \in merges})
  BY <1>2, MapLemma
<1> QED BY <1>1, <1>2, <1>3 DEF Cancelled

\* The guest changes the lines of a page rendered for a guest.
LEMMA CollectLemma ==
    ASSUME GuestInv, NEW v \in Choices, Collect(v) \/ Drop(v)
    PROVE  GuestInv'
<1>0. /\ provider \in Pages /\ rendered \in Pages /\ stored \in Lines /\ collected \in Lines
      /\ merged \in [Choices -> Nat] /\ merges \subseteq Runs
  BY PagesLemma DEF GuestInv
<1>1. /\ UNCHANGED <<rendered, stored, merges, merged>> /\ ~rendered.signedIn
      /\ provider'.merging = provider.merging
  BY <1>0 DEF Collect, Drop, Pages
<1>2. /\ provider' \in Pages /\ collected' \in Lines
      /\ \A w \in Choices : provider'.lines[w] <= collected'[w] /\ collected[w] <= collected'[w]
  <2>1. provider.lines \in Lines /\ provider.lines[v] <= collected[v]
    BY <1>0 DEF Pages, GuestInv, LinesAreCollected
  <2>2. CASE Collect(v)
    <3>1. collected[v] + 1 \in 0..MaxCollected /\ provider.lines[v] + 1 \in 0..MaxCollected
      BY <1>0, <2>1, <2>2, BoundsAssumption DEF Collect, Lines
    <3>2. [provider.lines EXCEPT ![v] = @ + 1] \in Lines /\ [collected EXCEPT ![v] = @ + 1] \in Lines
      BY <1>0, <2>1, <3>1 DEF Lines
    <3>3. provider' = [provider EXCEPT !.lines = [provider.lines EXCEPT ![v] = @ + 1]]
      BY <1>0, <2>2 DEF Collect, Pages
    <3>4. provider' \in Pages /\ provider'.lines = [provider.lines EXCEPT ![v] = @ + 1]
      BY <1>0, <3>2, <3>3 DEF Pages
    <3>5. collected' = [collected EXCEPT ![v] = @ + 1]
      BY <2>2 DEF Collect
    <3>6. ASSUME NEW w \in Choices
          PROVE  provider'.lines[w] <= collected'[w] /\ collected[w] <= collected'[w]
      <4>1. provider.lines[w] <= collected[w] /\ provider.lines[w] \in Nat /\ collected[w] \in Nat
        BY <1>0, <2>1, BoundsAssumption DEF GuestInv, LinesAreCollected, Lines
      <4>2. /\ provider'.lines[w] = IF w = v THEN provider.lines[w] + 1 ELSE provider.lines[w]
            /\ collected'[w] = IF w = v THEN collected[w] + 1 ELSE collected[w]
        BY <1>0, <2>1, <3>4, <3>5 DEF Lines
      <4> QED BY <4>1, <4>2
    <3> QED BY <3>2, <3>4, <3>5, <3>6
  <2>3. CASE Drop(v)
    <3>1. [provider.lines EXCEPT ![v] = 0] \in Lines
      BY <2>1, BoundsAssumption DEF Lines
    <3>2. provider' = [provider EXCEPT !.lines = [provider.lines EXCEPT ![v] = 0]] /\ UNCHANGED collected
      BY <1>0, <2>3 DEF Drop, Pages
    <3>3. provider' \in Pages /\ provider'.lines = [provider.lines EXCEPT ![v] = 0]
      BY <1>0, <3>1, <3>2 DEF Pages
    <3>4. ASSUME NEW w \in Choices
          PROVE  provider'.lines[w] <= collected'[w] /\ collected[w] <= collected'[w]
      <4>1. provider.lines[w] <= collected[w] /\ provider.lines[w] \in Nat /\ collected[w] \in Nat
        BY <1>0, <2>1, BoundsAssumption DEF GuestInv, LinesAreCollected, Lines
      <4>2. provider'.lines[w] = IF w = v THEN 0 ELSE provider.lines[w]
        BY <2>1, <3>3 DEF Lines
      <4> QED BY <3>2, <4>1, <4>2
    <3> QED BY <1>0, <3>2, <3>3, <3>4
  <2> QED BY <2>2, <2>3
<1>3. GuestTypeOK'
  BY <1>0, <1>1, <1>2 DEF GuestTypeOK, Runs, Stages
<1>4. LinesAreCollected'
  <2> SUFFICES ASSUME NEW w \in Choices
               PROVE  /\ provider'.lines[w] <= collected'[w] /\ rendered'.lines[w] <= collected'[w]
                      /\ stored'[w] <= collected'[w]
    BY DEF LinesAreCollected
  <2>1. /\ rendered.lines[w] <= collected[w] /\ stored[w] <= collected[w]
        /\ rendered.lines[w] \in Nat /\ stored[w] \in Nat
        /\ collected[w] \in Nat /\ collected'[w] \in Nat
    BY <1>0, <1>2, BoundsAssumption DEF GuestInv, LinesAreCollected, Lines, Pages
  <2> QED BY <1>1, <1>2, <2>1
<1>5. FlagIsUp' /\ PushesWhatIsShown'
  BY <1>1 DEF GuestInv, FlagIsUp, PushesWhatIsShown, Active
<1> QED BY <1>1, <1>3, <1>4, <1>5 DEF GuestInv

\* The session changes under the page.
LEMMA SignLemma ==
    ASSUME GuestInv, SignIn \/ SignOut
    PROVE  GuestInv'
<1>1. provider \in Pages
  BY PagesLemma DEF GuestInv
<1>2. /\ provider' \in Pages /\ provider'.lines = provider.lines /\ provider'.merging = provider.merging
      /\ UNCHANGED <<rendered, stored, merges, collected, merged>>
  BY <1>1 DEF SignIn, SignOut, Pages
<1>3. GuestTypeOK'
  BY <1>2 DEF GuestInv, GuestTypeOK
<1>4. LinesAreCollected' /\ FlagIsUp' /\ PushesWhatIsShown'
  BY <1>2 DEF GuestInv, LinesAreCollected, FlagIsUp, PushesWhatIsShown, Active
<1> QED BY <1>2, <1>3, <1>4 DEF GuestInv

\* A render cancels every run, and begins one only where none is under way.
LEMMA RenderLemma ==
    ASSUME GuestInv, Render
    PROVE  GuestInv'
<1>0. /\ provider \in Pages /\ rendered \in Pages /\ stored \in Lines /\ collected \in Lines
      /\ merged \in [Choices -> Nat] /\ merges \subseteq Runs /\ IsFiniteSet(merges)
  BY PagesLemma DEF GuestInv
<1>1. /\ Cancelled \subseteq Runs /\ IsFiniteSet(Cancelled)
      /\ \A n \in Cancelled : n.cancelled
      /\ \A n \in Cancelled : \E m \in merges : n = [m EXCEPT !.cancelled = TRUE]
      /\ \A m \in merges : [m EXCEPT !.cancelled = TRUE].stage = m.stage
  BY <1>0, CancelledLemma
<1>2. ASSUME NEW n \in Cancelled, Active(n)
      PROVE  provider.merging /\ \A o \in Cancelled : Active(o) => o = n
  <2>1. PICK m \in merges : n = [m EXCEPT !.cancelled = TRUE] /\ Active(m)
    BY <1>1, <1>2 DEF Active
  <2>2. provider.merging /\ \A o \in merges : Active(o) => o = m
    BY <2>1 DEF GuestInv, FlagIsUp
  <2>3. ASSUME NEW o \in Cancelled, Active(o) PROVE o = n
    <3>1. PICK k \in merges : o = [k EXCEPT !.cancelled = TRUE] /\ Active(k)
      BY <1>1, <2>3 DEF Active
    <3> QED BY <2>1, <2>2, <3>1
  <2> QED BY <2>2, <2>3
<1>3. /\ rendered' = provider /\ stored' = provider.lines
      /\ UNCHANGED <<collected, merged>>
  BY DEF Render
<1>4. rendered' \in Pages /\ stored' \in Lines /\ provider.lines \in Lines
  BY <1>0, <1>3 DEF Pages
<1>5. CASE Wanted
  <2> DEFINE run == [id |-> Cardinality(merges) + 1, lines |-> provider.lines, stage |-> "push",
                     todo |-> {v \in Choices : provider.lines[v] > 0}, cancelled |-> FALSE]
  <2>1. /\ merges' = Cancelled \cup {run} /\ provider' = [provider EXCEPT !.merging = TRUE]
        /\ Cardinality(merges) < MaxMerges
    BY <1>5 DEF Render
  <2>2. /\ provider' \in Pages /\ provider'.merging /\ provider'.lines = provider.lines
    BY <1>0, <2>1 DEF Pages
  <2>3. Cardinality(merges) + 1 \in 1..MaxMerges
    BY <1>0, <2>1, FS_CardinalityType, BoundsAssumption
  <2>4. run \in Runs
    BY <1>4, <2>3 DEF Runs, Stages
  <2>5. run.stage = "push" /\ run.lines = provider.lines
    OBVIOUS
  <2> HIDE DEF run
  <2>6. merges' \subseteq Runs /\ IsFiniteSet(merges')
    BY <1>1, <2>1, <2>4, FS_AddElement
  <2>7. \A n \in Cancelled : ~Active(n)
    BY <1>2, <1>5 DEF Wanted
  <2>8. GuestTypeOK'
    BY <1>0, <1>3, <1>4, <2>2, <2>6 DEF GuestTypeOK, Runs, Stages
  <2>9. LinesAreCollected'
    BY <1>3, <2>2 DEF GuestInv, LinesAreCollected
  <2>10. FlagIsUp'
    BY <2>1, <2>2, <2>7 DEF FlagIsUp, Active
  <2>11. PushesWhatIsShown'
    BY <1>1, <1>3, <1>5, <2>1, <2>2, <2>5 DEF PushesWhatIsShown, Wanted
  <2> QED BY <2>6, <2>8, <2>9, <2>10, <2>11 DEF GuestInv
<1>6. CASE ~Wanted
  <2>1. merges' = Cancelled /\ UNCHANGED provider
    BY <1>6 DEF Render
  <2>2. GuestTypeOK'
    BY <1>0, <1>1, <1>3, <1>4, <2>1 DEF GuestTypeOK, Runs, Stages
  <2>3. LinesAreCollected'
    BY <1>3, <2>1 DEF GuestInv, LinesAreCollected
  <2>4. FlagIsUp'
    BY <1>2, <2>1 DEF FlagIsUp, Active
  <2>5. PushesWhatIsShown'
    BY <1>1, <2>1 DEF PushesWhatIsShown
  <2> QED BY <1>1, <2>1, <2>2, <2>3, <2>4, <2>5 DEF GuestInv
<1> QED BY <1>5, <1>6

\* A run goes on: it stays the only one, and it alone may touch the page.
LEMMA RunLemma ==
    ASSUME GuestInv, NEW m \in merges, NEW n \in Runs, Active(m),
           merges' = (merges \ {m}) \cup {n},
           n.stage = "push" => m.stage = "push" /\ n.lines = m.lines /\ n.cancelled = m.cancelled
                                 /\ UNCHANGED provider,
           Active(n) => provider'.merging = provider.merging,
           provider' \in Pages, provider'.lines \in {provider.lines, NoLines},
           merged' \in [Choices -> Nat], UNCHANGED <<rendered, stored, collected>>
    PROVE  GuestInv'
<1>0. /\ stored \in Lines /\ collected \in Lines /\ rendered \in Pages
      /\ merges \subseteq Runs /\ IsFiniteSet(merges)
  BY PagesLemma DEF GuestInv
<1>1. merges' \subseteq Runs /\ IsFiniteSet(merges')
  BY <1>0, ReplaceLemma
<1>2. GuestTypeOK'
  BY <1>0, <1>1 DEF GuestTypeOK, Runs, Stages
<1>3. LinesAreCollected'
  <2>1. ASSUME NEW v \in Choices PROVE provider'.lines[v] <= collected[v]
    <3>1. provider.lines[v] <= collected[v] /\ collected[v] \in Nat /\ NoLines[v] = 0
      BY <1>0, BoundsAssumption DEF GuestInv, LinesAreCollected, Lines, NoLines
    <3> QED BY <3>1
  <2> QED BY <2>1 DEF GuestInv, LinesAreCollected
<1>4. \A o \in merges' : o = n \/ (o \in merges /\ ~Active(o))
  BY DEF GuestInv, FlagIsUp
<1>5. provider.merging
  BY DEF GuestInv, FlagIsUp
<1>6. FlagIsUp'
  BY <1>4, <1>5 DEF FlagIsUp, Active
<1>7. PushesWhatIsShown'
  BY <1>4 DEF GuestInv, PushesWhatIsShown, Active
<1> QED BY <1>1, <1>2, <1>3, <1>6, <1>7 DEF GuestInv

LEMMA MergeLemma ==
    ASSUME GuestInv, NEW m \in merges, (\E v \in m.todo : Push(m, v)) \/ Clear(m) \/ Finish(m)
    PROVE  GuestInv'
<1>0. provider \in Pages /\ m \in Runs /\ merged \in [Choices -> Nat]
  BY PagesLemma DEF GuestInv
<1>1. ASSUME NEW v \in m.todo, Push(m, v) PROVE GuestInv'
  <2> DEFINE n == [m EXCEPT !.todo = @ \ {v}]
  <2>1. n \in Runs /\ n.stage = "push" /\ n.lines = m.lines /\ n.cancelled = m.cancelled
    BY <1>0, <1>1 DEF Push, Runs
  <2>2. merges' = (merges \ {m}) \cup {n} /\ UNCHANGED <<provider, rendered, stored, collected>>
    BY <1>1 DEF Push
  <2>3. v \in Choices /\ m.lines[v] \in Nat
    BY <1>0, BoundsAssumption DEF Runs, Lines
  <2>4. merged' \in [Choices -> Nat]
    BY <1>0, <1>1, <2>3 DEF Push
  <2>5. m.stage = "push"
    BY <1>1 DEF Push
  <2> HIDE DEF n
  <2> QED BY <1>0, <2>1, <2>2, <2>4, <2>5, RunLemma DEF Active
<1>2. CASE Clear(m)
  <2> DEFINE n == [m EXCEPT !.stage = "clear"]
  <2>1. n \in Runs /\ n.stage = "clear"
    BY <1>0 DEF Runs, Stages
  <2>2. merges' = (merges \ {m}) \cup {n} /\ m.stage = "push" /\ UNCHANGED <<rendered, stored, collected, merged>>
    BY <1>2 DEF Clear
  <2>3. NoLines \in Lines
    BY BoundsAssumption DEF NoLines, Lines
  <2>4. /\ provider' \in Pages /\ provider'.lines \in {provider.lines, NoLines}
        /\ provider'.merging = provider.merging
    BY <1>0, <1>2, <2>3 DEF Clear, Pages
  <2> HIDE DEF n
  <2> QED BY <1>0, <2>1, <2>2, <2>4, RunLemma DEF Active
<1>3. CASE Finish(m)
  <2> DEFINE n == [m EXCEPT !.stage = "done"]
  <2>1. n \in Runs /\ n.stage = "done"
    BY <1>0 DEF Runs, Stages
  <2>2. merges' = (merges \ {m}) \cup {n} /\ m.stage = "clear" /\ UNCHANGED <<rendered, stored, collected, merged>>
    BY <1>3 DEF Finish
  <2>3. provider' \in Pages /\ provider'.lines = provider.lines
    BY <1>0, <1>3 DEF Finish, Pages
  <2> HIDE DEF n
  <2> QED BY <1>0, <2>1, <2>2, <2>3, RunLemma DEF Active
<1> QED BY <1>1, <1>2, <1>3

\* A load of the page leaves no run under way.
LEMMA ReloadLemma ==
    ASSUME GuestInv, Reload
    PROVE  GuestInv'
<1>0. /\ stored \in Lines /\ collected \in Lines /\ merged \in [Choices -> Nat]
      /\ merges \subseteq Runs /\ IsFiniteSet(merges)
  BY PagesLemma DEF GuestInv
<1> DEFINE f == [m \in merges |-> [m EXCEPT !.stage = IF @ = "done" THEN "done" ELSE "gone"]]
<1>1. f \in [merges -> Runs] /\ \A m \in merges : f[m].stage \in {"done", "gone"}
  BY <1>0 DEF Runs, Stages
<1>2. merges' = {f[m] : m \in merges}
  BY DEF Reload
<1> HIDE DEF f
<1>3. merges' \subseteq Runs /\ IsFiniteSet(merges')
  BY <1>0, <1>1, <1>2, MapLemma
<1>4. \A n \in merges' : ~Active(n)
  BY <1>1, <1>2 DEF Active
<1>5. /\ provider' \in Pages /\ rendered' \in Pages /\ provider'.lines = stored /\ rendered'.lines = stored
      /\ UNCHANGED <<stored, collected, merged>>
  BY <1>0 DEF Reload, Loaded, Pages
<1>6. GuestTypeOK'
  BY <1>0, <1>3, <1>5 DEF GuestTypeOK, Runs, Stages
<1>7. LinesAreCollected'
  BY <1>5 DEF GuestInv, LinesAreCollected
<1>8. FlagIsUp' /\ PushesWhatIsShown'
  BY <1>4 DEF FlagIsUp, PushesWhatIsShown, Active
<1> QED BY <1>3, <1>6, <1>7, <1>8 DEF GuestInv

LEMMA GuestInitLemma == GuestInit => GuestInv
<1> SUFFICES ASSUME GuestInit PROVE GuestInv
  OBVIOUS
<1>1. NoLines \in Lines /\ NoLines \in [Choices -> Nat] /\ Loaded(NoLines) \in Pages
      /\ Loaded(NoLines).lines = NoLines
  BY BoundsAssumption DEF NoLines, Lines, Loaded, Pages
<1>2. GuestTypeOK
  BY <1>1 DEF GuestInit, GuestTypeOK
<1>3. LinesAreCollected
  <2>1. \A v \in Choices : NoLines[v] <= NoLines[v]
    BY DEF NoLines
  <2> QED BY <1>1, <2>1 DEF GuestInit, LinesAreCollected
<1> QED BY <1>2, <1>3, FS_EmptySet DEF GuestInit, GuestInv, FlagIsUp, PushesWhatIsShown

LEMMA GuestStepLemma == GuestInv /\ [GuestNext]_guestVars => GuestInv'
<1> SUFFICES ASSUME GuestInv, [GuestNext]_guestVars PROVE GuestInv'
  OBVIOUS
<1>1. CASE UNCHANGED guestVars
  BY <1>1 DEF guestVars, GuestInv, GuestTypeOK, LinesAreCollected, FlagIsUp, PushesWhatIsShown, Active
<1>2. CASE \E v \in Choices : Collect(v) \/ Drop(v)
  BY <1>2, CollectLemma
<1>3. CASE \E m \in merges : (\E v \in m.todo : Push(m, v)) \/ Clear(m) \/ Finish(m)
  BY <1>3, MergeLemma
<1>4. CASE SignIn \/ SignOut
  BY <1>4, SignLemma
<1> QED BY <1>1, <1>2, <1>3, <1>4, RenderLemma, ReloadLemma DEF GuestNext

\* The inductive invariant of the guest cart: a run of the merge that is under
\* way is the only one, and the page shows what an uncancelled one pushes.
THEOREM GuestInvariant == GuestSpec => []GuestInv
BY GuestInitLemma, GuestStepLemma, PTL DEF GuestSpec

\* However late renders come and however the session changes, no two runs of
\* the merge push lines at the same time.
THEOREM MergesTakeTurns == GuestSpec => []OneMergeAtATime
<1>1. GuestInv => OneMergeAtATime
  BY DEF GuestInv, FlagIsUp, OneMergeAtATime, Active
<1> QED BY <1>1, GuestInvariant, PTL

\* The lines a merge clears are those it has offered to the server: what was
\* collected after a sign-out is kept.
THEOREM NothingElseIsCleared == GuestSpec => ClearsOnlyWhatItMerged
<1>1. GuestInv /\ [GuestNext]_guestVars =>
        [\A m \in merges : Clear(m) /\ provider'.lines # provider.lines => provider.lines = m.lines]_guestVars
  <2> SUFFICES ASSUME GuestInv, NEW m \in merges, Clear(m), provider'.lines # provider.lines
               PROVE  provider.lines = m.lines
    OBVIOUS
  <2>1. m.stage = "push" /\ ~m.cancelled
    BY DEF Clear
  <2> QED BY <2>1 DEF GuestInv, PushesWhatIsShown
<1> QED BY <1>1, GuestInvariant, PTL DEF GuestSpec, ClearsOnlyWhatItMerged
-----------------------------------------------------------------------------
\* The server's cart and the page on it.

Ordering == {"cart", "order", "empty", "commit"}

\* A call the page awaits has been made, one answered is over, and only a
\* checkout goes through the stages of one; what is added or set is not zero,
\* and an update has found its row.
CallsAreMade ==
    \A c \in Clients :
        /\ c \in out => serving[c].pc # "idle"
        /\ serving[c].reply # "none" => serving[c].pc = "over"
        /\ serving[c].pc \in Ordering => serving[c].op = "CHECKOUT"
        /\ serving[c].pc \in {"add", "find", "update"} => serving[c].qty > 0
        /\ serving[c].pc = "update" => serving[c].item > 0

\* Every row met anywhere has got its id by now.
Known(row) == row = NoRow \/ row.id \in 1..lastId

RowsAreKnown ==
    /\ \A v \in Variants : Known(rows[v].com)
    /\ \A c \in Clients : \A v \in Variants : Known(serving[c].read[v])
    /\ \A i \in DOMAIN orders : \A v \in Variants : Known(orders[i][v])

\* A row is locked by the checkout that deletes it, until that ends.
LocksArePending ==
    \A v \in Variants : rows[v].by # Nobody => At(rows[v].by, "commit") /\ rows[v].live = NoRow

\* What a checkout has read and is about to commit is gone by then, or goes
\* with the commit.
ReadIsTaken ==
    \A c \in Clients : \A v \in Variants :
        At(c, "commit") /\ serving[c].read[v] # NoRow =>
            rows[v].by = c \/ rows[v].com.id # serving[c].read[v].id

\* No row of the cart has been ordered.
OrderedIsGone ==
    \A i \in DOMAIN orders : \A v \in Variants :
        orders[i][v] # NoRow => rows[v].com.id # orders[i][v].id

CartInv ==
    /\ TypeOK /\ CallsAreMade /\ RowsAreKnown
    /\ LocksArePending /\ ReadIsTaken /\ OrderedIsGone

\* The orders whose handlers are not done.
Awaited(p) == {w.call : w \in p.waiting} \cup p.leaving

\* As long as nothing is lost or left, the order the page waits for is the
\* only one under way, and its handler the only one that awaits a fetch.
OneIsPlaced ==
    history.mishaps = 0 =>
        /\ \A c \in Clients : serving[c].pc \in Ordering => page.placing = c
        /\ \A d \in Awaited(page) : serving[d].pc = "over"

\* ... and what it has read no order has.
ReadIsNew ==
    history.mishaps = 0 =>
        \A c \in Clients : \A i \in DOMAIN orders : \A v \in Variants :
            /\ serving[c].pc \in {"order", "empty", "commit"}
            /\ serving[c].read[v] # NoRow /\ orders[i][v] # NoRow
            => serving[c].read[v].id # orders[i][v].id

OrderInv == CartInv /\ OneIsPlaced /\ ReadIsNew /\ OrderedOnce

Serving(c) == serving[c].pc \notin {"idle", "over"}

\* While a call is alone no other one is under way: what it has read of the
\* cart is the cart.
AloneIsAlone ==
    \A c \in history.alone :
        /\ \A d \in Clients : d # c => ~Working(d)
        /\ serving[c].pc \in {"order", "empty", "commit"} => serving[c].read = Snapshot(rows)
        /\ serving[c].reply = "done" /\ serving[c].op # "CHECKOUT" => serving[c].view.lines = View.lines

\* The same of a fetch.
FetchIsAlone ==
    page.fetch.at # "none" /\ page.fetch.alone =>
        /\ ~Busy
        /\ page.fetch.at = "back" => page.fetch.view.lines = View.lines

\* The answer to c will show a new cart, or fetch it.
Renews(c) ==
    \/ serving[c].op \in {"ADD", "CHECKOUT"}
    \/ serving[c].pc = "get" \/ serving[c].reply = "done"

\* Where what is shown counts as good, every call the server works on is
\* awaited, and one that may have changed the cart will have it shown anew.
ShownOrRenewed ==
    history.clean =>
        /\ \A c \in Clients : Serving(c) => c \in out
        /\ page.fetch.at = "none" /\ page.cart.lines # View.lines => \E c \in out : Renews(c)

PageInv == CartInv /\ AloneIsAlone /\ FetchIsAlone /\ ShownOrRenewed
-----------------------------------------------------------------------------
\* The shapes of the database and of the calls, and those of the page.

CartTypes ==
    /\ rows \in [Variants -> Cells(Rows)] /\ lastId \in Nat
    /\ \A v \in Held : rows[v].com.qty > 0
    /\ offered \subseteq Variants
    /\ orders \in Seq([Variants -> Rows])
    /\ serving \in [Clients -> Servings]

Fetches == [at : {"none", "sent", "back"}, view : Views, alone : BOOLEAN]

PageTypes ==
    /\ page \in [cart : Views, fetch : Fetches, checkout : BOOLEAN, placing : Clients \cup {Nobody},
                 waiting : SUBSET [call : Clients, placed : BOOLEAN], leaving : SUBSET Clients]
    /\ out \subseteq Clients
    /\ history \in [alone : SUBSET Clients, clean : BOOLEAN, mishaps : 0..MaxMishaps]

LEMMA TypesLemma == TypeOK <=> CartTypes /\ PageTypes
BY DEF TypeOK, CartTypes, PageTypes, Fetches

LEMMA RowLemma ==
    /\ NoRow \in Rows /\ NoRow.id = 0 /\ NoRow.qty = 0
    /\ \A r \in Rows : r.id \in Nat /\ r.qty \in Nat
BY DEF NoRow, Rows

LEMMA CellsLemma ==
    ASSUME CartTypes, NEW v \in Variants
    PROVE  rows[v] \in Cells(Rows) /\ rows[v].com \in Rows /\ rows[v].live \in Rows
           /\ rows[v].by \in Clients \cup {Nobody}
BY DEF CartTypes, Cells

LEMMA ViewLemma ==
    ASSUME CartTypes
    PROVE  /\ View \in Views /\ EmptyView \in Views
           /\ View.lines = [v \in Variants |-> rows[v].com.qty]
<1>1. \A v \in Variants : rows[v].com.qty \in Nat
  BY CellsLemma, RowLemma
<1> QED BY <1>1 DEF View, EmptyView, Views

LEMMA QuietLemma ==
    /\ [v \in Variants |-> NoRow] \in [Variants -> Rows]
    /\ EmptyView \in Views
    /\ Quiet \in Servings
<1>1. [v \in Variants |-> NoRow] \in [Variants -> Rows] /\ EmptyView \in Views
  BY RowLemma DEF EmptyView, Views
<1>2. 0 \in 0..MaxQuantity /\ 0 \in 0..MaxAttempts
  BY CartAssumption
<1> QED BY <1>1, <1>2 DEF Quiet, Servings, Ops, Labels

LEMMA OverLemma ==
    ASSUME CartTypes, NEW c \in Clients, NEW r \in {"none", "done", "refused", "failed"}
    PROVE  /\ Over(c, r) \in Servings
           /\ Over(c, r).pc = "over" /\ Over(c, r).reply = r /\ Over(c, r).op = serving[c].op
           /\ Over(c, r).read = [v \in Variants |-> NoRow] /\ Over(c, r).qty = 0
<1>1. serving[c].op \in Ops
  BY DEF CartTypes, Servings
<1> QED BY <1>1, QuietLemma DEF Over, Quiet, Servings, Labels

LEMMA ReceivedLemma ==
    ASSUME NEW op \in Ops, NEW vs \in SUBSET Variants, NEW q \in 0..MaxQuantity,
           op = "ADD" => q > 0
    PROVE  LET s == Received(op, vs, q)
           IN  /\ s \in Servings /\ s.op = op /\ s.pc = FirstStep(op, q)
               /\ s.pc \in {"add", "find", "cart", "delete"}
               /\ s.pc \in Ordering => op = "CHECKOUT" /\ s.pc = "cart"
               /\ s.pc \in {"add", "find", "update"} => s.qty > 0
               /\ s.reply = "none" /\ s.qty = q /\ s.read = [v \in Variants |-> NoRow]
               /\ s.variants = vs
<1> DEFINE s == Received(op, vs, q)
<1>1. FirstStep(op, q) \in {"add", "find", "cart", "delete"}
  BY DEF FirstStep
<1>2. 0 \in 0..MaxAttempts /\ 1 \in 0..MaxAttempts
  BY CartAssumption
<1>3. Quiet \in Servings /\ Quiet.reply = "none" /\ Quiet.read = [v \in Variants |-> NoRow]
  BY QuietLemma DEF Quiet
<1>4. /\ s \in Servings /\ s.op = op /\ s.pc = FirstStep(op, q) /\ s.qty = q /\ s.variants = vs
      /\ s.reply = "none" /\ s.read = [v \in Variants |-> NoRow]
  BY <1>1, <1>2, <1>3 DEF Received, Servings, Labels
<1>5. /\ FirstStep(op, q) \in Ordering => op = "CHECKOUT" /\ FirstStep(op, q) = "cart"
      /\ FirstStep(op, q) \in {"add", "find", "update"} => q > 0
  BY DEF FirstStep, Ordering
<1> QED BY <1>1, <1>4, <1>5

LEMMA SetLemma ==
    ASSUME CartTypes, NEW c \in Clients, NEW s \in Servings,
           serving' = [serving EXCEPT ![c] = s]
    PROVE  /\ serving' \in [Clients -> Servings] /\ serving'[c] = s
           /\ \A d \in Clients : d # c => serving'[d] = serving[d]
BY DEF CartTypes

LEMMA GotoLemma ==
    ASSUME CartTypes, NEW c \in Clients, NEW label \in Labels, Goto(c, label)
    PROVE  /\ serving' \in [Clients -> Servings]
           /\ serving'[c] = [serving[c] EXCEPT !.pc = label]
           /\ serving'[c].pc = label /\ serving'[c].op = serving[c].op
           /\ serving'[c].qty = serving[c].qty /\ serving'[c].item = serving[c].item
           /\ serving'[c].read = serving[c].read /\ serving'[c].reply = serving[c].reply
           /\ serving'[c].view = serving[c].view
           /\ \A d \in Clients : d # c => serving'[d] = serving[d]
<1> DEFINE s == [serving[c] EXCEPT !.pc = label]
<1>1. serving[c] \in Servings /\ serving' = [serving EXCEPT ![c] = s]
  BY DEF CartTypes, Goto
<1>2. /\ s \in Servings /\ s.pc = label /\ s.op = serving[c].op
      /\ s.qty = serving[c].qty /\ s.item = serving[c].item
      /\ s.read = serving[c].read /\ s.reply = serving[c].reply /\ s.view = serving[c].view
  BY <1>1 DEF Servings
<1> QED BY <1>1, <1>2, SetLemma
-----------------------------------------------------------------------------
\* What a step for the call c may do to the call and to the database.

CallStep(c) ==
    /\ serving' \in [Clients -> Servings]
    /\ \A d \in Clients : d # c => serving'[d] = serving[d]
    /\ serving'[c].pc # "idle"
    /\ serving'[c].reply # "none" => serving'[c].pc = "over"
    /\ serving'[c].pc \in Ordering => serving'[c].op = "CHECKOUT"
    /\ serving'[c].pc \in {"add", "find", "update"} => serving'[c].qty > 0
    /\ serving'[c].pc = "update" => serving'[c].item > 0

KnownThen(row) == row = NoRow \/ row.id \in 1..lastId'

CellStep(v, c) ==
    /\ KnownThen(rows'[v].com)
    /\ rows'[v].com # NoRow => rows'[v].com.qty > 0
    /\ rows'[v].com.id \in {rows[v].com.id, 0} \/ rows'[v].com.id > lastId
    /\ rows[v].by \notin {Nobody, c} => rows'[v] = rows[v]
    /\ rows'[v].by # Nobody =>
        \/ rows'[v].by # c /\ rows'[v] = rows[v]
        \/ rows'[v].by = c /\ rows'[v].live = NoRow /\ serving'[c].pc = "commit"

RowsStep(c) ==
    /\ rows' \in [Variants -> Cells(Rows)]
    /\ lastId' \in Nat /\ lastId <= lastId'
    /\ \A v \in Variants : CellStep(v, c)

\* What c has read is known, and what it commits is taken.
ReadStep(c) ==
    \A v \in Variants :
        /\ KnownThen(serving'[c].read[v])
        /\ serving'[c].pc = "commit" /\ serving'[c].read[v] # NoRow =>
              rows'[v].by = c \/ rows'[v].com.id # serving'[c].read[v].id

OrdersStep(c) ==
    \/ UNCHANGED orders
    \/ /\ At(c, "commit") /\ orders' = Append(orders, serving[c].read)
       /\ \A v \in Variants : rows[v].by = c => rows'[v].com = NoRow

CartStep(c) == CallStep(c) /\ RowsStep(c) /\ ReadStep(c) /\ OrdersStep(c)

\* What a step of the server is besides, for the invariants of the page.
Work(c) ==
    /\ Serving(c) /\ serving[c].reply = "none"
    /\ serving'[c].op = serving[c].op
    /\ serving'[c].pc \in Ordering => serving[c].pc \in Ordering
    /\ serving[c].pc = "get" => serving'[c].reply = "done"
    /\ \/ \A v \in Variants : rows'[v].com.qty = rows[v].com.qty
       \/ Renews(c)'
    /\ serving'[c].pc \in {"order", "empty", "commit"} =>
          /\ Snapshot(rows') = Snapshot(rows)
          /\ \/ serving'[c].read = Snapshot(rows)
             \/ /\ serving'[c].read = serving[c].read
                /\ serving[c].pc \in {"order", "empty", "commit"}
    /\ serving'[c].reply = "done" /\ serving'[c].op # "CHECKOUT" =>
          /\ serving'[c].view.lines = View.lines /\ UNCHANGED rows
    /\ orders' # orders =>
          /\ At(c, "commit") /\ orders' = Append(orders, serving[c].read)
          /\ serving'[c].pc = "over"

\* Rows left alone.
LEMMA SameRowsLemma ==
    ASSUME CartInv, NEW c \in Clients, UNCHANGED <<rows, lastId>>,
           At(c, "commit") => serving'[c].pc = "commit"
    PROVE  RowsStep(c)
<1>1. CartTypes
  BY TypesLemma DEF CartInv
<1>2. ASSUME NEW v \in Variants PROVE CellStep(v, c)
  <2>1. rows[v].com \in Rows /\ Known(rows[v].com)
    BY <1>1, CellsLemma DEF CartInv, RowsAreKnown
  <2>2. rows[v].com # NoRow => rows[v].com.qty > 0
    BY <1>1 DEF CartTypes, Held
  <2>3. rows[v].by # Nobody => At(rows[v].by, "commit") /\ rows[v].live = NoRow
    BY DEF CartInv, LocksArePending
  <2> QED BY <2>1, <2>2, <2>3 DEF CellStep, KnownThen, Known
<1> QED BY <1>1, <1>2 DEF RowsStep, CartTypes

LEMMA NoReadLemma ==
    ASSUME NEW c \in Clients, serving'[c].read = [v \in Variants |-> NoRow]
    PROVE  ReadStep(c)
BY DEF ReadStep, KnownThen

\* A row written by a single statement: it was free.
LEMMA WriteRowLemma ==
    ASSUME CartInv, NEW c \in Clients, NEW v \in Variants, NEW row \in Rows,
           ~At(c, "commit"), Free(rows[v], c), Write(v, row),
           lastId' \in Nat, lastId <= lastId',
           row.id \in 1..lastId', row.qty > 0,
           row.id = rows[v].com.id \/ row.id > lastId
    PROVE  RowsStep(c)
<1>1. CartTypes
  BY TypesLemma DEF CartInv
<1>2. Cell(row) \in Cells(Rows) /\ Cell(row).com = row /\ Cell(row).by = Nobody
  BY DEF Cell, Cells
<1>3. /\ rows' \in [Variants -> Cells(Rows)] /\ rows'[v] = Cell(row)
      /\ \A w \in Variants : w # v => rows'[w] = rows[w]
  BY <1>1, <1>2 DEF Write, CartTypes
<1>4. ASSUME NEW w \in Variants PROVE CellStep(w, c)
  <2>1. CASE w = v
    BY <1>2, <1>3, <2>1 DEF CellStep, KnownThen, Free
  <2>2. CASE w # v
    <3>1. rows[w].com \in Rows /\ Known(rows[w].com)
      BY <1>1, CellsLemma DEF CartInv, RowsAreKnown
    <3>2. rows[w].com # NoRow => rows[w].com.qty > 0
      BY <1>1 DEF CartTypes, Held
    <3>3. rows[w].by # Nobody => At(rows[w].by, "commit") /\ rows[w].live = NoRow
      BY DEF CartInv, LocksArePending
    <3>4. KnownThen(rows[w].com)
      BY <1>1, <3>1, RowLemma DEF Known, KnownThen, CartTypes
    <3> QED BY <1>3, <2>2, <3>2, <3>3, <3>4 DEF CellStep
  <2> QED BY <2>1, <2>2
<1> QED BY <1>3, <1>4 DEF RowsStep

\* The units and the row of one line may change; the answer will show them.
LEMMA LineLemma ==
    ASSUME CartInv, NEW c \in Clients, serving[c].pc \in {"add", "update", "delete"},
           Goto(c, "get"), RowsStep(c), UNCHANGED orders
    PROVE  CartStep(c) /\ Work(c)
<1>1. CartTypes /\ "get" \in Labels
  BY TypesLemma DEF CartInv, Labels
<1>2. /\ serving' \in [Clients -> Servings] /\ serving'[c].pc = "get" /\ serving'[c].op = serving[c].op
      /\ serving'[c].read = serving[c].read /\ serving'[c].reply = serving[c].reply
      /\ \A d \in Clients : d # c => serving'[d] = serving[d]
  BY <1>1, GotoLemma
<1>3. serving[c].reply = "none"
  BY DEF CartInv, CallsAreMade
<1>4. CallStep(c)
  BY <1>2, <1>3 DEF CallStep, Ordering
<1>5. ReadStep(c)
  <2>1. \A v \in Variants : Known(serving[c].read[v]) /\ serving[c].read[v] \in Rows
    BY <1>1 DEF CartInv, RowsAreKnown, CartTypes, Servings
  <2>2. \A v \in Variants : KnownThen(serving[c].read[v])
    BY <1>1, <2>1, RowLemma DEF Known, KnownThen, RowsStep, CartTypes
  <2> QED BY <1>2, <2>2 DEF ReadStep
<1>6. Renews(c)'
  BY <1>2 DEF Renews
<1> QED BY <1>2, <1>3, <1>4, <1>5, <1>6 DEF CartStep, OrdersStep, Work, Serving, Ordering
LEMMA AddItemLemma ==
    ASSUME CartInv, NEW c \in Clients, NEW v \in Variants, AddItem(c, v)
    PROVE  CartStep(c) /\ Work(c)
<1> DEFINE row == IF rows[v].com = NoRow THEN [id |-> lastId + 1, qty |-> serving[c].qty]
                  ELSE [rows[v].com EXCEPT !.qty = @ + serving[c].qty]
<1>1. CartTypes /\ lastId \in Nat /\ rows[v].com \in Rows
  BY CellsLemma, TypesLemma DEF CartInv, CartTypes
<1>2. serving[c].pc = "add" /\ serving[c].qty > 0 /\ serving[c].qty \in Nat
  BY <1>1, CartAssumption DEF AddItem, At, CartInv, CallsAreMade, CartTypes, Servings
<1>3. Known(rows[v].com) /\ (rows[v].com # NoRow => rows[v].com.qty > 0)
  BY <1>1 DEF CartInv, RowsAreKnown, CartTypes, Held
<1>4. lastId' = IF rows[v].com = NoRow THEN lastId + 1 ELSE lastId
  BY DEF AddItem
<1>5. /\ row \in Rows /\ row.id \in 1..lastId' /\ row.qty > 0
      /\ row.id = rows[v].com.id \/ row.id > lastId
  <2>1. CASE rows[v].com = NoRow
    BY <1>1, <1>2, <1>4, <2>1 DEF Rows
  <2>2. CASE rows[v].com # NoRow
    BY <1>1, <1>2, <1>3, <1>4, <2>2 DEF Rows, Known
  <2> QED BY <2>1, <2>2
<1>6. Write(v, row) /\ Free(rows[v], c) /\ Goto(c, "get") /\ UNCHANGED orders
  BY DEF AddItem
<1> HIDE DEF row
<1>7. RowsStep(c)
  BY <1>1, <1>2, <1>4, <1>5, <1>6, WriteRowLemma DEF At
<1> QED BY <1>2, <1>6, <1>7, LineLemma

\* Nothing is written, and the call goes on.
LEMMA LookLemma ==
    ASSUME CartInv, NEW c \in Clients, NEW s \in Servings,
           serving[c].pc \in {"add", "find", "update", "cart", "order"},
           serving' = [serving EXCEPT ![c] = s], UNCHANGED <<rows, lastId, orders>>,
           s.op = serving[c].op, s.reply # "done",
           s.reply # "none" => s.pc = "over",
           s.pc \in {"over", "update", "order", "empty"},
           s.pc = "update" => s.item > 0 /\ s.qty > 0,
           s.pc \in {"order", "empty"} => s.op = "CHECKOUT" /\ serving[c].pc \in {"cart", "order"},
           \/ s.read = [v \in Variants |-> NoRow] /\ s.pc = "over"
           \/ s.read = serving[c].read /\ (s.pc = "empty" => serving[c].pc = "order") /\ s.pc # "order"
           \/ s.read = Snapshot(rows)
    PROVE  CartStep(c) /\ Work(c)
<1>1. CartTypes
  BY TypesLemma DEF CartInv
<1>2. /\ serving' \in [Clients -> Servings] /\ serving'[c] = s
      /\ \A d \in Clients : d # c => serving'[d] = serving[d]
  BY <1>1, SetLemma
<1>3. CallStep(c)
  BY <1>2 DEF CallStep, Ordering
<1>4. RowsStep(c)
  BY SameRowsLemma DEF At
<1>5. \A v \in Variants : Known(s.read[v])
  <2>1. CASE s.read = Snapshot(rows)
    BY <1>1, <2>1 DEF CartInv, RowsAreKnown, Snapshot, CartTypes
  <2> QED BY <2>1 DEF CartInv, RowsAreKnown, Known
<1>6. ReadStep(c)
  BY <1>2, <1>5 DEF ReadStep, KnownThen, Known
<1>7. serving[c].reply = "none"
  BY DEF CartInv, CallsAreMade
<1>8. Work(c)
  <2>1. s.pc \in {"order", "empty"} =>
          \/ s.read = Snapshot(rows)
          \/ s.read = serving[c].read /\ serving[c].pc = "order"
    OBVIOUS
  <2> QED BY <1>2, <1>7, <2>1 DEF Work, Serving, Ordering
<1> QED BY <1>3, <1>4, <1>6, <1>8 DEF CartStep, OrdersStep

LEMMA RefusedLemma ==
    ASSUME CartInv, NEW c \in Clients, Reply(c, "refused"), UNCHANGED <<rows, lastId, orders>>,
           serving[c].pc \in {"add", "find", "update", "cart", "order"}
    PROVE  CartStep(c) /\ Work(c)
<1> DEFINE s == Over(c, "refused")
<1>1. CartTypes
  BY TypesLemma DEF CartInv
<1>2. /\ s \in Servings /\ s.pc = "over" /\ s.reply = "refused" /\ s.op = serving[c].op
      /\ s.read = [v \in Variants |-> NoRow]
  BY <1>1, OverLemma
<1>3. serving' = [serving EXCEPT ![c] = s]
  BY DEF Reply
<1> HIDE DEF s
<1> QED BY <1>2, <1>3, LookLemma

LEMMA FindItemLemma ==
    ASSUME CartInv, NEW c \in Clients, NEW v \in Variants, FindItem(c, v)
    PROVE  CartStep(c) /\ Work(c)
<1>1. CartTypes /\ serving[c].pc = "find" /\ serving[c].qty > 0 /\ serving[c].reply = "none"
  BY TypesLemma DEF CartInv, CallsAreMade, FindItem, At
<1>2. UNCHANGED <<rows, lastId, orders>>
  BY DEF FindItem
<1>3. CASE v \in Held
  <2> DEFINE s == [serving[c] EXCEPT !.item = rows[v].com.id, !.pc = "update"]
  <2>1. rows[v].com \in Rows /\ Known(rows[v].com) /\ rows[v].com # NoRow
    BY <1>1, <1>3, CellsLemma DEF CartInv, RowsAreKnown, Held
  <2>2. rows[v].com.id \in Nat /\ rows[v].com.id > 0
    BY <1>1, <2>1 DEF Known, Rows, CartTypes
  <2>3. serving[c] \in Servings
    BY <1>1 DEF CartTypes
  <2>4. /\ s \in Servings /\ s.pc = "update" /\ s.item > 0 /\ s.qty > 0 /\ s.op = serving[c].op
        /\ s.reply = "none" /\ s.read = serving[c].read
    BY <1>1, <2>2, <2>3 DEF Servings, Labels
  <2>5. serving' = [serving EXCEPT ![c] = s]
    BY <1>1, <1>3 DEF FindItem, CartTypes
  <2> HIDE DEF s
  <2> QED BY <1>1, <1>2, <2>4, <2>5, LookLemma
<1>4. CASE v \notin Held
  BY <1>1, <1>2, <1>4, RefusedLemma DEF FindItem
<1> QED BY <1>3, <1>4

LEMMA UpdateItemLemma ==
    ASSUME CartInv, NEW c \in Clients, NEW v \in Variants, UpdateItem(c, v)
    PROVE  CartStep(c) /\ Work(c)
<1>1. /\ CartTypes /\ serving[c].pc = "update" /\ serving[c].qty > 0 /\ serving[c].item > 0
      /\ serving[c].qty \in Nat /\ lastId \in Nat
  BY TypesLemma, CartAssumption DEF CartInv, CallsAreMade, UpdateItem, At, CartTypes, Servings
<1>2. UNCHANGED <<lastId, orders>>
  BY DEF UpdateItem
<1>3. CASE rows[v].com.id = serving[c].item
  <2> DEFINE row == [rows[v].com EXCEPT !.qty = serving[c].qty]
  <2>1. rows[v].com \in Rows /\ Known(rows[v].com) /\ rows[v].com # NoRow
    BY <1>1, <1>3, CellsLemma, RowLemma DEF CartInv, RowsAreKnown
  <2>2. row \in Rows /\ row.id = rows[v].com.id /\ row.qty > 0 /\ row.id \in 1..lastId'
    BY <1>1, <1>2, <2>1 DEF Rows, Known
  <2>3. Free(rows[v], c) /\ Write(v, row) /\ Goto(c, "get")
    BY <1>3 DEF UpdateItem
  <2> HIDE DEF row
  <2>4. RowsStep(c)
    BY <1>1, <1>2, <2>2, <2>3, WriteRowLemma DEF At
  <2> QED BY <1>1, <1>2, <2>3, <2>4, LineLemma
<1>4. CASE rows[v].com.id # serving[c].item
  BY <1>1, <1>2, <1>4, RefusedLemma DEF UpdateItem
<1> QED BY <1>3, <1>4

LEMMA DeleteItemsLemma ==
    ASSUME CartInv, NEW c \in Clients, DeleteItems(c)
    PROVE  CartStep(c) /\ Work(c)
<1>1. CartTypes /\ serving[c].pc = "delete" /\ UNCHANGED <<lastId, orders>> /\ Goto(c, "get")
  BY TypesLemma DEF CartInv, DeleteItems, At
<1>2. Cell(NoRow) \in Cells(Rows) /\ Cell(NoRow).com = NoRow /\ Cell(NoRow).by = Nobody
  BY RowLemma DEF Cell, Cells
<1>3. /\ rows' \in [Variants -> Cells(Rows)]
      /\ \A v \in Variants : \/ rows'[v] = rows[v]
                             \/ rows'[v] = Cell(NoRow) /\ Free(rows[v], c)
  BY <1>1, <1>2 DEF DeleteItems, CartTypes
<1>4. ASSUME NEW v \in Variants PROVE CellStep(v, c)
  <2>1. CASE rows'[v] = Cell(NoRow) /\ Free(rows[v], c)
    BY <1>2, <2>1, RowLemma DEF CellStep, KnownThen, Free
  <2>2. CASE rows'[v] = rows[v]
    <3>1. rows[v].com \in Rows /\ Known(rows[v].com)
      BY <1>1, CellsLemma DEF CartInv, RowsAreKnown
    <3>2. rows[v].com # NoRow => rows[v].com.qty > 0
      BY <1>1 DEF CartTypes, Held
    <3>3. rows[v].by # Nobody => At(rows[v].by, "commit") /\ rows[v].live = NoRow
      BY DEF CartInv, LocksArePending
    <3> QED BY <1>1, <2>2, <3>1, <3>2, <3>3 DEF CellStep, KnownThen, Known, At
  <2> QED BY <1>3, <2>1, <2>2
<1>5. RowsStep(c)
  BY <1>1, <1>3, <1>4 DEF RowsStep, CartTypes
<1> QED BY <1>1, <1>5, LineLemma

LEMMA GetLemma ==
    ASSUME CartInv, NEW c \in Clients, Get(c)
    PROVE  CartStep(c) /\ Work(c)
<1> DEFINE s == [Over(c, "done") EXCEPT !.view = View]
<1>1. CartTypes /\ serving[c].pc = "get" /\ UNCHANGED <<rows, lastId, orders>>
      /\ serving' = [serving EXCEPT ![c] = s]
  BY TypesLemma DEF CartInv, Get, At
<1>2. /\ Over(c, "done") \in Servings
      /\ Over(c, "done").pc = "over" /\ Over(c, "done").reply = "done" /\ Over(c, "done").op = serving[c].op
      /\ Over(c, "done").read = [v \in Variants |-> NoRow]
  BY <1>1, OverLemma
<1>3. View \in Views
  BY <1>1, ViewLemma
<1>4. /\ s \in Servings /\ s.pc = "over" /\ s.reply = "done" /\ s.op = serving[c].op
      /\ s.read = [v \in Variants |-> NoRow] /\ s.view = View
  BY <1>2, <1>3 DEF Servings
<1> HIDE DEF s
<1>5. /\ serving' \in [Clients -> Servings] /\ serving'[c] = s
      /\ \A d \in Clients : d # c => serving'[d] = serving[d]
  BY <1>1, <1>4, SetLemma
<1>6. CallStep(c)
  BY <1>4, <1>5 DEF CallStep, Ordering
<1>7. RowsStep(c)
  BY <1>1, SameRowsLemma DEF At
<1>8. ReadStep(c)
  BY <1>4, <1>5, NoReadLemma
<1>9. serving[c].reply = "none"
  BY <1>1 DEF CartInv, CallsAreMade
<1>10. Work(c)
  BY <1>1, <1>4, <1>5, <1>9 DEF Work, Serving, Ordering
<1> QED BY <1>1, <1>6, <1>7, <1>8, <1>10 DEF CartStep, OrdersStep

LEMMA ReadCartLemma ==
    ASSUME CartInv, NEW c \in Clients, ReadCart(c)
    PROVE  CartStep(c) /\ Work(c)
<1>1. CartTypes /\ serving[c].pc = "cart" /\ UNCHANGED <<rows, lastId, orders>>
  BY TypesLemma DEF CartInv, ReadCart, At
<1>2. serving[c] \in Servings /\ serving[c].op = "CHECKOUT" /\ serving[c].reply = "none"
  BY <1>1 DEF CartInv, CallsAreMade, CartTypes, Ordering
<1>3. CASE Held = {}
  BY <1>1, <1>3, RefusedLemma DEF ReadCart
<1>4. CASE Held # {}
  <2> DEFINE s == [serving[c] EXCEPT !.read = Snapshot(rows), !.pc = "order"]
  <2>1. Snapshot(rows) \in [Variants -> Rows]
    <3>1. \A v \in Variants : rows[v].com \in Rows
      BY <1>1, CellsLemma
    <3> QED BY <1>1, <3>1 DEF Snapshot, CartTypes
  <2>2. /\ s \in Servings /\ s.pc = "order" /\ s.op = serving[c].op /\ s.reply = "none"
        /\ s.read = Snapshot(rows)
    BY <1>2, <2>1 DEF Servings, Labels
  <2>3. serving' = [serving EXCEPT ![c] = s]
    BY <1>1, <1>4 DEF ReadCart, CartTypes
  <2> HIDE DEF s
  <2> QED BY <1>1, <1>2, <2>2, <2>3, LookLemma
<1> QED BY <1>3, <1>4

LEMMA CreateOrderLemma ==
    ASSUME CartInv, NEW c \in Clients, CreateOrder(c)
    PROVE  CartStep(c) /\ Work(c)
<1>1. CartTypes /\ serving[c].pc = "order" /\ UNCHANGED <<rows, lastId, orders>>
  BY TypesLemma DEF CartInv, CreateOrder, At
<1>2. serving[c] \in Servings /\ serving[c].op = "CHECKOUT" /\ serving[c].reply = "none"
  BY <1>1 DEF CartInv, CallsAreMade, CartTypes, Ordering
<1>3. CASE Bought(c) \subseteq offered
  <2> DEFINE s == [serving[c] EXCEPT !.pc = "empty"]
  <2>1. /\ s \in Servings /\ s.pc = "empty" /\ s.op = serving[c].op /\ s.reply = "none"
        /\ s.read = serving[c].read
    BY <1>2 DEF Servings, Labels
  <2>2. serving' = [serving EXCEPT ![c] = s]
    BY <1>1, <1>3 DEF CreateOrder, Goto, CartTypes
  <2> HIDE DEF s
  <2> QED BY <1>1, <1>2, <2>1, <2>2, LookLemma
<1>4. CASE ~(Bought(c) \subseteq offered)
  BY <1>1, <1>4, RefusedLemma DEF CreateOrder
<1> QED BY <1>3, <1>4
LEMMA EmptyCartLemma ==
    ASSUME CartInv, NEW c \in Clients, EmptyCart(c)
    PROVE  CartStep(c) /\ Work(c)
<1>1. CartTypes /\ serving[c].pc = "empty" /\ UNCHANGED <<lastId, orders>> /\ Goto(c, "commit")
      /\ "commit" \in Labels
  BY TypesLemma DEF CartInv, EmptyCart, At, Labels
<1>2. /\ serving[c].op = "CHECKOUT" /\ serving[c].reply = "none"
  BY <1>1 DEF CartInv, CallsAreMade, Ordering
<1>3. /\ serving' \in [Clients -> Servings] /\ serving'[c].pc = "commit" /\ serving'[c].op = serving[c].op
      /\ serving'[c].read = serving[c].read /\ serving'[c].reply = serving[c].reply
      /\ \A d \in Clients : d # c => serving'[d] = serving[d]
  BY <1>1, GotoLemma
<1>4. CallStep(c)
  BY <1>2, <1>3 DEF CallStep
<1>5. ASSUME NEW v \in Variants
      PROVE  /\ Written(rows[v], c, NoRow) \in Cells(Rows) /\ Written(rows[v], c, NoRow).com = rows[v].com
             /\ Written(rows[v], c, NoRow).live = NoRow /\ Written(rows[v], c, NoRow).by = c
  BY <1>1, CellsLemma, RowLemma DEF Written, Cells
<1>6. /\ rows' \in [Variants -> Cells(Rows)]
      /\ \A v \in Variants : rows'[v] = IF v \in Held THEN Written(rows[v], c, NoRow) ELSE rows[v]
      /\ \A v \in Held : Free(rows[v], c)
  BY <1>1, <1>5 DEF EmptyCart, CartTypes
<1>7. ASSUME NEW v \in Variants PROVE CellStep(v, c) /\ rows'[v].com = rows[v].com
  <2>1. rows[v].com \in Rows /\ Known(rows[v].com)
    BY <1>1, CellsLemma DEF CartInv, RowsAreKnown
  <2>2. rows[v].com # NoRow => rows[v].com.qty > 0
    BY <1>1 DEF CartTypes, Held
  <2>3. rows[v].by # Nobody => At(rows[v].by, "commit") /\ rows[v].live = NoRow
    BY DEF CartInv, LocksArePending
  <2>4. CASE v \in Held
    BY <1>1, <1>3, <1>5, <1>6, <2>1, <2>2, <2>4 DEF CellStep, KnownThen, Known, Free
  <2>5. CASE v \notin Held
    BY <1>1, <1>3, <1>6, <2>1, <2>2, <2>3, <2>5 DEF CellStep, KnownThen, Known, At
  <2> QED BY <2>4, <2>5
<1>8. RowsStep(c)
  BY <1>1, <1>6, <1>7 DEF RowsStep, CartTypes
<1>9. ReadStep(c)
  <2> SUFFICES ASSUME NEW v \in Variants
               PROVE  /\ KnownThen(serving[c].read[v])
                      /\ serving[c].read[v] # NoRow =>
                            rows'[v].by = c \/ rows'[v].com.id # serving[c].read[v].id
    BY <1>3 DEF ReadStep
  <2>1. Known(serving[c].read[v])
    BY DEF CartInv, RowsAreKnown
  <2>2. v \notin Held => rows'[v].com.id = 0
    BY <1>7, RowLemma DEF Held
  <2> QED BY <1>1, <1>5, <1>6, <2>1, <2>2 DEF Known, KnownThen
<1>10. Snapshot(rows') = Snapshot(rows)
  BY <1>1, <1>6, <1>7 DEF Snapshot, CartTypes
<1>11. Work(c)
  BY <1>1, <1>2, <1>3, <1>7, <1>10 DEF Work, Serving, Ordering
<1> QED BY <1>1, <1>4, <1>8, <1>9, <1>11 DEF CartStep, OrdersStep

\* The end of the transaction of c: its cells are closed on one of their
\* versions.
LEMMA EndRowsLemma ==
    ASSUME CartInv, NEW c \in Clients, UNCHANGED lastId,
           rows' = Committed(rows, c) \/ rows' = RolledBack(rows, c)
    PROVE  /\ RowsStep(c)
           /\ rows' = Committed(rows, c) => \A v \in Variants : rows[v].by = c => rows'[v].com = NoRow
           /\ rows' = RolledBack(rows, c) =>
                Snapshot(rows') = Snapshot(rows) /\ \A v \in Variants : rows'[v].com = rows[v].com
<1>1. CartTypes /\ DOMAIN rows = Variants
  BY TypesLemma DEF CartInv, CartTypes
<1>2. /\ rows' \in [Variants -> Cells(Rows)]
      /\ \A v \in Variants :
            rows'[v] = IF rows[v].by = c
                       THEN Cell(IF rows' = Committed(rows, c) THEN rows[v].live ELSE rows[v].com)
                       ELSE rows[v]
  BY <1>1, EndLemma DEF CartTypes
<1>3. ASSUME NEW v \in Variants
      PROVE  /\ CellStep(v, c)
             /\ rows' = Committed(rows, c) => (rows[v].by = c => rows'[v].com = NoRow)
             /\ rows' = Committed(rows, c) \/ rows'[v].com = rows[v].com
             /\ rows[v].by # c => rows'[v].com = rows[v].com
  <2>1. rows[v].com \in Rows /\ Known(rows[v].com)
    BY <1>1, CellsLemma DEF CartInv, RowsAreKnown
  <2>2. rows[v].com # NoRow => rows[v].com.qty > 0
    BY <1>1 DEF CartTypes, Held
  <2>3. rows[v].by # Nobody => At(rows[v].by, "commit") /\ rows[v].live = NoRow
    BY DEF CartInv, LocksArePending
  <2>4. \A r : Cell(r).com = r /\ Cell(r).by = Nobody
    BY DEF Cell
  <2>5. CASE rows[v].by = c
    <3>1. rows'[v].by = Nobody /\ rows'[v].com \in {NoRow, rows[v].com}
          /\ (rows' = Committed(rows, c) => rows'[v].com = NoRow)
          /\ (rows' # Committed(rows, c) => rows'[v].com = rows[v].com)
      BY <1>2, <2>3, <2>4, <2>5, NobodyAssumption
    <3> QED BY <1>1, <2>1, <2>2, <2>5, <3>1, RowLemma DEF CellStep, KnownThen, Known
  <2>6. CASE rows[v].by # c
    BY <1>1, <1>2, <2>1, <2>2, <2>3, <2>6 DEF CellStep, KnownThen, Known
  <2> QED BY <2>5, <2>6
<1>4. RowsStep(c)
  BY <1>1, <1>2, <1>3 DEF RowsStep, CartTypes
<1>5. ASSUME rows' = RolledBack(rows, c), NEW v \in Variants PROVE rows'[v].com = rows[v].com
  <2>1. \A r : Cell(r).com = r
    BY DEF Cell
  <2>2. rows'[v] = IF rows[v].by = c THEN Cell(rows[v].com) ELSE rows[v]
    BY <1>1, <1>5, EndLemma DEF CartTypes
  <2> QED BY <2>1, <2>2
<1>6. rows' = RolledBack(rows, c) => Snapshot(rows') = Snapshot(rows)
  BY <1>1, <1>2, <1>5 DEF Snapshot
<1> QED BY <1>3, <1>4, <1>5, <1>6

LEMMA CommitOrderLemma ==
    ASSUME CartInv, NEW c \in Clients, CommitOrder(c)
    PROVE  CartStep(c) /\ Work(c)
<1>1. /\ CartTypes /\ serving[c].pc = "commit" /\ UNCHANGED lastId /\ rows' = Committed(rows, c)
      /\ orders' = Append(orders, serving[c].read)
  BY TypesLemma DEF CartInv, CommitOrder, At
<1>2. serving[c].op = "CHECKOUT" /\ serving[c].reply = "none"
  BY <1>1 DEF CartInv, CallsAreMade, Ordering
<1>3. PICK r \in {"done", "failed"} : Reply(c, r)
  BY DEF CommitOrder
<1> DEFINE s == Over(c, r)
<1>4. /\ s \in Servings /\ s.pc = "over" /\ s.reply = r /\ s.op = serving[c].op
      /\ s.read = [v \in Variants |-> NoRow]
  BY <1>1, OverLemma
<1>5. serving' = [serving EXCEPT ![c] = s]
  BY <1>3 DEF Reply
<1> HIDE DEF s
<1>6. /\ serving' \in [Clients -> Servings] /\ serving'[c] = s
      /\ \A d \in Clients : d # c => serving'[d] = serving[d]
  BY <1>1, <1>4, <1>5, SetLemma
<1>7. CallStep(c) /\ ReadStep(c)
  BY <1>4, <1>6, NoReadLemma DEF CallStep, Ordering
<1>8. RowsStep(c) /\ \A v \in Variants : rows[v].by = c => rows'[v].com = NoRow
  BY <1>1, EndRowsLemma
<1>9. Renews(c)'
  BY <1>2, <1>4, <1>6 DEF Renews
<1>10. Work(c)
  BY <1>1, <1>2, <1>4, <1>6, <1>9 DEF Work, Serving, Ordering, At
<1> QED BY <1>1, <1>7, <1>8, <1>10 DEF CartStep, OrdersStep, At

LEMMA AbortLemma ==
    ASSUME CartInv, NEW c \in Clients, Abort(c)
    PROVE  CartStep(c) /\ Work(c)
<1>1. /\ CartTypes /\ serving[c].pc \in Ordering /\ UNCHANGED <<lastId, orders>>
      /\ rows' = RolledBack(rows, c)
  BY TypesLemma DEF CartInv, Abort, Ordering
<1>2. serving[c].op = "CHECKOUT" /\ serving[c].reply = "none" /\ serving[c].attempt \in 0..MaxAttempts
  BY <1>1 DEF CartInv, CallsAreMade, Ordering, CartTypes, Servings
<1>3. PICK s \in Servings :
        /\ serving' = [serving EXCEPT ![c] = s] /\ s.op = "CHECKOUT"
        /\ \/ s.pc = "cart" /\ s.reply = "none"
           \/ s.pc = "over" /\ s.reply = "failed"
        /\ s.read = [v \in Variants |-> NoRow]
  <2>1. CASE serving[c].attempt < MaxAttempts
    <3> DEFINE r == Received("CHECKOUT", {}, 0)
               s == [r EXCEPT !.attempt = serving[c].attempt + 1]
    <3>1. /\ r \in Servings /\ r.op = "CHECKOUT" /\ r.pc = "cart" /\ r.reply = "none"
          /\ r.read = [v \in Variants |-> NoRow]
      <4>1. "CHECKOUT" \in Ops /\ {} \in SUBSET Variants /\ 0 \in 0..MaxQuantity
            /\ FirstStep("CHECKOUT", 0) = "cart"
        BY CartAssumption DEF Ops, FirstStep
      <4> QED BY <4>1, ReceivedLemma
    <3> HIDE DEF r
    <3>2. serving[c].attempt + 1 \in 0..MaxAttempts
      BY <1>2, <2>1, CartAssumption
    <3>3. /\ s \in Servings /\ s.op = "CHECKOUT" /\ s.pc = "cart" /\ s.reply = "none"
          /\ s.read = [v \in Variants |-> NoRow]
      BY <3>1, <3>2 DEF Servings
    <3>4. serving' = [serving EXCEPT ![c] = s]
      BY <2>1 DEF Abort, r
    <3> HIDE DEF s
    <3> QED BY <3>3, <3>4
  <2>2. CASE ~(serving[c].attempt < MaxAttempts)
    BY <1>1, <1>2, <2>2, OverLemma DEF Abort, Reply
  <2> QED BY <2>1, <2>2
<1>4. /\ serving' \in [Clients -> Servings] /\ serving'[c] = s
      /\ \A d \in Clients : d # c => serving'[d] = serving[d]
  BY <1>1, <1>3, SetLemma
<1>5. CallStep(c) /\ ReadStep(c)
  BY <1>3, <1>4, NoReadLemma DEF CallStep
<1>6. /\ RowsStep(c) /\ Snapshot(rows') = Snapshot(rows)
      /\ \A v \in Variants : rows'[v].com = rows[v].com
  BY <1>1, EndRowsLemma
<1>7. Work(c)
  BY <1>1, <1>2, <1>3, <1>4, <1>6 DEF Work, Serving, Ordering
<1> QED BY <1>1, <1>5, <1>6, <1>7 DEF CartStep, OrdersStep

LEMMA ServerLemma ==
    ASSUME CartInv, NEW c \in Clients, Serve(c) \/ Abort(c)
    PROVE  CartStep(c) /\ Work(c)
<1>1. CASE RefuseItem(c)
  BY <1>1, RefusedLemma DEF RefuseItem, At
<1> QED BY <1>1, AddItemLemma, FindItemLemma, UpdateItemLemma, DeleteItemsLemma, GetLemma, ReadCartLemma,
           CreateOrderLemma, EmptyCartLemma, CommitOrderLemma, AbortLemma DEF Serve
-----------------------------------------------------------------------------
\* Steps of the page.

\* A call is made: out of nothing, and the server has received it.
LEMMA CallLemma ==
    ASSUME CartInv, NEW c \in Clients, NEW op \in Ops \ {"NONE"}, NEW vs \in SUBSET Variants,
           NEW q \in 0..MaxQuantity, op = "ADD" => q > 0, Call(c, op, vs, q)
    PROVE  /\ CartStep(c) /\ UNCHANGED <<rows, lastId, orders>>
           /\ out' = out \cup {c} /\ serving[c].pc = "idle" /\ c \notin out
           /\ serving'[c].op = op /\ serving'[c].reply = "none"
           /\ serving'[c].pc \in {"add", "find", "cart", "delete"}
           /\ serving'[c].pc \in Ordering => op = "CHECKOUT"
<1>1. CartTypes /\ UNCHANGED <<rows, lastId, orders>> /\ serving[c].pc = "idle" /\ out' = out \cup {c}
  BY TypesLemma DEF CartInv, Call
<1> DEFINE s == Received(op, vs, q)
<1>2. /\ s \in Servings /\ s.op = op
      /\ s.pc \in {"add", "find", "cart", "delete"}
      /\ s.pc \in Ordering => op = "CHECKOUT" /\ s.pc = "cart"
      /\ s.pc \in {"add", "find", "update"} => s.qty > 0
      /\ s.reply = "none" /\ s.read = [v \in Variants |-> NoRow]
  BY ReceivedLemma
<1>3. serving' = [serving EXCEPT ![c] = s]
  BY DEF Call
<1> HIDE DEF s
<1>4. /\ serving' \in [Clients -> Servings] /\ serving'[c] = s
      /\ \A d \in Clients : d # c => serving'[d] = serving[d]
  BY <1>1, <1>2, <1>3, SetLemma
<1>5. CallStep(c)
  BY <1>2, <1>4 DEF CallStep
<1>6. ReadStep(c)
  BY <1>2, <1>4, NoReadLemma
<1>7. RowsStep(c)
  BY <1>1, SameRowsLemma DEF At
<1>8. c \notin out
  BY <1>1 DEF CartInv, CallsAreMade
<1> QED BY <1>1, <1>2, <1>4, <1>5, <1>6, <1>7, <1>8 DEF CartStep, OrdersStep

\* A call is over for the server: nobody awaits it, or it never arrived.
LEMMA ForgetLemma ==
    ASSUME CartInv, NEW c \in Clients, serving' = [serving EXCEPT ![c] = [Quiet EXCEPT !.pc = "over"]],
           ~At(c, "commit"), UNCHANGED <<rows, lastId, orders>>
    PROVE  /\ CartStep(c) /\ serving'[c].pc = "over" /\ serving'[c].reply = "none"
           /\ \A d \in Clients : d # c => serving'[d] = serving[d]
<1> DEFINE s == [Quiet EXCEPT !.pc = "over"]
<1>1. CartTypes
  BY TypesLemma DEF CartInv
<1>2. Quiet \in Servings /\ Quiet.read = [v \in Variants |-> NoRow] /\ Quiet.reply = "none"
  BY QuietLemma DEF Quiet
<1>3. s \in Servings /\ s.pc = "over" /\ s.reply = "none" /\ s.read = [v \in Variants |-> NoRow]
  BY <1>2 DEF Servings, Labels
<1>4. serving' = [serving EXCEPT ![c] = s]
  OBVIOUS
<1> HIDE DEF s
<1>5. /\ serving' \in [Clients -> Servings] /\ serving'[c] = s
      /\ \A d \in Clients : d # c => serving'[d] = serving[d]
  BY <1>1, <1>3, <1>4, SetLemma
<1>6. CallStep(c) /\ ReadStep(c)
  BY <1>3, <1>5, NoReadLemma DEF CallStep, Ordering
<1>7. RowsStep(c)
  BY SameRowsLemma
<1> QED BY <1>3, <1>5, <1>6, <1>7 DEF CartStep, OrdersStep

\* What a step for c keeps of the server's cart.
LEMMA CartStepLemma ==
    ASSUME CartInv, NEW c \in Clients, CartStep(c), PageTypes', offered' \subseteq Variants,
           out' \subseteq out \cup {c}
    PROVE  CartInv'
<1>1. CartTypes
  BY TypesLemma DEF CartInv
<1>2. /\ \A d \in Clients : d # c => serving'[d] = serving[d]
      /\ serving' \in [Clients -> Servings]
      /\ \A v \in Variants : CellStep(v, c)
      /\ rows' \in [Variants -> Cells(Rows)] /\ lastId' \in Nat /\ lastId <= lastId'
  BY DEF CartStep, CallStep, RowsStep
<1>3. serving[c] \in Servings /\ serving[c].read \in [Variants -> Rows]
  BY <1>1 DEF CartTypes, Servings
<1>4. orders' \in Seq([Variants -> Rows])
  BY <1>1, <1>3 DEF CartStep, OrdersStep, CartTypes
<1>5. CartTypes'
  BY <1>2, <1>4 DEF CartTypes, Held, CellStep
<1>6. TypeOK'
  BY <1>5 DEF TypeOK, CartTypes, PageTypes, Fetches
<1>7. CallsAreMade'
  BY <1>2 DEF CartStep, CallStep, CartInv, CallsAreMade
<1>8. RowsAreKnown'
  <2>1. ASSUME NEW v \in Variants PROVE Known(rows[v].com)'
    BY <1>2 DEF CellStep, Known, KnownThen
  <2>2. ASSUME NEW r \in Rows, Known(r) PROVE KnownThen(r)
    BY <1>1, <1>2, <2>2, RowLemma DEF Known, KnownThen, CartTypes
  <2>3. ASSUME NEW d \in Clients, NEW v \in Variants PROVE KnownThen(serving'[d].read[v])
    <3>1. CASE d = c
      BY <3>1 DEF CartStep, ReadStep
    <3>2. CASE d # c
      BY <1>1, <1>2, <2>2, <3>2 DEF CartInv, RowsAreKnown, CartTypes, Servings
    <3> QED BY <3>1, <3>2
  <2>4. ASSUME NEW i \in DOMAIN orders', NEW v \in Variants PROVE KnownThen(orders'[i][v])
    <3>1. ASSUME NEW j \in DOMAIN orders PROVE KnownThen(orders[j][v])
      BY <1>1, <2>2 DEF CartInv, RowsAreKnown, CartTypes
    <3>2. KnownThen(serving[c].read[v])
      BY <1>3, <2>2 DEF CartInv, RowsAreKnown
    <3>3. orders'[i] = serving[c].read \/ (i \in DOMAIN orders /\ orders'[i] = orders[i])
      BY <1>1, <1>3 DEF CartStep, OrdersStep, CartTypes
    <3> QED BY <3>1, <3>2, <3>3
  <2> QED BY <2>1, <2>3, <2>4 DEF RowsAreKnown, Known, KnownThen
<1>9. LocksArePending'
  <2> SUFFICES ASSUME NEW v \in Variants, rows'[v].by # Nobody
               PROVE  serving'[rows'[v].by].pc = "commit" /\ rows'[v].live = NoRow
    BY DEF LocksArePending, At
  <2>1. CASE rows'[v].by # c /\ rows'[v] = rows[v]
    <3>1. At(rows[v].by, "commit") /\ rows[v].live = NoRow /\ rows[v].by \in Clients
      BY <1>1, <2>1, CellsLemma DEF CartInv, LocksArePending
    <3> QED BY <1>2, <2>1, <3>1 DEF At
  <2>2. CASE rows'[v].by = c /\ rows'[v].live = NoRow /\ serving'[c].pc = "commit"
    BY <2>2
  <2> QED BY <1>2, <2>1, <2>2 DEF CellStep
<1>10. ReadIsTaken'
  <2> SUFFICES ASSUME NEW d \in Clients, NEW v \in Variants,
                      serving'[d].pc = "commit", serving'[d].read[v] # NoRow
               PROVE  rows'[v].by = d \/ rows'[v].com.id # serving'[d].read[v].id
    BY DEF ReadIsTaken, At
  <2>1. CASE d = c
    BY <2>1 DEF CartStep, ReadStep
  <2>2. CASE d # c
    <3>1. serving'[d] = serving[d]
      BY <1>2, <2>2
    <3>2. rows[v].by = d \/ rows[v].com.id # serving[d].read[v].id
      BY <3>1 DEF CartInv, ReadIsTaken, At
    <3>3. Known(serving[d].read[v]) /\ serving[d].read[v] \in Rows
      BY <1>1 DEF CartInv, RowsAreKnown, CartTypes, Servings
    <3>4. serving[d].read[v].id \in 1..lastId /\ lastId \in Nat
      BY <1>1, <3>1, <3>3 DEF Known, CartTypes
    <3>5. rows'[v].com.id \in Nat
      BY <1>2, RowLemma DEF Cells
    <3> QED BY <1>2, <2>2, <3>1, <3>2, <3>4, <3>5, NobodyAssumption DEF CellStep
  <2> QED BY <2>1, <2>2
<1>11. OrderedIsGone'
  <2> SUFFICES ASSUME NEW i \in DOMAIN orders', NEW v \in Variants, orders'[i][v] # NoRow
               PROVE  rows'[v].com.id # orders'[i][v].id
    BY DEF OrderedIsGone
  <2>0. rows'[v].com.id \in Nat /\ lastId \in Nat
    BY <1>1, <1>2, RowLemma DEF Cells, CartTypes
  <2>1. CellStep(v, c)
    BY <1>2
  <2>2. CASE i \in DOMAIN orders /\ orders'[i] = orders[i]
    <3>1. rows[v].com.id # orders[i][v].id /\ orders[i][v].id \in 1..lastId
      BY <2>2 DEF CartInv, OrderedIsGone, RowsAreKnown, Known
    <3> QED BY <2>0, <2>1, <2>2, <3>1 DEF CellStep
  <2>3. CASE At(c, "commit") /\ orders'[i] = serving[c].read /\ (rows[v].by = c => rows'[v].com = NoRow)
    <3>1. serving[c].read[v].id \in 1..lastId
      BY <2>3 DEF CartInv, RowsAreKnown, Known
    <3>2. CASE rows[v].by = c
      BY <2>0, <2>3, <3>1, <3>2, RowLemma
    <3>3. CASE rows[v].by # c
      <4>1. rows[v].com.id # serving[c].read[v].id
        BY <2>3, <3>3 DEF CartInv, ReadIsTaken
      <4> QED BY <2>0, <2>1, <2>3, <3>1, <4>1 DEF CellStep
    <3> QED BY <3>2, <3>3
  <2> QED BY <1>1, <1>3, <2>2, <2>3 DEF CartStep, OrdersStep, CartTypes
<1> QED BY <1>6, <1>7, <1>8, <1>9, <1>10, <1>11 DEF CartInv
-----------------------------------------------------------------------------
\* The page's own record.

PageType == [cart : Views, fetch : Fetches, checkout : BOOLEAN, placing : Clients \cup {Nobody},
             waiting : SUBSET [call : Clients, placed : BOOLEAN], leaving : SUBSET Clients]

LEMMA PageTypesLemma ==
    PageTypes <=>
        /\ page \in PageType /\ out \subseteq Clients
        /\ history \in [alone : SUBSET Clients, clean : BOOLEAN, mishaps : 0..MaxMishaps]
BY DEF PageTypes, PageType

LEMMA ResumedLemma ==
    ASSUME NEW p \in PageType
    PROVE  /\ Resumed(p) \in PageType /\ Resumed(p).cart = p.cart /\ Resumed(p).fetch = p.fetch
           /\ Resumed(p).waiting = {} /\ Awaited(Resumed(p)) \subseteq Awaited(p)
           /\ Resumed(p).placing = p.placing \/ p.placing \in Awaited(p)
<1> DEFINE failed == {w \in p.waiting : ~w.placed}
           leaving == p.leaving \cup {w.call : w \in p.waiting \ failed}
           placing == IF p.placing \in {w.call : w \in failed} THEN Nobody ELSE p.placing
<1>1. /\ leaving \in SUBSET Clients /\ leaving \subseteq Awaited(p)
      /\ placing \in Clients \cup {Nobody} /\ (placing = p.placing \/ p.placing \in Awaited(p))
  BY DEF PageType, Awaited
<1>2. Resumed(p) = [p EXCEPT !.waiting = {}, !.leaving = leaving, !.placing = placing]
  BY DEF Resumed, PageType
<1> HIDE DEF leaving, placing
<1>3. /\ Resumed(p) \in PageType /\ Resumed(p).cart = p.cart /\ Resumed(p).fetch = p.fetch
      /\ Resumed(p).waiting = {} /\ Resumed(p).leaving = leaving /\ Resumed(p).placing = placing
  BY <1>1, <1>2 DEF PageType
<1>4. Awaited(Resumed(p)) = leaving
  BY <1>3 DEF Awaited
<1> QED BY <1>1, <1>3, <1>4

LEMMA RefetchingLemma ==
    ASSUME NEW p \in PageType, NEW ws \in SUBSET [call : Clients, placed : BOOLEAN]
    PROVE  /\ Refetching(p, ws) \in PageType /\ Refetching(p, ws).cart = p.cart
           /\ Refetching(p, ws).fetch.at = "sent" /\ Refetching(p, ws).fetch.alone = ~Busy'
           /\ Awaited(Refetching(p, ws)) \subseteq Awaited(p) \cup {w.call : w \in ws}
           /\ Refetching(p, ws).placing = p.placing \/ p.placing \in Awaited(p)
<1> DEFINE r == Resumed(p)
           f == [at |-> "sent", view |-> EmptyView, alone |-> ~Busy']
           q == Refetching(p, ws)
<1>1. /\ r \in PageType /\ r.cart = p.cart /\ r.waiting = {} /\ Awaited(r) \subseteq Awaited(p)
      /\ r.placing = p.placing \/ p.placing \in Awaited(p)
  BY ResumedLemma
<1>2. f \in Fetches
  <2>1. (~Busy') \in BOOLEAN
    OBVIOUS
  <2> QED BY <2>1, QuietLemma DEF Fetches
<1>3. f.at = "sent" /\ f.alone = ~Busy'
  OBVIOUS
<1>4. q = [r EXCEPT !.fetch = f, !.waiting = ws]
  BY DEF Refetching
<1> HIDE DEF r, f, q
<1>5. /\ q \in PageType /\ q.cart = r.cart /\ q.fetch = f /\ q.placing = r.placing
      /\ q.waiting = ws /\ q.leaving = r.leaving
  BY <1>1, <1>2, <1>4 DEF PageType
<1>6. Awaited(q) \subseteq Awaited(p) \cup {w.call : w \in ws}
  BY <1>1, <1>5 DEF Awaited
<1> QED BY <1>1, <1>3, <1>5, <1>6 DEF q

\* The steps by which a call is made.
Makes(c, op) ==
    /\ CartStep(c) /\ UNCHANGED <<rows, lastId, orders, offered>>
    /\ out' = out \cup {c} /\ serving[c].pc = "idle" /\ c \notin out
    /\ serving'[c].reply = "none"
    /\ serving'[c].pc \in {"add", "find", "cart", "delete"}
    /\ serving'[c].pc \in Ordering => op = "CHECKOUT"
    /\ page' \in PageType /\ page'.cart = page.cart /\ Awaited(page') = Awaited(page)
    /\ page'.fetch.at = page.fetch.at /\ ~page'.fetch.alone
    /\ IF op = "CHECKOUT" THEN page.placing = Nobody /\ page'.placing = c
       ELSE page'.placing = page.placing
    /\ history' = [history EXCEPT !.alone = IF Busy \/ page.fetch.at # "none" THEN {} ELSE {c}]

Calling(c) ==
    \/ \E v \in Variants : AddToCart(c, v) \/ ChangeLine(c, v) \/ RemoveLine(c, v)
    \/ PlaceOrder(c)

LEMMA OvertakenLemma ==
    ASSUME page \in PageType
    PROVE  /\ Overtaken \in PageType /\ Overtaken.cart = page.cart /\ Awaited(Overtaken) = Awaited(page)
           /\ Overtaken.placing = page.placing
           /\ Overtaken.fetch.at = page.fetch.at /\ ~Overtaken.fetch.alone
<1>1. page.fetch \in Fetches
  BY DEF PageType
<1>2. [page.fetch EXCEPT !.alone = FALSE] \in Fetches
  BY <1>1 DEF Fetches
<1>3. Overtaken = [page EXCEPT !.fetch = [page.fetch EXCEPT !.alone = FALSE]]
  BY DEF Overtaken, PageType
<1>4. [page.fetch EXCEPT !.alone = FALSE].at = page.fetch.at /\ ~[page.fetch EXCEPT !.alone = FALSE].alone
  BY <1>1 DEF Fetches
<1> DEFINE f == [page.fetch EXCEPT !.alone = FALSE]
<1> HIDE DEF f
<1> QED BY <1>2, <1>3, <1>4 DEF PageType, f, Awaited

LEMMA CallingLemma ==
    ASSUME CartInv, NEW c \in Clients, Calling(c)
    PROVE  \E op \in Ops : Makes(c, op)
<1>1. page \in PageType
  BY TypesLemma, PageTypesLemma DEF CartInv
<1>2. ASSUME NEW op \in Ops \ {"NONE", "CHECKOUT"}, NEW vs \in SUBSET Variants, NEW q \in 0..MaxQuantity,
             op = "ADD" => q > 0, Call(c, op, vs, q), page' = Overtaken
      PROVE  Makes(c, op)
  <2>1. /\ CartStep(c) /\ UNCHANGED <<rows, lastId, orders>>
        /\ out' = out \cup {c} /\ serving[c].pc = "idle" /\ c \notin out
        /\ serving'[c].reply = "none"
        /\ serving'[c].pc \in {"add", "find", "cart", "delete"}
        /\ serving'[c].pc \in Ordering => op = "CHECKOUT"
    BY <1>2, CallLemma
  <2>2. /\ UNCHANGED offered
        /\ history' = [history EXCEPT !.alone = IF Busy \/ page.fetch.at # "none" THEN {} ELSE {c}]
    BY <1>2 DEF Call
  <2> QED BY <1>1, <1>2, <2>1, <2>2, OvertakenLemma DEF Makes
<1>3. 0 \in 0..MaxQuantity /\ 1 \in 0..MaxQuantity /\ \A q \in 1..MaxQuantity : q \in 0..MaxQuantity
  BY CartAssumption
<1>4. /\ "ADD" \in Ops \ {"NONE", "CHECKOUT"} /\ "SET" \in Ops \ {"NONE", "CHECKOUT"}
      /\ "REMOVE" \in Ops \ {"NONE", "CHECKOUT"} /\ "CHECKOUT" \in Ops \ {"NONE"}
  BY DEF Ops
<1>5. ASSUME NEW v \in Variants, AddToCart(c, v) PROVE Makes(c, "ADD")
  BY <1>2, <1>3, <1>4, <1>5 DEF AddToCart
<1>6. ASSUME NEW v \in Variants, ChangeLine(c, v) PROVE Makes(c, "SET")
  <2>1. PICK q \in 1..MaxQuantity : Call(c, "SET", {v}, q)
    BY <1>6 DEF ChangeLine
  <2> QED BY <1>2, <1>3, <1>4, <1>6, <2>1 DEF ChangeLine
<1>7. ASSUME NEW v \in Variants, RemoveLine(c, v) PROVE Makes(c, "REMOVE")
  BY <1>2, <1>3, <1>4, <1>7 DEF RemoveLine
<1>8. CASE PlaceOrder(c)
  <2>1. Call(c, "CHECKOUT", {}, 0)
    BY <1>8 DEF PlaceOrder
  <2>2. /\ CartStep(c) /\ UNCHANGED <<rows, lastId, orders>>
        /\ out' = out \cup {c} /\ serving[c].pc = "idle" /\ c \notin out
        /\ serving'[c].reply = "none"
        /\ serving'[c].pc \in {"add", "find", "cart", "delete"}
    <3>1. "CHECKOUT" \in Ops \ {"NONE"} /\ {} \in SUBSET Variants /\ 0 \in 0..MaxQuantity
          /\ "CHECKOUT" # "ADD"
      BY <1>3, <1>4
    <3> QED BY <2>1, <3>1, CallLemma
  <2>3. /\ UNCHANGED offered
        /\ history' = [history EXCEPT !.alone = IF Busy \/ page.fetch.at # "none" THEN {} ELSE {c}]
    BY <2>1 DEF Call
  <2>4. page.placing = Nobody /\ page' = [Overtaken EXCEPT !.placing = c]
    BY <1>8 DEF PlaceOrder, MayPlace
  <2>5. /\ page' \in PageType /\ page'.cart = page.cart /\ Awaited(page') = Awaited(page)
        /\ page'.fetch.at = page.fetch.at /\ ~page'.fetch.alone /\ page'.placing = c
    <3> HIDE DEF Overtaken
    <3>1. /\ Overtaken \in PageType /\ Overtaken.cart = page.cart /\ Awaited(Overtaken) = Awaited(page)
          /\ Overtaken.fetch.at = page.fetch.at /\ ~Overtaken.fetch.alone
      BY <1>1, OvertakenLemma
    <3> QED BY <2>4, <3>1 DEF PageType, Awaited
  <2>6. Makes(c, "CHECKOUT")
    BY <2>2, <2>3, <2>4, <2>5 DEF Makes
  <2> QED BY <1>4, <2>6
<1> QED BY <1>4, <1>5, <1>6, <1>7, <1>8 DEF Calling
\* How the page goes on: whoever waits for the order under way may be resumed,
\* and only ws wait anew.
Goes(ws) ==
    /\ page' \in PageType
    /\ page'.placing = page.placing \/ page.placing \in Awaited(page)
    /\ Awaited(page') \subseteq Awaited(page) \cup ws

Refetches == page'.cart = page.cart /\ page'.fetch.at = "sent" /\ page'.fetch.alone = ~Busy'

Histories == [alone : SUBSET Clients, clean : BOOLEAN, mishaps : 0..MaxMishaps]

\* The call c ends for the page.
Ends(c) ==
    /\ CartStep(c) /\ UNCHANGED <<rows, lastId, orders, offered>>
    /\ c \in out /\ out' = out \ {c} /\ Goes({c})
    /\ history' \in Histories
    /\ history'.alone = history.alone

Answered(c) ==
    /\ Ends(c) /\ serving[c].pc = "over" /\ serving'[c].pc = "over" /\ serving'[c].reply = "none"
    /\ history'.mishaps = history.mishaps
    /\ \/ Refetches /\ UNCHANGED history
       \/ /\ serving[c].op # "CHECKOUT" /\ serving[c].reply = "done"
          /\ page'.cart = serving[c].view /\ page'.fetch = page.fetch
          /\ history'.clean = (c \in history.alone)
       \/ serving[c].op \notin {"ADD", "CHECKOUT"} /\ serving[c].reply # "done" /\ UNCHANGED <<page, history>>

LEMMA RefetchedLemma ==
    ASSUME CartInv, NEW ws \in SUBSET [call : Clients, placed : BOOLEAN], NEW cs,
           page' = Refetching(page, ws), \A w \in ws : w.call \in cs
    PROVE  Goes(cs) /\ Refetches
<1>1. page \in PageType
  BY TypesLemma, PageTypesLemma DEF CartInv
<1> QED BY <1>1, RefetchingLemma DEF Goes, Refetches

LEMMA AnswerLemma ==
    ASSUME CartInv, NEW c \in Clients, Answer(c)
    PROVE  Answered(c)
<1>1. page \in PageType /\ history \in Histories /\ CartTypes
  BY TypesLemma, PageTypesLemma DEF CartInv, Histories
<1>2. /\ c \in out /\ serving[c].reply # "none" /\ out' = out \ {c}
      /\ serving' = [serving EXCEPT ![c] = [Quiet EXCEPT !.pc = "over"]]
      /\ UNCHANGED <<rows, lastId, offered, orders>>
  BY DEF Answer
<1>3. serving[c].pc = "over" /\ serving[c].view \in Views
  BY <1>1, <1>2 DEF CartInv, CallsAreMade, CartTypes, Servings
<1>4. CartStep(c) /\ serving'[c].pc = "over" /\ serving'[c].reply = "none"
  BY <1>2, <1>3, ForgetLemma DEF At
<1>5. ASSUME NEW placed \in BOOLEAN
      PROVE  /\ {[call |-> c, placed |-> placed]} \in SUBSET [call : Clients, placed : BOOLEAN]
             /\ \A w \in {[call |-> c, placed |-> placed]} : w.call \in {c}
  OBVIOUS
<1>6. CASE serving[c].op = "CHECKOUT"
  <2> DEFINE placed == serving[c].reply = "done"
  <2>1. page' = Refetching(page, {[call |-> c, placed |-> placed]}) /\ UNCHANGED history
    BY <1>6 DEF Answer, AfterOrder
  <2>2. placed \in BOOLEAN
    OBVIOUS
  <2> HIDE DEF placed
  <2>3. Goes({c}) /\ Refetches
    BY <1>5, <2>1, <2>2, RefetchedLemma
  <2> QED BY <1>1, <1>2, <1>3, <1>4, <2>1, <2>3 DEF Answered, Ends
<1>7. CASE serving[c].op # "CHECKOUT" /\ serving[c].reply = "done"
  <2>1. /\ page' = [page EXCEPT !.cart = serving[c].view]
        /\ history' = [history EXCEPT !.clean = (c \in history.alone)]
    BY <1>7 DEF Answer, Shown
  <2>2. page' \in PageType /\ page'.cart = serving[c].view /\ page'.fetch = page.fetch
        /\ page'.placing = page.placing /\ Awaited(page') = Awaited(page)
    BY <1>1, <1>3, <2>1 DEF PageType, Awaited
  <2>3. /\ history' \in Histories /\ history'.alone = history.alone /\ history'.mishaps = history.mishaps
        /\ history'.clean = (c \in history.alone)
    <3> DEFINE b == c \in history.alone
    <3>1. b \in BOOLEAN /\ history' = [history EXCEPT !.clean = b]
      BY <2>1
    <3> HIDE DEF b
    <3>2. /\ history' \in Histories /\ history'.alone = history.alone
          /\ history'.mishaps = history.mishaps /\ history'.clean = b
      BY <1>1, <3>1 DEF Histories
    <3> QED BY <3>2 DEF b
  <2> QED BY <1>2, <1>3, <1>4, <1>7, <2>2, <2>3 DEF Answered, Ends, Goes
<1>8. CASE serving[c].op = "ADD" /\ serving[c].reply # "done"
  <2>1. page' = Refetching(page, {}) /\ UNCHANGED history
    BY <1>8 DEF Answer
  <2>2. Goes({c}) /\ Refetches
    BY <2>1, RefetchedLemma
  <2> QED BY <1>1, <1>2, <1>3, <1>4, <2>1, <2>2 DEF Answered, Ends
<1>9. CASE serving[c].op \notin {"ADD", "CHECKOUT"} /\ serving[c].reply # "done"
  <2>1. UNCHANGED <<page, history>>
    BY <1>9 DEF Answer
  <2> QED BY <1>1, <1>2, <1>3, <1>4, <1>9, <2>1 DEF Answered, Ends, Goes
<1> QED BY <1>6, <1>7, <1>8, <1>9

Lost(c) ==
    /\ Ends(c)
    /\ serving'[c] = serving[c] \/ (serving'[c].pc = "over" /\ serving'[c].reply = "none")
    /\ history'.mishaps # 0 /\ ~history'.clean
    /\ UNCHANGED page \/ Refetches

LEMMA LoseLemma ==
    ASSUME CartInv, NEW c \in Clients, Lose(c)
    PROVE  Lost(c)
<1>1. page \in PageType /\ history \in Histories /\ CartTypes
  BY TypesLemma, PageTypesLemma DEF CartInv, Histories
<1>2. c \in out /\ out' = out \ {c} /\ UNCHANGED <<rows, lastId, offered, orders>>
  BY DEF Lose
<1>3. /\ history' \in Histories /\ history'.alone = history.alone /\ history'.mishaps # 0 /\ ~history'.clean
  <2>1. history' = [history EXCEPT !.mishaps = @ + 1, !.clean = FALSE] /\ history.mishaps < MaxMishaps
    BY DEF Lose, Mishap
  <2>2. history.mishaps + 1 \in 0..MaxMishaps /\ history.mishaps + 1 # 0
    BY <1>1, <2>1, CallsAssumption DEF Histories
  <2> QED BY <1>1, <2>1, <2>2 DEF Histories
<1>4. /\ CartStep(c)
      /\ serving'[c] = serving[c] \/ (serving'[c].pc = "over" /\ serving'[c].reply = "none")
  <2>1. CASE /\ serving' = [serving EXCEPT ![c] = [Quiet EXCEPT !.pc = "over"]]
             /\ serving[c].pc = FirstStep(serving[c].op, serving[c].qty)
    <3>1. ~At(c, "commit")
      BY <2>1 DEF FirstStep, At
    <3> QED BY <1>2, <2>1, <3>1, ForgetLemma
  <2>2. CASE UNCHANGED serving
    <3>1. RowsStep(c)
      BY <1>2, <2>2, SameRowsLemma DEF At
    <3>2. CallStep(c)
      BY <1>1, <1>2, <2>2 DEF CallStep, CartInv, CallsAreMade, CartTypes
    <3>3. ReadStep(c)
      BY <1>2, <2>2 DEF ReadStep, CartInv, RowsAreKnown, ReadIsTaken, Known, KnownThen, At
    <3> QED BY <1>2, <2>2, <3>1, <3>2, <3>3 DEF CartStep, OrdersStep
  <2> QED BY <2>1, <2>2 DEF Lose
<1>5. Goes({c}) /\ (UNCHANGED page \/ Refetches)
  <2>1. CASE serving[c].op = "CHECKOUT"
    <3>1. page' = Refetching(page, {[call |-> c, placed |-> FALSE]})
      BY <2>1 DEF Lose, AfterOrder
    <3>2. /\ {[call |-> c, placed |-> FALSE]} \in SUBSET [call : Clients, placed : BOOLEAN]
          /\ \A w \in {[call |-> c, placed |-> FALSE]} : w.call \in {c}
      OBVIOUS
    <3> QED BY <3>1, <3>2, RefetchedLemma
  <2>2. CASE serving[c].op = "ADD"
    <3>1. page' = Refetching(page, {})
      BY <2>2 DEF Lose
    <3> QED BY <3>1, RefetchedLemma
  <2>3. CASE serving[c].op \notin {"ADD", "CHECKOUT"}
    BY <1>1, <2>3 DEF Lose, Goes
  <2> QED BY <2>1, <2>2, <2>3
<1> QED BY <1>2, <1>3, <1>4, <1>5 DEF Lost, Ends

\* What the page does without a call of its own.
Browses ==
    /\ UNCHANGED <<cartVars, out>>
    /\ history' \in Histories /\ history'.alone = history.alone
    /\ \/ Goes({}) /\ history'.mishaps = history.mishaps
       \/ history'.mishaps # 0 /\ page' \in PageType
    /\ \/ Refetches /\ UNCHANGED history
       \/ page'.cart = page.cart /\ page'.fetch = page.fetch /\ history'.clean = history.clean
       \/ page'.cart = page.cart /\ page'.fetch.at = "back" /\ page'.fetch.view = View
            /\ page.fetch.at # "none" /\ page'.fetch.alone = page.fetch.alone /\ UNCHANGED history
       \/ page.fetch.at = "back" /\ page'.cart = page.fetch.view /\ page'.fetch.at = "none"
            /\ history'.clean = page.fetch.alone
       \/ page'.fetch.at = "none" /\ ~history'.clean

Browsing ==
    \/ OpenCheckout \/ Leave \/ ServeFetch \/ FetchAnswered \/ FetchFails
    \/ \E c \in Clients : Navigate(c)

LEMMA BrowsingLemma ==
    ASSUME CartInv, Browsing
    PROVE  Browses
<1>1. page \in PageType /\ history \in Histories /\ CartTypes
  BY TypesLemma, PageTypesLemma DEF CartInv, Histories
<1>2. NoFetch \in Fetches /\ NoFetch.at = "none"
  BY QuietLemma DEF NoFetch, Fetches
<1>3. CASE OpenCheckout
  <2> DEFINE r == Refetching(page, {})
  <2>1. /\ r \in PageType /\ r.cart = page.cart
        /\ r.fetch.at = "sent" /\ r.fetch.alone = ~Busy' /\ Awaited(r) \subseteq Awaited(page)
        /\ r.placing = page.placing \/ page.placing \in Awaited(page)
    BY <1>1, RefetchingLemma
  <2>2. page' = [r EXCEPT !.checkout = TRUE] /\ UNCHANGED <<cartVars, out, history>>
    BY <1>3 DEF OpenCheckout
  <2> HIDE DEF r
  <2>3. /\ page' \in PageType /\ page'.cart = r.cart /\ page'.fetch = r.fetch /\ Awaited(page') = Awaited(r)
        /\ page'.placing = r.placing
    BY <2>1, <2>2 DEF PageType, Awaited
  <2>4. Goes({}) /\ Refetches
    BY <2>1, <2>3 DEF Goes, Refetches
  <2> QED BY <1>1, <2>2, <2>4 DEF Browses
<1>4. CASE Leave
  <2>1. page' = [page EXCEPT !.checkout = FALSE, !.placing = Nobody] /\ UNCHANGED <<cartVars, out>>
    BY <1>4 DEF Leave
  <2>2. /\ page' \in PageType /\ page'.cart = page.cart /\ page'.fetch = page.fetch
        /\ Awaited(page') = Awaited(page) /\ page'.placing = Nobody
    BY <1>1, <2>1 DEF PageType, Awaited
  <2>3. CASE page.placing = Nobody
    <3>1. UNCHANGED history
      BY <1>4, <2>3 DEF Leave
    <3> QED BY <1>1, <2>1, <2>2, <2>3, <3>1 DEF Browses, Goes
  <2>4. CASE page.placing # Nobody
    <3>1. history' = [history EXCEPT !.mishaps = @ + 1, !.clean = history.clean] /\ history.mishaps < MaxMishaps
      BY <1>4, <2>4 DEF Leave, Mishap
    <3>2. history.mishaps + 1 \in 0..MaxMishaps /\ history.mishaps + 1 # 0
      BY <1>1, <3>1, CallsAssumption DEF Histories
    <3>3. /\ history' \in Histories /\ history'.alone = history.alone /\ history'.mishaps # 0
          /\ history'.clean = history.clean
      BY <1>1, <3>1, <3>2 DEF Histories
    <3> QED BY <2>1, <2>2, <3>3 DEF Browses
  <2> QED BY <2>3, <2>4
<1>5. CASE ServeFetch
  <2> DEFINE f == [page.fetch EXCEPT !.at = "back", !.view = View]
  <2>1. View \in Views /\ page.fetch \in Fetches
    BY <1>1, ViewLemma DEF PageType
  <2>2. f \in Fetches /\ f.at = "back" /\ f.view = View /\ f.alone = page.fetch.alone
    BY <2>1 DEF Fetches
  <2>3. page' = [page EXCEPT !.fetch = f] /\ UNCHANGED <<cartVars, out, history>> /\ page.fetch.at = "sent"
    BY <1>1, <1>5 DEF ServeFetch, PageType
  <2> HIDE DEF f
  <2>4. /\ page' \in PageType /\ page'.cart = page.cart /\ page'.fetch = f /\ Awaited(page') = Awaited(page)
        /\ page'.placing = page.placing
    BY <1>1, <2>2, <2>3 DEF PageType, Awaited
  <2> QED BY <1>1, <2>2, <2>3, <2>4 DEF Browses, Goes
<1>6. CASE FetchAnswered \/ FetchFails
  <2> DEFINE r == Resumed(page)
             p == [r EXCEPT !.fetch = NoFetch]
  <2>1. /\ r \in PageType /\ r.cart = page.cart /\ Awaited(r) \subseteq Awaited(page)
        /\ r.placing = page.placing \/ page.placing \in Awaited(page)
    BY <1>1, ResumedLemma
  <2>2. UNCHANGED <<cartVars, out>>
    BY <1>6 DEF FetchAnswered, FetchFails
  <2>3. page' = p \/ page' = [p EXCEPT !.cart = page.fetch.view]
    BY <1>6 DEF FetchAnswered, FetchFails, Shown
  <2>4. FetchAnswered => /\ page' = [p EXCEPT !.cart = page.fetch.view] /\ page.fetch.at = "back"
                         /\ history' = [history EXCEPT !.clean = page.fetch.alone]
    BY DEF FetchAnswered, Shown
  <2>5. FetchFails => history' = [history EXCEPT !.clean = FALSE]
    BY DEF FetchFails
  <2>6. page.fetch.view \in Views /\ page.fetch.alone \in BOOLEAN
    BY <1>1 DEF PageType, Fetches
  <2> HIDE DEF r
  <2>7. /\ p \in PageType /\ p.fetch = NoFetch /\ Awaited(p) = Awaited(r) /\ p.placing = r.placing
    BY <1>2, <2>1 DEF PageType, Awaited
  <2> HIDE DEF p
  <2>8. /\ page' \in PageType /\ page'.fetch = NoFetch /\ Awaited(page') = Awaited(r) /\ page'.placing = r.placing
    BY <2>3, <2>6, <2>7 DEF PageType, Awaited
  <2>9. FetchAnswered => page'.cart = page.fetch.view
    BY <2>4, <2>6, <2>7 DEF PageType
  <2>10. /\ history' \in Histories /\ history'.alone = history.alone /\ history'.mishaps = history.mishaps
         /\ FetchAnswered => history'.clean = page.fetch.alone
         /\ FetchFails => ~history'.clean
    BY <1>1, <1>6, <2>4, <2>5, <2>6 DEF Histories
  <2> QED BY <1>2, <1>6, <2>1, <2>2, <2>4, <2>8, <2>9, <2>10 DEF Browses, Goes
<1>7. ASSUME NEW c \in Clients, Navigate(c)
      PROVE  Browses
  <2> DEFINE placing == IF page.placing = c THEN Nobody ELSE page.placing
  <2>1. /\ page' = [page EXCEPT !.leaving = page.leaving \ {c}, !.checkout = FALSE, !.placing = placing]
        /\ c \in page.leaving /\ UNCHANGED <<cartVars, out, history>>
    BY <1>1, <1>7 DEF Navigate, PageType
  <2>2. placing \in Clients \cup {Nobody} /\ (placing = page.placing \/ page.placing = c)
    BY <1>1 DEF PageType
  <2> HIDE DEF placing
  <2>3. /\ page' \in PageType /\ page'.cart = page.cart /\ page'.fetch = page.fetch
        /\ page'.waiting = page.waiting /\ page'.leaving = page.leaving \ {c} /\ page'.placing = placing
    BY <1>1, <2>1, <2>2 DEF PageType
  <2>4. /\ Awaited(page') \subseteq Awaited(page)
        /\ page'.placing = page.placing \/ page.placing \in Awaited(page)
    BY <2>1, <2>2, <2>3 DEF Awaited
  <2> QED BY <1>1, <2>1, <2>3, <2>4 DEF Browses, Goes
<1> QED BY <1>3, <1>4, <1>5, <1>6, <1>7 DEF Browsing
-----------------------------------------------------------------------------
\* The invariant of the server's cart.

Serves(c) == (Serve(c) \/ Abort(c)) /\ UNCHANGED <<page, out, history>>

LEMMA NextLemma ==
    ASSUME Next
    PROVE  \/ \E c \in Clients : Calling(c) \/ Serves(c) \/ Answer(c) \/ Lose(c)
           \/ Browsing \/ Trading
BY DEF Next, Calling, Serves, ServerStep, Failure, Browsing

LEMMA OfferedLemma ==
    ASSUME CartInv, NEW c \in Clients, Serves(c)
    PROVE  offered' = offered
BY DEF Serves, Serve, AddItem, RefuseItem, FindItem, UpdateItem, DeleteItems, Get, ReadCart, CreateOrder,
       EmptyCart, CommitOrder, Abort

LEMMA CartInvStep ==
    ASSUME CartInv, [Next]_vars
    PROVE  CartInv'
<1>0. /\ page \in PageType /\ history \in Histories /\ out \subseteq Clients /\ offered \subseteq Variants
      /\ CartTypes
  BY TypesLemma, PageTypesLemma DEF CartInv, Histories, CartTypes
<1>1. ASSUME page' \in PageType, history' \in Histories, out' \subseteq Clients PROVE PageTypes'
  BY <1>1 DEF PageTypes, PageType, Histories
<1>2. ASSUME UNCHANGED cartVars, page' \in PageType, history' \in Histories, UNCHANGED out PROVE CartInv'
  BY <1>0, <1>1, <1>2 DEF cartVars, CartInv, TypeOK, PageTypes, Fetches, Held, CallsAreMade, RowsAreKnown, Known,
       LocksArePending, ReadIsTaken, OrderedIsGone, At
<1>3. CASE UNCHANGED vars
  BY <1>0, <1>2, <1>3 DEF vars, cartVars
<1>4. ASSUME NEW c \in Clients, Calling(c) PROVE CartInv'
  <2>1. PICK op \in Ops : Makes(c, op)
    BY <1>4, CallingLemma
  <2>2. {c} \in SUBSET Clients /\ {} \in SUBSET Clients
    OBVIOUS
  <2>3. history' \in Histories
    BY <1>0, <2>1, <2>2 DEF Makes, Histories
  <2>4. PageTypes'
    BY <1>0, <1>1, <2>1, <2>3 DEF Makes
  <2> QED BY <1>0, <2>1, <2>4, CartStepLemma DEF Makes
<1>5. ASSUME NEW c \in Clients, Serves(c) PROVE CartInv'
  <2>1. CartStep(c) /\ UNCHANGED offered
    BY <1>5, ServerLemma, OfferedLemma DEF Serves
  <2>2. PageTypes' /\ out' = out
    BY <1>0, <1>1, <1>5 DEF Serves
  <2> QED BY <1>0, <2>1, <2>2, CartStepLemma
<1>6. ASSUME NEW c \in Clients, Ends(c) PROVE CartInv'
  <2>1. PageTypes'
    BY <1>0, <1>1, <1>6 DEF Ends, Goes
  <2> QED BY <1>0, <1>6, <2>1, CartStepLemma DEF Ends
<1>7. CASE Browsing
  <2>1. Browses
    BY <1>7, BrowsingLemma
  <2>2. page' \in PageType /\ history' \in Histories /\ UNCHANGED <<cartVars, out>>
    BY <2>1 DEF Browses, Goes
  <2> QED BY <1>2, <2>2
<1>8. CASE Trading
  <2>1. offered' \subseteq Variants
    BY <1>0, <1>8, CartAssumption DEF Trading, Trade
  <2> QED BY <1>0, <1>1, <1>8, <2>1 DEF Trading, Trade, CartInv, TypeOK, PageTypes, Fetches, Held, CallsAreMade,
       RowsAreKnown, Known, LocksArePending, ReadIsTaken, OrderedIsGone, At
<1>9. ASSUME NEW c \in Clients, Answer(c) \/ Lose(c) PROVE CartInv'
  <2>1. Answered(c) \/ Lost(c)
    BY <1>9, AnswerLemma, LoseLemma
  <2>2. Ends(c)
    BY <2>1 DEF Answered, Lost
  <2> QED BY <1>6, <2>2
<1>10. CASE Next
  BY <1>4, <1>5, <1>7, <1>8, <1>9, <1>10, NextLemma
<1> QED BY <1>3, <1>10

LEMMA InitTypesLemma == Init => CartInv
<1> SUFFICES ASSUME Init PROVE CartInv
  OBVIOUS
<1>1. /\ rows = [v \in Variants |-> Cell(IF v \in Filled THEN [id |-> 1, qty |-> 1] ELSE NoRow)]
      /\ lastId = 1 /\ offered = Variants /\ orders = << >>
      /\ serving = [c \in Clients |-> Quiet]
  BY DEF Init, CartInit
<1>2. [id |-> 1, qty |-> 1] \in Rows /\ NoRow \in Rows
  BY RowLemma DEF Rows
<1>3. ASSUME NEW v \in Variants
      PROVE  /\ rows[v] \in Cells(Rows) /\ rows[v].by = Nobody
             /\ rows[v].com = NoRow \/ (rows[v].com.id = 1 /\ rows[v].com.qty = 1)
  BY <1>1, <1>2 DEF Cell, Cells
<1>4. rows \in [Variants -> Cells(Rows)]
  BY <1>1, <1>3
<1>5. /\ Quiet \in Servings /\ Quiet.pc = "idle" /\ Quiet.reply = "none"
      /\ Quiet.read = [v \in Variants |-> NoRow]
  BY QuietLemma DEF Quiet
<1>6. CartTypes
  BY <1>1, <1>3, <1>4, <1>5 DEF CartTypes, Held
<1>7. PageTypes
  <2>1. View \in Views /\ NoFetch \in Fetches
    BY <1>6, ViewLemma, QuietLemma DEF NoFetch, Fetches
  <2>2. 0 \in 0..MaxMishaps
    BY CallsAssumption
  <2> QED BY <2>1, <2>2 DEF Init, PageTypes
<1>8. out = {}
  BY DEF Init
<1>9. CallsAreMade
  BY <1>1, <1>5, <1>8 DEF CallsAreMade, Ordering
<1>10. RowsAreKnown
  BY <1>1, <1>3, <1>5 DEF RowsAreKnown, Known
<1>11. LocksArePending
  BY <1>3 DEF LocksArePending
<1>12. ReadIsTaken /\ OrderedIsGone
  BY <1>1, <1>5 DEF ReadIsTaken, OrderedIsGone, At
<1> QED BY <1>6, <1>7, <1>9, <1>10, <1>11, <1>12, TypesLemma DEF CartInv
\* One step at most is a call's own.
LEMMA CasesLemma ==
    ASSUME CartInv, Next
    PROVE  \/ \E c \in Clients : \E op \in Ops : Makes(c, op)
           \/ \E c \in Clients : Serves(c) /\ CartStep(c) /\ Work(c) /\ UNCHANGED offered
           \/ \E c \in Clients : Answered(c)
           \/ \E c \in Clients : Lost(c)
           \/ Browses
           \/ Trading
<1>1. ASSUME NEW c \in Clients, Serves(c) PROVE CartStep(c) /\ Work(c) /\ UNCHANGED offered
  BY <1>1, ServerLemma, OfferedLemma DEF Serves
<1> QED BY <1>1, NextLemma, CallingLemma, AnswerLemma, LoseLemma, BrowsingLemma

-----------------------------------------------------------------------------
\* Orders.

\* The order under way is known while nothing new is placed, and nobody waits
\* who is not done.
LEMMA OnePlacedLemma ==
    ASSUME OrderInv, history'.mishaps = 0 => history.mishaps = 0,
           \A d \in Clients : /\ serving'[d].pc \in Ordering => serving[d].pc \in Ordering
                              /\ serving[d].pc = "over" => serving'[d].pc = "over",
           page' \in PageType,
           page'.placing = page.placing \/ page.placing \in Awaited(page),
           \A d \in Awaited(page') : d \in Awaited(page) \/ serving'[d].pc = "over"
    PROVE  OneIsPlaced'
<1>1. page \in PageType
  BY TypesLemma, PageTypesLemma DEF OrderInv, CartInv
<1> SUFFICES ASSUME history'.mishaps = 0
             PROVE  /\ \A d \in Clients : serving'[d].pc \in Ordering => page'.placing = d
                    /\ \A d \in Awaited(page') : serving'[d].pc = "over"
  BY DEF OneIsPlaced
<1>2. /\ \A c \in Clients : serving[c].pc \in Ordering => page.placing = c
      /\ \A d \in Awaited(page) : serving[d].pc = "over" /\ d \in Clients
  BY <1>1 DEF OrderInv, OneIsPlaced, PageType, Awaited
<1>3. ASSUME NEW d \in Clients, serving'[d].pc \in Ordering PROVE page'.placing = d
  <2>1. page.placing = d /\ serving[d].pc \in Ordering
    BY <1>2, <1>3
  <2>2. d \notin Awaited(page)
    BY <1>2, <2>1 DEF Ordering
  <2> QED BY <2>1, <2>2
<1>4. \A d \in Awaited(page') : serving'[d].pc = "over"
  BY <1>2
<1> QED BY <1>3, <1>4

\* What has been read stays new, and the orders stay apart, while no order is
\* added.
LEMMA NoOrderLemma ==
    ASSUME OrderInv, history'.mishaps = 0 => history.mishaps = 0, UNCHANGED orders,
           \A d \in Clients :
              serving'[d].pc \in {"order", "empty", "commit"} =>
                 \/ serving[d].pc \in {"order", "empty", "commit"} /\ serving'[d].read = serving[d].read
                 \/ serving'[d].read = Snapshot(rows)
    PROVE  ReadIsNew' /\ OrderedOnce'
<1>1. OrderedOnce'
  BY DEF OrderInv, OrderedOnce, Consumed
<1>2. ReadIsNew'
  <2> SUFFICES ASSUME history'.mishaps = 0, NEW d \in Clients, NEW i \in DOMAIN orders, NEW v \in Variants,
                      serving'[d].pc \in {"order", "empty", "commit"},
                      serving'[d].read[v] # NoRow, orders[i][v] # NoRow
               PROVE  serving'[d].read[v].id # orders[i][v].id
    BY DEF ReadIsNew
  <2>1. CASE serving[d].pc \in {"order", "empty", "commit"} /\ serving'[d].read = serving[d].read
    BY <2>1 DEF OrderInv, ReadIsNew
  <2>2. CASE serving'[d].read = Snapshot(rows)
    <3>1. Snapshot(rows)[v] = rows[v].com
      BY TypesLemma DEF OrderInv, CartInv, CartTypes, Snapshot
    <3> QED BY <2>2, <3>1 DEF OrderInv, CartInv, OrderedIsGone
  <2> QED BY <2>1, <2>2
<1> QED BY <1>1, <1>2

\* An order is added: it was the only one under way, and new.
LEMMA CommitLemma ==
    ASSUME OrderInv, NEW c \in Clients, serving[c].pc = "commit", history' = history,
           orders' = Append(orders, serving[c].read), CallStep(c), serving'[c].pc \notin Ordering
    PROVE  ReadIsNew' /\ OrderedOnce'
<1> SUFFICES ASSUME history.mishaps = 0 PROVE ReadIsNew' /\ OrderedOnce'
  BY DEF ReadIsNew, OrderedOnce
<1>1. CartTypes
  BY TypesLemma DEF OrderInv, CartInv
<1>2. \A d \in Clients : serving'[d].pc \notin Ordering
  BY DEF OrderInv, OneIsPlaced, CallStep, Ordering
<1>3. ReadIsNew'
  BY <1>2 DEF ReadIsNew, Ordering
<1>4. serving[c].read \in [Variants -> Rows] /\ orders \in Seq([Variants -> Rows])
  BY <1>1 DEF CartTypes, Servings
<1>5. ASSUME NEW i \in DOMAIN orders', NEW j \in DOMAIN orders', i # j, NEW v \in Variants,
             orders'[i][v] # NoRow, orders'[j][v] # NoRow
      PROVE  orders'[i][v].id # orders'[j][v].id
  <2>1. /\ (i \in DOMAIN orders /\ orders'[i] = orders[i]) \/ (i = Len(orders) + 1 /\ orders'[i] = serving[c].read)
        /\ (j \in DOMAIN orders /\ orders'[j] = orders[j]) \/ (j = Len(orders) + 1 /\ orders'[j] = serving[c].read)
    BY <1>4
  <2>2. ASSUME NEW k \in DOMAIN orders, orders[k][v] # NoRow, serving[c].read[v] # NoRow
        PROVE  serving[c].read[v].id # orders[k][v].id
    BY <2>2 DEF OrderInv, ReadIsNew
  <2>3. ASSUME i \in DOMAIN orders, j \in DOMAIN orders, orders[i][v] # NoRow, orders[j][v] # NoRow
        PROVE  orders[i][v].id # orders[j][v].id
    <3>1. Consumed(i) \cap Consumed(j) = {}
      BY <1>5, <2>3 DEF OrderInv, OrderedOnce
    <3>2. <<v, orders[i][v].id>> \in Consumed(i) /\ <<v, orders[j][v].id>> \in Consumed(j)
      BY <2>3 DEF Consumed
    <3> QED BY <3>1, <3>2
  <2> QED BY <1>5, <2>1, <2>2, <2>3
<1>6. OrderedOnce'
  BY <1>5 DEF OrderedOnce, Consumed
<1> QED BY <1>3, <1>6
LEMMA OrderInvStep ==
    ASSUME OrderInv, [Next]_vars
    PROVE  OrderInv'
<1>1. CartInv' /\ CartInv
  BY CartInvStep DEF OrderInv
<1>2. page \in PageType /\ history \in Histories
  BY <1>1, TypesLemma, PageTypesLemma DEF CartInv, Histories
<1> SUFFICES OneIsPlaced' /\ ReadIsNew' /\ OrderedOnce'
  BY <1>1 DEF OrderInv
<1>3. CASE UNCHANGED vars
  BY <1>3 DEF vars, OrderInv, OneIsPlaced, ReadIsNew, OrderedOnce, Consumed
<1>4. ASSUME NEW c \in Clients, NEW op \in Ops, Makes(c, op)
      PROVE  OneIsPlaced' /\ ReadIsNew' /\ OrderedOnce'
  <2>1. /\ \A d \in Clients : d # c => serving'[d] = serving[d]
        /\ serving[c].pc = "idle" /\ serving'[c].pc \in {"add", "find", "cart", "delete"}
        /\ history'.mishaps = history.mishaps /\ UNCHANGED orders
        /\ page' \in PageType /\ Awaited(page') = Awaited(page)
    BY <1>2, <1>4 DEF Makes, CartStep, CallStep, Histories
  <2>2. ReadIsNew' /\ OrderedOnce'
    <3>1. ASSUME NEW d \in Clients, serving'[d].pc \in {"order", "empty", "commit"}
          PROVE  serving[d].pc \in {"order", "empty", "commit"} /\ serving'[d].read = serving[d].read
      BY <2>1, <3>1
    <3> QED BY <2>1, <3>1, NoOrderLemma
  <2>3. CASE op # "CHECKOUT"
    <3>1. page'.placing = page.placing /\ serving'[c].pc \notin Ordering
      BY <1>4, <2>3 DEF Makes
    <3> QED BY <2>1, <2>2, <3>1, OnePlacedLemma
  <2>4. CASE op = "CHECKOUT"
    <3>1. page.placing = Nobody /\ page'.placing = c
      BY <1>4, <2>4 DEF Makes
    <3> SUFFICES ASSUME history.mishaps = 0
                 PROVE  /\ \A d \in Clients : serving'[d].pc \in Ordering => page'.placing = d
                        /\ \A d \in Awaited(page') : serving'[d].pc = "over"
      BY <2>1, <2>2 DEF OneIsPlaced
    <3>2. \A d \in Clients : serving[d].pc \notin Ordering
      BY <3>1, NobodyAssumption DEF OrderInv, OneIsPlaced
    <3>3. \A d \in Awaited(page) : serving[d].pc = "over" /\ d \in Clients
      BY <1>2 DEF OrderInv, OneIsPlaced, PageType, Awaited
    <3> QED BY <2>1, <3>1, <3>2, <3>3
  <2> QED BY <2>3, <2>4
<1>5. ASSUME NEW c \in Clients, Serves(c), CartStep(c), Work(c)
      PROVE  OneIsPlaced' /\ ReadIsNew' /\ OrderedOnce'
  <2>1. /\ \A d \in Clients : d # c => serving'[d] = serving[d]
        /\ serving[c].pc # "over" /\ (serving'[c].pc \in Ordering => serving[c].pc \in Ordering)
        /\ UNCHANGED <<page, out, history>> /\ CallStep(c)
    BY <1>5 DEF CartStep, CallStep, Serves, Work, Serving
  <2>2. OneIsPlaced'
    BY <1>2, <2>1, OnePlacedLemma
  <2>3. CASE UNCHANGED orders
    <3>1. ASSUME NEW d \in Clients, serving'[d].pc \in {"order", "empty", "commit"}
          PROVE  \/ serving[d].pc \in {"order", "empty", "commit"} /\ serving'[d].read = serving[d].read
                 \/ serving'[d].read = Snapshot(rows)
      BY <1>5, <2>1, <3>1 DEF Work
    <3> QED BY <2>1, <2>2, <2>3, <3>1, NoOrderLemma
  <2>4. CASE orders' # orders
    <3>1. serving[c].pc = "commit" /\ orders' = Append(orders, serving[c].read) /\ serving'[c].pc \notin Ordering
      BY <1>5, <2>4 DEF Work, At, Ordering
    <3> QED BY <2>1, <2>2, <3>1, CommitLemma
  <2> QED BY <2>3, <2>4
<1>6. ASSUME NEW c \in Clients, Answered(c)
      PROVE  OneIsPlaced' /\ ReadIsNew' /\ OrderedOnce'
  <2>1. /\ \A d \in Clients : d # c => serving'[d] = serving[d]
        /\ serving'[c].pc = "over" /\ history'.mishaps = history.mishaps /\ UNCHANGED orders /\ Goes({c})
    BY <1>6 DEF Answered, Ends, CartStep, CallStep
  <2>2. OneIsPlaced'
    <3>1. \A d \in Clients : /\ serving'[d].pc \in Ordering => serving[d].pc \in Ordering
                             /\ serving[d].pc = "over" => serving'[d].pc = "over"
      BY <2>1 DEF Ordering
    <3>2. /\ page' \in PageType
          /\ page'.placing = page.placing \/ page.placing \in Awaited(page)
          /\ \A d \in Awaited(page') : d \in Awaited(page) \/ serving'[d].pc = "over"
      BY <2>1 DEF Goes
    <3> QED BY <2>1, <3>1, <3>2, OnePlacedLemma
  <2>3. ASSUME NEW d \in Clients, serving'[d].pc \in {"order", "empty", "commit"}
        PROVE  serving[d].pc \in {"order", "empty", "commit"} /\ serving'[d].read = serving[d].read
    BY <2>1, <2>3
  <2> QED BY <2>1, <2>2, <2>3, NoOrderLemma
<1>7. CASE history'.mishaps # 0
  BY <1>7 DEF OneIsPlaced, ReadIsNew, OrderedOnce
<1>8. CASE Browses
  <2>1. UNCHANGED <<serving, orders>>
    BY <1>8 DEF Browses, cartVars
  <2>2. CASE Goes({}) /\ history'.mishaps = history.mishaps
    <3>1. /\ page' \in PageType
          /\ page'.placing = page.placing \/ page.placing \in Awaited(page)
          /\ Awaited(page') \subseteq Awaited(page)
      BY <2>2 DEF Goes
    <3>2. OneIsPlaced'
      BY <2>1, <2>2, <3>1, OnePlacedLemma
    <3> QED BY <2>1, <2>2, <3>2, NoOrderLemma
  <2> QED BY <1>7, <1>8, <2>2 DEF Browses
<1>9. CASE Trading
  BY <1>9 DEF Trading, Trade, OrderInv, OneIsPlaced, ReadIsNew, OrderedOnce, Consumed
<1>10. ASSUME NEW c \in Clients, Lost(c) PROVE history'.mishaps # 0
  BY <1>10 DEF Lost
<1>11. CASE Next
  BY <1>1, <1>4, <1>5, <1>6, <1>7, <1>8, <1>9, <1>10, <1>11, CasesLemma
<1> QED BY <1>3, <1>11

LEMMA InitOrderInv == Init => OrderInv
<1> SUFFICES ASSUME Init PROVE OrderInv
  OBVIOUS
<1>1. CartInv
  BY InitTypesLemma
<1>2. /\ \A c \in Clients : serving[c].pc = "idle"
      /\ orders = << >> /\ Awaited(page) = {}
  BY DEF Init, CartInit, Quiet, Awaited
<1> QED BY <1>1, <1>2 DEF OrderInv, OneIsPlaced, ReadIsNew, OrderedOnce, Ordering

-----------------------------------------------------------------------------
\* The page.

\* The lines of the cart.
Quantities == [v \in Variants |-> rows[v].com.qty]

LEMMA LinesLemma == View.lines = Quantities
BY DEF View, Quantities

LEMMA LinesThenLemma ==
    ASSUME UNCHANGED rows
    PROVE  View.lines' = View.lines
BY DEF View
\* Nobody begins to work but by being called.
LEMMA WorkingLemma ==
    ASSUME NEW c \in Clients, out' \subseteq out,
           \A d \in Clients : d # c => serving'[d] = serving[d],
           Working(c)' => Working(c)
    PROVE  /\ \A d \in Clients : Working(d)' => Working(d)
           /\ Busy' => Busy
BY DEF Working, Busy

\* A call that is made leaves everything else with a companion.
LEMMA MakesPageLemma ==
    ASSUME PageInv, CartInv', NEW c \in Clients, NEW op \in Ops, Makes(c, op)
    PROVE  PageInv'
<1>1. /\ page \in PageType /\ history \in Histories
  BY TypesLemma, PageTypesLemma DEF PageInv, CartInv, Histories
<1>2. /\ \A d \in Clients : d # c => serving'[d] = serving[d]
      /\ serving[c].pc = "idle" /\ serving'[c].pc \in {"add", "find", "cart", "delete"}
      /\ serving'[c].reply = "none"
      /\ out' = out \cup {c} /\ c \notin out /\ View.lines' = View.lines /\ UNCHANGED rows
      /\ page'.cart = page.cart /\ page'.fetch.at = page.fetch.at /\ ~page'.fetch.alone
    BY LinesThenLemma DEF Makes, CartStep, CallStep
<1>3. /\ history'.clean = history.clean
      /\ history'.alone = IF Busy \/ page.fetch.at # "none" THEN {} ELSE {c}
  BY <1>1 DEF Makes, Histories
<1>4. AloneIsAlone'
  <2> SUFFICES ASSUME NEW e \in history'.alone
               PROVE  /\ \A d \in Clients : d # e => ~Working(d)'
                      /\ serving'[e].pc \in {"order", "empty", "commit"} => serving'[e].read = Snapshot(rows')
                      /\ serving'[e].reply = "done" /\ serving'[e].op # "CHECKOUT" =>
                            serving'[e].view.lines = View.lines'
    BY DEF AloneIsAlone
  <2>1. e = c /\ ~Busy
    BY <1>3
  <2>2. \A d \in Clients : d # c => ~Working(d)'
    BY <1>2, <2>1 DEF Busy, Working
  <2> QED BY <1>2, <2>1, <2>2
<1>5. FetchIsAlone'
  BY <1>2 DEF FetchIsAlone
<1>6. ShownOrRenewed'
  <2> SUFFICES ASSUME history'.clean
               PROVE  /\ \A d \in Clients : Serving(d)' => d \in out'
                      /\ page'.fetch.at = "none" /\ page'.cart.lines # View.lines' => \E d \in out' : Renews(d)'
    BY DEF ShownOrRenewed
  <2>1. /\ \A d \in Clients : Serving(d) => d \in out
        /\ page.fetch.at = "none" /\ page.cart.lines # View.lines => \E d \in out : Renews(d)
    BY <1>3 DEF PageInv, ShownOrRenewed
  <2>2. \A d \in Clients : Serving(d)' => d \in out'
    BY <1>2, <2>1 DEF Serving
  <2>3. out \subseteq Clients
    BY TypesLemma, PageTypesLemma DEF PageInv, CartInv
  <2>4. \A d \in out : Renews(d) => Renews(d)'
    BY <1>2, <2>3 DEF Renews
  <2> QED BY <1>2, <2>1, <2>2, <2>4
<1> QED BY <1>4, <1>5, <1>6 DEF PageInv

\* A step of the server for c: c is awaited, or what is shown does not count;
\* and if anything is alone, it is c.
LEMMA ServesPageLemma ==
    ASSUME PageInv, CartInv', NEW c \in Clients, Serves(c), CartStep(c), Work(c)
    PROVE  PageInv'
<1>1. /\ \A d \in Clients : d # c => serving'[d] = serving[d]
      /\ UNCHANGED <<page, out, history>>
  BY DEF Serves, CartStep, CallStep
<1>2. Working(c) /\ Busy /\ Serving(c)
  BY DEF Work, Serving, Working, Busy
<1>3. out \subseteq Clients /\ history \in Histories
  BY TypesLemma, PageTypesLemma DEF PageInv, CartInv, Histories
<1>4. AloneIsAlone'
  <2> SUFFICES ASSUME NEW e \in history.alone
               PROVE  /\ \A d \in Clients : d # e => ~Working(d)'
                      /\ serving'[e].pc \in {"order", "empty", "commit"} => serving'[e].read = Snapshot(rows')
                      /\ serving'[e].reply = "done" /\ serving'[e].op # "CHECKOUT" =>
                            serving'[e].view.lines = View.lines'
    BY <1>1 DEF AloneIsAlone
  <2>1. e = c /\ \A d \in Clients : d # e => ~Working(d)
    BY <1>2 DEF PageInv, AloneIsAlone
  <2>2. \A d \in Clients : d # c => ~Working(d)'
    BY <1>1, <2>1 DEF Working
  <2>3. serving'[c].pc \in {"order", "empty", "commit"} => serving'[c].read = Snapshot(rows')
    BY <2>1 DEF PageInv, AloneIsAlone, Work
  <2>4. serving'[c].reply = "done" /\ serving'[c].op # "CHECKOUT" => serving'[c].view.lines = View.lines'
    BY LinesThenLemma DEF Work
  <2> QED BY <2>1, <2>2, <2>3, <2>4
<1>5. FetchIsAlone'
  BY <1>1, <1>2 DEF PageInv, FetchIsAlone
<1>6. ShownOrRenewed'
  <2> SUFFICES ASSUME history.clean
               PROVE  /\ \A d \in Clients : Serving(d)' => d \in out
                      /\ page.fetch.at = "none" /\ page.cart.lines # View.lines' => \E d \in out : Renews(d)'
    BY <1>1 DEF ShownOrRenewed
  <2>1. /\ \A d \in Clients : Serving(d) => d \in out
        /\ page.fetch.at = "none" /\ page.cart.lines # View.lines => \E d \in out : Renews(d)
    BY DEF PageInv, ShownOrRenewed
  <2>2. c \in out /\ \A d \in Clients : Serving(d)' => d \in out
    BY <1>1, <1>2, <2>1 DEF Serving
  <2>3. \A d \in out : Renews(d) => Renews(d)'
    <3> SUFFICES ASSUME NEW d \in out, Renews(d) PROVE Renews(d)'
      OBVIOUS
    <3>1. CASE d # c
      BY <1>1, <1>3, <3>1 DEF Renews
    <3>2. CASE d = c
      BY <3>2 DEF Renews, Work
    <3> QED BY <3>1, <3>2
  <2>4. CASE \A v \in Variants : rows'[v].com.qty = rows[v].com.qty
    <3>1. View.lines' = View.lines
      BY <2>4 DEF View
    <3> QED BY <2>1, <2>2, <2>3, <3>1
  <2>5. CASE Renews(c)'
    BY <2>2, <2>5
  <2> QED BY <2>4, <2>5 DEF Work
<1> QED BY <1>4, <1>5, <1>6 DEF PageInv

\* What an end of a call leaves alone.
LEMMA EndsAloneLemma ==
    ASSUME PageInv, NEW c \in Clients, Ends(c),
           serving'[c] = serving[c] \/ (serving'[c].pc = "over" /\ serving'[c].reply = "none")
    PROVE  /\ AloneIsAlone' /\ (Busy' => Busy) /\ View.lines' = View.lines
           /\ \A d \in Clients : d # c => serving'[d] = serving[d]
           /\ out' = out \ {c}
<1>1. /\ \A d \in Clients : d # c => serving'[d] = serving[d]
      /\ out' = out \ {c} /\ UNCHANGED rows /\ history'.alone = history.alone
  BY DEF Ends, CartStep, CallStep
<1>2. Working(c)' => Working(c)
  BY DEF Working, Ends
<1>3. /\ \A d \in Clients : Working(d)' => Working(d)
      /\ Busy' => Busy
  BY <1>1, <1>2, WorkingLemma
<1>4. View.lines' = View.lines
  BY <1>1, LinesThenLemma
<1>5. history.alone \subseteq Clients
  BY TypesLemma, PageTypesLemma DEF PageInv, CartInv
<1>6. ASSUME NEW e \in history.alone
      PROVE  /\ \A d \in Clients : d # e => ~Working(d)'
             /\ serving'[e].pc \in {"order", "empty", "commit"} => serving'[e].read = Snapshot(rows')
             /\ serving'[e].reply = "done" /\ serving'[e].op # "CHECKOUT" =>
                   serving'[e].view.lines = View.lines'
  <2>1. /\ \A d \in Clients : d # e => ~Working(d)
        /\ serving[e].pc \in {"order", "empty", "commit"} => serving[e].read = Snapshot(rows)
        /\ serving[e].reply = "done" /\ serving[e].op # "CHECKOUT" => serving[e].view.lines = View.lines
    BY DEF PageInv, AloneIsAlone
  <2>2. serving'[e] = serving[e] \/ (serving'[e].pc = "over" /\ serving'[e].reply = "none")
    BY <1>1, <1>5
  <2> QED BY <1>1, <1>3, <1>4, <2>1, <2>2
<1>7. AloneIsAlone'
  BY <1>1, <1>6 DEF AloneIsAlone
<1> QED BY <1>1, <1>3, <1>4, <1>7
\* An answer: what it shows is the cart if the call was alone, and otherwise it
\* does not count, or the cart is fetched.
LEMMA AnsweredPageLemma ==
    ASSUME PageInv, CartInv', NEW c \in Clients, Answered(c)
    PROVE  PageInv'
<1>0. Ends(c) /\ serving'[c].pc = "over" /\ serving'[c].reply = "none" /\ serving[c].pc = "over"
  BY DEF Answered
<1>1. /\ AloneIsAlone' /\ (Busy' => Busy) /\ View.lines' = View.lines
      /\ \A d \in Clients : d # c => serving'[d] = serving[d]
      /\ out' = out \ {c}
  BY <1>0, EndsAloneLemma
<1>2. out \subseteq Clients
  BY TypesLemma, PageTypesLemma DEF PageInv, CartInv
<1>3. FetchIsAlone'
  BY <1>1 DEF PageInv, FetchIsAlone, Answered, Refetches
<1>4. ASSUME history'.clean = history.clean, history.clean PROVE \A d \in Clients : Serving(d)' => d \in out'
  BY <1>0, <1>1, <1>4 DEF PageInv, ShownOrRenewed, Serving
<1>5. ShownOrRenewed'
  <2> SUFFICES ASSUME history'.clean
               PROVE  /\ \A d \in Clients : Serving(d)' => d \in out'
                      /\ page'.fetch.at = "none" /\ page'.cart.lines # View.lines' => \E d \in out' : Renews(d)'
    BY DEF ShownOrRenewed
  <2>1. CASE Refetches /\ UNCHANGED history
    BY <1>4, <2>1 DEF Refetches
  <2>2. CASE /\ serving[c].op # "CHECKOUT" /\ serving[c].reply = "done"
             /\ page'.cart = serving[c].view /\ page'.fetch = page.fetch
             /\ history'.clean = (c \in history.alone)
    <3>1. /\ \A d \in Clients : d # c => ~Working(d)
          /\ serving[c].view.lines = View.lines
      BY <2>2 DEF PageInv, AloneIsAlone
    <3>2. \A d \in Clients : ~Serving(d)'
      BY <1>0, <1>1, <3>1 DEF Working, Serving
    <3> QED BY <1>1, <2>2, <3>1, <3>2
  <2>3. CASE serving[c].op \notin {"ADD", "CHECKOUT"} /\ serving[c].reply # "done" /\ UNCHANGED <<page, history>>
    <3>1. ~Renews(c)
      BY <1>0, <2>3 DEF Renews
    <3>2. page.fetch.at = "none" /\ page.cart.lines # View.lines => \E d \in out : Renews(d)
      BY <2>3 DEF PageInv, ShownOrRenewed
    <3>3. \A d \in out \ {c} : Renews(d) => Renews(d)'
      BY <1>1, <1>2 DEF Renews
    <3> QED BY <1>1, <1>4, <2>3, <3>1, <3>2, <3>3
  <2> QED BY <2>1, <2>2, <2>3 DEF Answered
<1> QED BY <1>1, <1>3, <1>5 DEF PageInv

LEMMA LostPageLemma ==
    ASSUME PageInv, CartInv', NEW c \in Clients, Lost(c)
    PROVE  PageInv'
<1>0. /\ serving'[c] = serving[c] \/ (serving'[c].pc = "over" /\ serving'[c].reply = "none")
  BY DEF Lost, Ends, CartStep, CallStep
<1>1. AloneIsAlone' /\ (Busy' => Busy) /\ View.lines' = View.lines
  BY <1>0, EndsAloneLemma DEF Lost
<1>2. FetchIsAlone'
  BY <1>1 DEF PageInv, FetchIsAlone, Lost, Refetches
<1>3. ShownOrRenewed'
  BY DEF ShownOrRenewed, Lost
<1> QED BY <1>1, <1>2, <1>3 DEF PageInv
LEMMA BrowsesPageLemma ==
    ASSUME PageInv, CartInv', Browses
    PROVE  PageInv'
<1>1. /\ UNCHANGED <<rows, serving, out>> /\ history'.alone = history.alone /\ View.lines' = View.lines
      /\ Busy' = Busy
  BY LinesThenLemma DEF Browses, cartVars, Busy, Working
<1>2. AloneIsAlone'
  BY <1>1 DEF PageInv, AloneIsAlone, Working
<1>3. /\ page.fetch.at # "none" /\ page.fetch.alone =>
            ~Busy /\ (page.fetch.at = "back" => page.fetch.view.lines = View.lines)
      /\ history.clean =>
            /\ \A d \in Clients : Serving(d) => d \in out
            /\ page.fetch.at = "none" /\ page.cart.lines # View.lines => \E d \in out : Renews(d)
  BY DEF PageInv, FetchIsAlone, ShownOrRenewed
<1>4. /\ \A d \in Clients : Serving(d)' = Serving(d)
      /\ \A d : Renews(d)' = Renews(d)
      /\ ~Busy => \A d \in Clients : ~Serving(d)
  BY <1>1 DEF Serving, Renews, Busy, Working
<1>5. CASE Refetches /\ UNCHANGED history
  BY <1>1, <1>2, <1>3, <1>4, <1>5 DEF Refetches, PageInv, FetchIsAlone, ShownOrRenewed
<1>6. CASE page'.cart = page.cart /\ page'.fetch = page.fetch /\ history'.clean = history.clean
  BY <1>1, <1>2, <1>3, <1>4, <1>6 DEF PageInv, FetchIsAlone, ShownOrRenewed
<1>7. CASE /\ page'.cart = page.cart /\ page'.fetch.at = "back" /\ page'.fetch.view = View
           /\ page.fetch.at # "none" /\ page'.fetch.alone = page.fetch.alone /\ UNCHANGED history
  BY <1>1, <1>2, <1>3, <1>4, <1>7 DEF PageInv, FetchIsAlone, ShownOrRenewed
<1>8. CASE /\ page.fetch.at = "back" /\ page'.cart = page.fetch.view /\ page'.fetch.at = "none"
           /\ history'.clean = page.fetch.alone
  BY <1>1, <1>2, <1>3, <1>4, <1>8 DEF PageInv, FetchIsAlone, ShownOrRenewed
<1>9. CASE page'.fetch.at = "none" /\ ~history'.clean
  BY <1>2, <1>9 DEF PageInv, FetchIsAlone, ShownOrRenewed
<1> QED BY <1>5, <1>6, <1>7, <1>8, <1>9 DEF Browses

LEMMA PageInvStep ==
    ASSUME PageInv, [Next]_vars
    PROVE  PageInv'
<1>1. CartInv /\ CartInv'
  BY CartInvStep DEF PageInv
<1>2. CASE UNCHANGED <<rows, serving, page, out, history>>
  <2>1. View.lines' = View.lines
    BY <1>2, LinesThenLemma
  <2> QED BY <1>1, <1>2, <2>1 DEF PageInv, AloneIsAlone, FetchIsAlone, ShownOrRenewed, Busy, Working,
       Serving, Renews
<1>3. CASE UNCHANGED vars
  BY <1>2, <1>3 DEF vars
<1>4. CASE Trading
  BY <1>2, <1>4 DEF Trading, Trade
<1>5. CASE Next
  BY <1>1, <1>4, <1>5, CasesLemma, MakesPageLemma, ServesPageLemma, AnsweredPageLemma, LostPageLemma,
     BrowsesPageLemma
<1> QED BY <1>3, <1>5

LEMMA InitPageInv == Init => PageInv
<1> SUFFICES ASSUME Init PROVE PageInv
  OBVIOUS
<1>1. CartInv
  BY InitTypesLemma
<1>2. /\ \A c \in Clients : serving[c].pc = "idle"
      /\ page.cart = View /\ page.fetch.at = "none" /\ history.alone = {}
  BY DEF Init, CartInit, Quiet, NoFetch
<1> QED BY <1>1, <1>2 DEF PageInv, AloneIsAlone, FetchIsAlone, ShownOrRenewed, Serving

-----------------------------------------------------------------------------
\* Which rows of the cart a step of the server may take out of it.
LEMMA HeldLemma ==
    ASSUME CartInv, NEW c \in Clients, Serve(c) \/ Abort(c),
           NEW v \in Held, rows'[v].com.id # rows[v].com.id
    PROVE  \/ orders' # orders
           \/ At(c, "delete") /\ v \in serving[c].variants
<1>1. /\ CartTypes /\ v \in Variants /\ rows[v].com # NoRow /\ rows \in [Variants -> Cells(Rows)]
      /\ rows[v].com \in Rows
  BY TypesLemma, CellsLemma DEF CartInv, Held, CartTypes
<1>2. \A row : Cell(row).com = row
  BY DEF Cell
<1>3. CASE rows' = rows
  BY <1>3
<1>4. ASSUME NEW w \in Variants, NEW row, Write(w, row), row.id = rows[w].com.id
      PROVE  FALSE
  BY <1>1, <1>2, <1>4 DEF Write
<1>5. ASSUME NEW w \in Variants, AddItem(c, w) PROVE FALSE
  <2>1. CASE w = v
    <3> DEFINE row == [rows[v].com EXCEPT !.qty = @ + serving[c].qty]
    <3>1. Write(v, row) /\ row.id = rows[v].com.id
      BY <1>1, <1>5, <2>1 DEF AddItem, Rows
    <3> HIDE DEF row
    <3> QED BY <1>1, <1>4, <3>1
  <2>2. CASE w # v
    BY <1>1, <1>5, <2>2 DEF AddItem, Write
  <2> QED BY <2>1, <2>2
<1>6. ASSUME NEW w \in Variants, UpdateItem(c, w) PROVE FALSE
  <2>1. CASE rows[w].com.id = serving[c].item
    <3> DEFINE row == [rows[w].com EXCEPT !.qty = serving[c].qty]
    <3>1. rows[w].com \in Rows
      BY <1>1, CellsLemma
    <3>2. Write(w, row) /\ row.id = rows[w].com.id
      BY <1>6, <2>1, <3>1 DEF UpdateItem, Rows
    <3> HIDE DEF row
    <3> QED BY <1>4, <3>2
  <2>2. CASE rows[w].com.id # serving[c].item
    BY <1>3, <1>6, <2>2 DEF UpdateItem
  <2> QED BY <2>1, <2>2
<1>7. CASE DeleteItems(c)
  BY <1>1, <1>7 DEF DeleteItems
<1>8. CASE EmptyCart(c)
  <2>1. Written(rows[v], c, NoRow).com = rows[v].com
    BY <1>1 DEF Written, Cells
  <2> QED BY <1>1, <1>8, <2>1 DEF EmptyCart
<1>9. CASE CommitOrder(c)
  <2>1. orders' = Append(orders, serving[c].read) /\ orders \in Seq([Variants -> Rows])
        /\ serving[c].read \in [Variants -> Rows]
    BY <1>1, <1>9 DEF CommitOrder, CartTypes, Servings
  <2>2. Len(orders') = Len(orders) + 1 /\ Len(orders) \in Nat
    BY <2>1
  <2> QED BY <2>2
<1>10. CASE Abort(c)
  <2>1. rows' = RolledBack(rows, c) /\ UNCHANGED lastId
    BY <1>10 DEF Abort
  <2>2. rows'[v].com = rows[v].com
    BY <1>1, <2>1, EndRowsLemma
  <2> QED BY <2>2
<1>11. CASE RefuseItem(c) \/ Get(c) \/ ReadCart(c) \/ CreateOrder(c) \/ \E w \in Variants : FindItem(c, w)
  BY <1>3, <1>11 DEF RefuseItem, Get, ReadCart, CreateOrder, FindItem
<1> QED BY <1>5, <1>6, <1>7, <1>8, <1>9, <1>10, <1>11 DEF Serve

\* Every way of emptying the cart, one step at a time.
LEMMA EmptyingLemma ==
    ASSUME PageInv, [Next]_vars
    PROVE  [/\ \A v \in Held : rows'[v].com.id # rows[v].com.id =>
                \/ orders' # orders
                \/ \E c \in Clients : At(c, "delete") /\ v \in serving[c].variants
            /\ \A c \in history.alone :
                At(c, "commit") /\ orders' # orders => orders'[Len(orders')] = Snapshot(rows)]_vars
<1>1. CartInv /\ CartTypes
  BY TypesLemma DEF PageInv, CartInv
<1>2. CASE UNCHANGED <<rows, orders>>
  BY <1>2
<1>3. ASSUME NEW c \in Clients, Serves(c), CartStep(c), Work(c)
      PROVE  /\ \A v \in Held : rows'[v].com.id # rows[v].com.id =>
                  \/ orders' # orders
                  \/ \E d \in Clients : At(d, "delete") /\ v \in serving[d].variants
             /\ \A d \in history.alone :
                  At(d, "commit") /\ orders' # orders => orders'[Len(orders')] = Snapshot(rows)
  <2>1. \A v \in Held : rows'[v].com.id # rows[v].com.id =>
            \/ orders' # orders
            \/ \E d \in Clients : At(d, "delete") /\ v \in serving[d].variants
    BY <1>1, <1>3, HeldLemma DEF Serves
  <2>2. ASSUME NEW d \in history.alone, At(d, "commit"), orders' # orders
        PROVE  orders'[Len(orders')] = Snapshot(rows)
    <3>1. Working(c)
      BY <1>3 DEF Work, Serving, Working
    <3>2. d = c /\ serving[d].read = Snapshot(rows)
      BY <2>2, <3>1 DEF PageInv, AloneIsAlone, At
    <3>3. orders' = Append(orders, serving[c].read)
      BY <1>3, <2>2 DEF Work
    <3>4. orders \in Seq([Variants -> Rows]) /\ serving[c].read \in [Variants -> Rows]
      BY <1>1 DEF CartTypes, Servings
    <3>5. Len(orders') = Len(orders) + 1 /\ orders'[Len(orders) + 1] = serving[c].read
      BY <3>3, <3>4
    <3> QED BY <3>2, <3>5
  <2> QED BY <2>1, <2>2
<1>4. CASE UNCHANGED vars
  BY <1>4
<1>5. CASE Next
  <2>1. ASSUME NEW c \in Clients, NEW op \in Ops, Makes(c, op) PROVE UNCHANGED <<rows, orders>>
    BY <2>1 DEF Makes
  <2>2. ASSUME NEW c \in Clients, Answered(c) \/ Lost(c) PROVE UNCHANGED <<rows, orders>>
    <3>1. Ends(c)
      BY <2>2 DEF Answered, Lost
    <3> QED BY <3>1 DEF Ends
  <2>3. CASE Browses \/ Trading
    BY <1>2, <2>3 DEF Browses, cartVars, Trading, Trade
  <2> QED BY <1>1, <1>2, <1>3, <1>5, <2>1, <2>2, <2>3, CasesLemma
<1> QED BY <1>4, <1>5

-----------------------------------------------------------------------------
\* The inductive invariant of the server's cart and of the orders: a row of the
\* cart that was ordered is gone, and one that is being ordered goes with it.
THEOREM OrdersInvariant == Spec => []OrderInv
<1>1. OrderInv /\ [Next]_vars => OrderInv'
  BY OrderInvStep
<1> QED BY <1>1, InitOrderInv, PTL DEF Spec

\* A customer who loses no answer and stays on the page never orders a row of
\* the cart twice, however often a checkout is run again.
THEOREM NothingIsOrderedTwice == Spec => []OrderedOnce
<1>1. OrderInv => OrderedOnce
  BY DEF OrderInv
<1> QED BY <1>1, OrdersInvariant, PTL

\* The inductive invariant of the page: what is alone has seen the cart as it
\* is, and a cart that is shown and no longer true is about to be shown anew.
THEOREM PageInvariant == Spec => []PageInv
<1>1. PageInv /\ [Next]_vars => PageInv'
  BY PageInvStep
<1> QED BY <1>1, InitPageInv, PTL DEF Spec

\* Once everything is answered, the cart shown is the server's, unless an
\* answer was lost or overtaken.
THEOREM WhatIsShownIsServed == Spec => []ShownIsServed
<1>1. PageInv => ShownIsServed
  <2> SUFFICES ASSUME PageInv, ~Busy, page.fetch.at = "none", history.clean
               PROVE  page.cart.lines = View.lines
    BY DEF ShownIsServed
  <2>1. out = {}
    BY TypesLemma, PageTypesLemma DEF PageInv, CartInv, Busy, Working
  <2> QED BY <2>1 DEF PageInv, ShownOrRenewed
<1> QED BY <1>1, PageInvariant, PTL

\* Rows leave the cart with an order or at the customer's wish, and an order
\* that nothing overtook is the cart.
THEOREM CartBecomesOrder == Spec => EmptiedByOrder
<1>1. PageInv /\ [Next]_vars =>
        [/\ \A v \in Held : rows'[v].com.id # rows[v].com.id =>
                \/ orders' # orders
                \/ \E c \in Clients : At(c, "delete") /\ v \in serving[c].variants
         /\ \A c \in history.alone :
                At(c, "commit") /\ orders' # orders => orders'[Len(orders')] = Snapshot(rows)]_vars
  BY EmptyingLemma
<1> QED BY <1>1, PageInvariant, PTL DEF Spec, EmptiedByOrder
=============================================================================
