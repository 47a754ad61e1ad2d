--------------------------- MODULE Shared_proofs ----------------------------
(***************************************************************************)
(* Lemmas that several modules of proofs use: what writing a row, a commit *)
(* and a rollback make of a table, for whatever rows it has; and sums over *)
(* finite sets.                                                            *)
(***************************************************************************)
EXTENDS ReadCommitted, Integers, Functions, FiniteSetTheorems, TLAPS

-----------------------------------------------------------------------------
\* Tables.

\* What publishing and undoing leave of a table.
LEMMA EndLemma ==
    ASSUME NEW K, NEW R, NEW table \in [K -> Cells(R)], NEW p \in Clients
    PROVE  /\ Committed(table, p) \in [K -> Cells(R)]
           /\ RolledBack(table, p) \in [K -> Cells(R)]
           /\ \A k \in K : /\ Committed(table, p)[k] = IF table[k].by = p THEN Cell(table[k].live) ELSE table[k]
                           /\ RolledBack(table, p)[k] = IF table[k].by = p THEN Cell(table[k].com) ELSE table[k]
BY DEF Committed, RolledBack, Cells, Cell

\* What writing one row leaves of a table.
LEMMA WriteLemma ==
    ASSUME NEW K, NEW R, NEW table \in [K -> Cells(R)], NEW p \in Clients,
           NEW k \in K, NEW row \in R
    PROVE  LET new == [table EXCEPT ![k] = Written(@, p, row)]
           IN  /\ new \in [K -> Cells(R)]
               /\ \A x \in K : x # k => new[x] = table[x]
               /\ new[k].by = p /\ new[k].live = row /\ new[k].com = table[k].com
<1> DEFINE new == [table EXCEPT ![k] = Written(@, p, row)]
<1>1. table[k] \in Cells(R)
  OBVIOUS
<1>2. /\ Written(table[k], p, row) \in Cells(R)
      /\ Written(table[k], p, row).by = p
      /\ Written(table[k], p, row).live = row
      /\ Written(table[k], p, row).com = table[k].com
  BY <1>1 DEF Cells, Written
<1>3. new[k] = Written(table[k], p, row) /\ \A x \in K : x # k => new[x] = table[x]
  OBVIOUS
<1>4. new = [x \in K |-> new[x]]
  OBVIOUS
<1>5. new \in [K -> Cells(R)]
  BY <1>2, <1>3
<1> QED BY <1>2, <1>3, <1>5

\* What the end of p's transaction leaves of a table: its cells closed on one
\* of their versions, the others alone.
Ended(table, new, p) ==
    \A k \in DOMAIN table :
        IF table[k].by = p
        THEN \E row \in {table[k].live, table[k].com} : new[k] = Cell(row)
        ELSE new[k] = table[k]

\* The tables after either end.
LEMMA ClosedLemma ==
    ASSUME NEW K, NEW R, NEW table \in [K -> Cells(R)], NEW p \in Clients
    PROVE  Ended(table, Committed(table, p), p) /\ Ended(table, RolledBack(table, p), p)
BY EndLemma DEF Ended

-----------------------------------------------------------------------------
\* Sums.  SumFunctionOnSet takes the elements of a set in an order it does not
\* say.  It is defined by recursion over subsets, so first the function it is
\* defined by has to exist; then the order is shown not to matter.

\* Among sets of subsets of a finite set there is a smallest one: what holds
\* of a set whenever it holds of its proper subsets holds of every finite set.
LEMMA SmallestSet ==
    ASSUME NEW S, IsFiniteSet(S), NEW T \in SUBSET SUBSET S, T # {}
    PROVE  \E x \in T : \A y \in SUBSET x : y # x => y \notin T
<1>1. IsWellFoundedOn(StrictSubsetOrdering(S), FiniteSubsetsOf(S))
  BY FS_StrictSubsetOrderingWellFounded
<1>2. T \subseteq FiniteSubsetsOf(S)
  BY FS_FiniteSubsetsOfFinite
<1>3. PICK x \in T : \A y \in T : ~(<<y, x>> \in StrictSubsetOrdering(S))
  <2> HIDE DEF StrictSubsetOrdering
  <2> QED BY <1>1, <1>2, WFMin
<1> QED BY <1>3 DEF StrictSubsetOrdering

\* The element a sum over s takes next.
NextTaken(s) == CHOOSE x \in s : TRUE

\* g holds the sums of f over the subsets of S, each from a smaller one.
Unfolded(f, g, S) ==
    g = [s \in SUBSET S |-> IF s = {} THEN 0 ELSE f[NextTaken(s)] + g[s \ {NextTaken(s)}]]

\* What the recursive definition of a sum stands for.
LEMMA SumDef ==
    ASSUME NEW f, NEW S
    PROVE  SumFunctionOnSet(f, S) = (CHOOSE g : Unfolded(f, g, S))[S]
BY DEF SumFunctionOnSet, FoldFunctionOnSet, MapThenFoldSet, Unfolded, NextTaken

\* The next element is an element.
LEMMA TakenLemma ==
    ASSUME NEW s, s # {}
    PROVE  NextTaken(s) \in s
BY DEF NextTaken

\* At most one function holds the sums.
LEMMA UnfoldedOnce ==
    ASSUME NEW f, NEW S, IsFiniteSet(S), NEW g, NEW h, Unfolded(f, g, S), Unfolded(f, h, S)
    PROVE  g = h
<1> DEFINE T == {s \in SUBSET S : g[s] # h[s]}
<1>1. T = {}
  <2> SUFFICES ASSUME T # {}
               PROVE  FALSE
    OBVIOUS
  <2>1. PICK x \in T : \A y \in SUBSET x : y # x => y \notin T
    <3> HIDE DEF T
    <3>1. T \in SUBSET SUBSET S
      BY DEF T
    <3> QED BY <3>1, SmallestSet
  <2>2. /\ g[x] = IF x = {} THEN 0 ELSE f[NextTaken(x)] + g[x \ {NextTaken(x)}]
        /\ h[x] = IF x = {} THEN 0 ELSE f[NextTaken(x)] + h[x \ {NextTaken(x)}]
    BY DEF Unfolded
  <2>3. CASE x = {}
    BY <2>2, <2>3
  <2>4. CASE x # {}
    <3>1. x \ {NextTaken(x)} \in SUBSET x /\ x \ {NextTaken(x)} # x /\ x \in SUBSET S
      BY <2>4, TakenLemma
    <3>2. g[x \ {NextTaken(x)}] = h[x \ {NextTaken(x)}]
      BY <2>1, <3>1
    <3> QED BY <2>2, <2>4, <3>2
  <2> QED BY <2>3, <2>4
<1>2. g = [s \in SUBSET S |-> g[s]] /\ h = [s \in SUBSET S |-> h[s]]
  BY DEF Unfolded
<1>3. \A s \in SUBSET S : g[s] = h[s]
  BY <1>1
<1> QED BY <1>2, <1>3

\* A function that holds the sums over the subsets of S holds those over the
\* subsets of any of them.
LEMMA UnfoldedBelow ==
    ASSUME NEW f, NEW S, NEW g, Unfolded(f, g, S), NEW U \in SUBSET S
    PROVE  Unfolded(f, [s \in SUBSET U |-> g[s]], U)
<1> DEFINE h == [s \in SUBSET U |-> g[s]]
<1>1. \A s \in SUBSET U :
        /\ h[s] = g[s]
        /\ g[s] = IF s = {} THEN 0 ELSE f[NextTaken(s)] + g[s \ {NextTaken(s)}]
        /\ h[s \ {NextTaken(s)}] = g[s \ {NextTaken(s)}]
  BY DEF Unfolded
<1>2. h = [s \in SUBSET U |-> h[s]]
  OBVIOUS
<1> HIDE DEF h
<1>3. \A s \in SUBSET U : h[s] = IF s = {} THEN 0 ELSE f[NextTaken(s)] + h[s \ {NextTaken(s)}]
  BY <1>1
<1>4. Unfolded(f, h, U)
  BY <1>2, <1>3 DEF Unfolded
<1> QED BY <1>4 DEF h

\* Some function holds the sums: those over smaller sets make up the next.
LEMMA UnfoldedExists ==
    ASSUME NEW f, NEW S, IsFiniteSet(S)
    PROVE  \E g : Unfolded(f, g, S)
<1> DEFINE T == {U \in SUBSET S : ~\E g : Unfolded(f, g, U)}
<1> SUFFICES ASSUME T # {}
             PROVE  FALSE
  OBVIOUS
<1>1. PICK X \in T : \A y \in SUBSET X : y # X => y \notin T
  <2> HIDE DEF T
  <2>1. T \in SUBSET SUBSET S
    BY DEF T
  <2> QED BY <2>1, SmallestSet
<1>2. X \in SUBSET S /\ ~\E g : Unfolded(f, g, X)
  OBVIOUS
<1> DEFINE G(U) == CHOOSE g : Unfolded(f, g, U)
           v(s) == IF s = {} THEN 0 ELSE f[NextTaken(s)] + G(s \ {NextTaken(s)})[s \ {NextTaken(s)}]
           h == [s \in SUBSET X |-> v(s)]
<1>3. ASSUME NEW U \in SUBSET X, U # X
      PROVE  IsFiniteSet(U) /\ Unfolded(f, G(U), U)
  <2>1. U \in SUBSET S /\ U \notin T
    BY <1>1, <1>2, <1>3
  <2>2. IsFiniteSet(U)
    BY <2>1, FS_Subset
  <2> QED BY <2>1, <2>2
<1>4. ASSUME NEW r \in SUBSET X, r # X
      PROVE  G(r)[r] = v(r)
  <2>1. IsFiniteSet(r) /\ Unfolded(f, G(r), r)
    BY <1>3, <1>4
  <2>2. G(r)[r] = IF r = {} THEN 0 ELSE f[NextTaken(r)] + G(r)[r \ {NextTaken(r)}]
    <3> HIDE DEF G
    <3> QED BY <2>1 DEF Unfolded
  <2>3. CASE r # {}
    <3> DEFINE w == r \ {NextTaken(r)}
               k == [s \in SUBSET w |-> G(r)[s]]
    <3>1. w \in SUBSET r /\ w \in SUBSET X /\ w # X
      BY <2>3, <1>4, TakenLemma
    <3>2. IsFiniteSet(w) /\ Unfolded(f, G(w), w)
      BY <1>3, <3>1
    <3>3. Unfolded(f, k, w)
      <4> HIDE DEF G, w
      <4> QED BY <2>1, <3>1, UnfoldedBelow
    <3>4. k = G(w)
      <4> HIDE DEF k, G, w
      <4> QED BY <3>2, <3>3, UnfoldedOnce
    <3>5. k[w] = G(r)[w]
      OBVIOUS
    <3> HIDE DEF G, k, w
    <3> QED BY <2>2, <2>3, <3>4, <3>5 DEF v, w
  <2> QED BY <2>2, <2>3
<1>5. \A s \in SUBSET X : h[s] = v(s)
  OBVIOUS
<1> HIDE DEF G
<1>6. ASSUME NEW s \in SUBSET X
      PROVE  v(s) = IF s = {} THEN 0 ELSE f[NextTaken(s)] + h[s \ {NextTaken(s)}]
  <2>1. CASE s # {}
    <3>1. s \ {NextTaken(s)} \in SUBSET X /\ s \ {NextTaken(s)} # X
      BY <2>1, TakenLemma
    <3>2. G(s \ {NextTaken(s)})[s \ {NextTaken(s)}] = h[s \ {NextTaken(s)}]
      BY <1>4, <1>5, <3>1
    <3> QED BY <2>1, <3>2
  <2> QED BY <2>1
<1>7. h = [s \in SUBSET X |-> h[s]]
  OBVIOUS
<1> HIDE DEF h, v
<1>8. h = [s \in SUBSET X |-> IF s = {} THEN 0 ELSE f[NextTaken(s)] + h[s \ {NextTaken(s)}]]
  BY <1>5, <1>6, <1>7
<1> QED BY <1>2, <1>8 DEF Unfolded

\* The sum over a finite set, one element at a time.
LEMMA SumUnfolds ==
    ASSUME NEW f, NEW S, IsFiniteSet(S)
    PROVE  SumFunctionOnSet(f, S) =
               IF S = {} THEN 0
                         ELSE f[NextTaken(S)] + SumFunctionOnSet(f, S \ {NextTaken(S)})
<1> DEFINE g == CHOOSE g : Unfolded(f, g, S)
           U == S \ {NextTaken(S)}
           h == CHOOSE h : Unfolded(f, h, U)
           k == [s \in SUBSET U |-> g[s]]
<1>1. Unfolded(f, g, S)
  BY UnfoldedExists
<1>2. IsFiniteSet(U) /\ U \in SUBSET S
  BY FS_RemoveElement
<1>3. Unfolded(f, h, U)
  <2> HIDE DEF U
  <2> QED BY <1>2, UnfoldedExists
<1>4. Unfolded(f, k, U)
  <2> HIDE DEF g, U
  <2> QED BY <1>1, <1>2, UnfoldedBelow
<1>5. h = k
  <2> HIDE DEF h, k, U
  <2> QED BY <1>2, <1>3, <1>4, UnfoldedOnce
<1>6. k[U] = g[U]
  OBVIOUS
<1>7. SumFunctionOnSet(f, S) = g[S] /\ SumFunctionOnSet(f, U) = h[U]
  BY SumDef
<1>8. g[S] = IF S = {} THEN 0 ELSE f[NextTaken(S)] + g[U]
  <2> HIDE DEF g
  <2> QED BY <1>1 DEF Unfolded
<1> HIDE DEF g, h, k
<1> QED BY <1>5, <1>6, <1>7, <1>8

-----------------------------------------------------------------------------
\* What the proofs use.

\* The sum of integers is one.
LEMMA SumIsInt ==
    ASSUME NEW S, IsFiniteSet(S), NEW f, \A i \in S : f[i] \in Int
    PROVE  SumFunctionOnSet(f, S) \in Int
<1> DEFINE T == {U \in SUBSET S : SumFunctionOnSet(f, U) \notin Int}
<1> SUFFICES ASSUME T # {}
             PROVE  FALSE
  OBVIOUS
<1>1. PICK X \in T : \A y \in SUBSET X : y # X => y \notin T
  <2> HIDE DEF T
  <2>1. T \in SUBSET SUBSET S
    BY DEF T
  <2> QED BY <2>1, SmallestSet
<1>2. IsFiniteSet(X)
  BY FS_Subset
<1>3. SumFunctionOnSet(f, X) = IF X = {} THEN 0 ELSE f[NextTaken(X)] + SumFunctionOnSet(f, X \ {NextTaken(X)})
  BY <1>2, SumUnfolds
<1>4. X = {} \/ (f[NextTaken(X)] \in Int /\ SumFunctionOnSet(f, X \ {NextTaken(X)}) \in Int)
  BY <1>1, TakenLemma
<1> QED BY <1>3, <1>4

\* Any element may be taken first.
LEMMA SumTake ==
    ASSUME NEW S, IsFiniteSet(S), NEW f, \A i \in S : f[i] \in Int, NEW x \in S
    PROVE  SumFunctionOnSet(f, S) = f[x] + SumFunctionOnSet(f, S \ {x})
<1> DEFINE T == {U \in SUBSET S : \E z \in U : SumFunctionOnSet(f, U) # f[z] + SumFunctionOnSet(f, U \ {z})}
<1> SUFFICES ASSUME T # {}
             PROVE  FALSE
  OBVIOUS
<1>1. PICK X \in T : \A y \in SUBSET X : y # X => y \notin T
  <2> HIDE DEF T
  <2>1. T \in SUBSET SUBSET S
    BY DEF T
  <2> QED BY <2>1, SmallestSet
<1>2. PICK z \in X : SumFunctionOnSet(f, X) # f[z] + SumFunctionOnSet(f, X \ {z})
  OBVIOUS
<1> DEFINE t == NextTaken(X)
           Sum(U) == SumFunctionOnSet(f, U)
<1>3. t \in X
  BY <1>2, TakenLemma DEF t
<1>4. IsFiniteSet(X) /\ IsFiniteSet(X \ {z}) /\ IsFiniteSet(X \ {t}) /\ IsFiniteSet((X \ {z}) \ {t})
  BY FS_Subset
<1>5. Sum(X) = f[t] + Sum(X \ {t})
  BY <1>2, <1>4, SumUnfolds DEF t
<1>6. t # z
  BY <1>2, <1>5
<1>7. Sum(X \ {t}) = f[z] + Sum((X \ {t}) \ {z})
  BY <1>1, <1>3, <1>6
<1>8. Sum(X \ {z}) = f[t] + Sum((X \ {z}) \ {t})
  BY <1>1, <1>3, <1>6
<1>9. (X \ {t}) \ {z} = (X \ {z}) \ {t}
  OBVIOUS
<1>10. f[t] \in Int /\ f[z] \in Int /\ Sum((X \ {z}) \ {t}) \in Int
  <2>1. \A i \in (X \ {z}) \ {t} : f[i] \in Int
    OBVIOUS
  <2>2. Sum((X \ {z}) \ {t}) \in Int
    BY <1>4, <2>1, SumIsInt
  <2> QED BY <1>3, <2>2
<1> HIDE DEF Sum, t
<1>11. Sum(X) = f[t] + (f[z] + Sum((X \ {z}) \ {t}))
  BY <1>5, <1>7, <1>9
<1>12. f[z] + Sum(X \ {z}) = f[z] + (f[t] + Sum((X \ {z}) \ {t}))
  BY <1>8
<1>13. Sum(X) = f[z] + Sum(X \ {z})
  BY <1>10, <1>11, <1>12
<1> QED BY <1>2, <1>13 DEF Sum

\* The empty sum.
LEMMA SumOfNone ==
    ASSUME NEW f
    PROVE  SumFunctionOnSet(f, {}) = 0
BY SumUnfolds, FS_EmptySet

\* One more element.
LEMMA SumWith ==
    ASSUME NEW S, IsFiniteSet(S), NEW f, NEW x, x \notin S, \A i \in S \cup {x} : f[i] \in Int
    PROVE  SumFunctionOnSet(f, S \cup {x}) = f[x] + SumFunctionOnSet(f, S)
<1>1. IsFiniteSet(S \cup {x}) /\ (S \cup {x}) \ {x} = S
  BY FS_AddElement
<1> QED BY <1>1, SumTake

\* Only the values on the set matter.
LEMMA SumSame ==
    ASSUME NEW S, IsFiniteSet(S), NEW f, NEW g, \A i \in S : g[i] = f[i]
    PROVE  SumFunctionOnSet(g, S) = SumFunctionOnSet(f, S)
<1> DEFINE T == {U \in SUBSET S : SumFunctionOnSet(g, U) # SumFunctionOnSet(f, U)}
<1> SUFFICES ASSUME T # {}
             PROVE  FALSE
  OBVIOUS
<1>1. PICK X \in T : \A y \in SUBSET X : y # X => y \notin T
  <2> HIDE DEF T
  <2>1. T \in SUBSET SUBSET S
    BY DEF T
  <2> QED BY <2>1, SmallestSet
<1>2. IsFiniteSet(X)
  BY FS_Subset
<1>3. /\ SumFunctionOnSet(f, X) = IF X = {} THEN 0 ELSE f[NextTaken(X)] + SumFunctionOnSet(f, X \ {NextTaken(X)})
      /\ SumFunctionOnSet(g, X) = IF X = {} THEN 0 ELSE g[NextTaken(X)] + SumFunctionOnSet(g, X \ {NextTaken(X)})
  BY <1>2, SumUnfolds
<1>4. X = {} \/ (/\ f[NextTaken(X)] = g[NextTaken(X)]
                 /\ SumFunctionOnSet(f, X \ {NextTaken(X)}) = SumFunctionOnSet(g, X \ {NextTaken(X)}))
  BY <1>1, TakenLemma
<1> QED BY <1>3, <1>4

\* The sum of two functions.
LEMMA SumPlus ==
    ASSUME NEW S, IsFiniteSet(S), NEW f, NEW g, NEW h,
           \A i \in S : f[i] \in Int /\ g[i] \in Int /\ h[i] = f[i] + g[i]
    PROVE  SumFunctionOnSet(h, S) = SumFunctionOnSet(f, S) + SumFunctionOnSet(g, S)
<1> DEFINE T == {U \in SUBSET S : SumFunctionOnSet(h, U) # SumFunctionOnSet(f, U) + SumFunctionOnSet(g, U)}
<1> SUFFICES ASSUME T # {}
             PROVE  FALSE
  OBVIOUS
<1>1. PICK X \in T : \A y \in SUBSET X : y # X => y \notin T
  <2> HIDE DEF T
  <2>1. T \in SUBSET SUBSET S
    BY DEF T
  <2> QED BY <2>1, SmallestSet
<1>2. IsFiniteSet(X)
  BY FS_Subset
<1> DEFINE t == NextTaken(X)
           R == X \ {t}
<1>3. /\ SumFunctionOnSet(f, X) = IF X = {} THEN 0 ELSE f[t] + SumFunctionOnSet(f, R)
      /\ SumFunctionOnSet(g, X) = IF X = {} THEN 0 ELSE g[t] + SumFunctionOnSet(g, R)
      /\ SumFunctionOnSet(h, X) = IF X = {} THEN 0 ELSE h[t] + SumFunctionOnSet(h, R)
  BY <1>2, SumUnfolds
<1>4. X # {}
  BY <1>3
<1>5. t \in S /\ R \in SUBSET S /\ R \in SUBSET X /\ R # X
  BY <1>4, TakenLemma
<1>6. /\ f[t] \in Int /\ g[t] \in Int /\ h[t] = f[t] + g[t]
      /\ SumFunctionOnSet(h, R) = SumFunctionOnSet(f, R) + SumFunctionOnSet(g, R)
  BY <1>1, <1>5
<1>7. SumFunctionOnSet(f, R) \in Int /\ SumFunctionOnSet(g, R) \in Int
  <2>1. IsFiniteSet(R) /\ (\A i \in R : f[i] \in Int) /\ \A i \in R : g[i] \in Int
    BY <1>2, <1>5, FS_Subset
  <2> HIDE DEF R
  <2> QED BY <2>1, SumIsInt
<1>8. SumFunctionOnSet(h, X) # SumFunctionOnSet(f, X) + SumFunctionOnSet(g, X)
  OBVIOUS
<1> HIDE DEF t, R, T
<1> QED BY <1>3, <1>4, <1>6, <1>7, <1>8

\* One value changes.
LEMMA SumChange ==
    ASSUME NEW S, IsFiniteSet(S), NEW x \in S, NEW f, NEW g,
           \A i \in S : f[i] \in Int /\ g[i] \in Int, \A i \in S \ {x} : g[i] = f[i]
    PROVE  SumFunctionOnSet(g, S) = SumFunctionOnSet(f, S) + (g[x] - f[x])
<1>1. IsFiniteSet(S \ {x})
  BY FS_RemoveElement
<1>2. SumFunctionOnSet(g, S) = g[x] + SumFunctionOnSet(g, S \ {x})
  BY SumTake
<1>3. SumFunctionOnSet(f, S) = f[x] + SumFunctionOnSet(f, S \ {x})
  BY SumTake
<1>4. SumFunctionOnSet(g, S \ {x}) = SumFunctionOnSet(f, S \ {x})
  BY <1>1, SumSame
<1>5. SumFunctionOnSet(f, S \ {x}) \in Int
  BY <1>1, SumIsInt
<1> QED BY <1>2, <1>3, <1>4, <1>5

\* The difference of two functions.
LEMMA SumMinus ==
    ASSUME NEW S, IsFiniteSet(S), NEW f, NEW g, NEW h,
           \A i \in S : f[i] \in Int /\ g[i] \in Int /\ h[i] = f[i] - g[i]
    PROVE  SumFunctionOnSet(h, S) = SumFunctionOnSet(f, S) - SumFunctionOnSet(g, S)
<1>1. SumFunctionOnSet(f, S) = SumFunctionOnSet(h, S) + SumFunctionOnSet(g, S)
  <2>1. \A i \in S : h[i] \in Int /\ g[i] \in Int /\ f[i] = h[i] + g[i]
    OBVIOUS
  <2> QED BY <2>1, SumPlus
<1>2. SumFunctionOnSet(g, S) \in Int /\ SumFunctionOnSet(h, S) \in Int
  BY SumIsInt
<1> QED BY <1>1, <1>2

\* A set and the rest.
LEMMA SumSplit ==
    ASSUME NEW S, IsFiniteSet(S), NEW R \in SUBSET S, NEW f, \A i \in S : f[i] \in Int
    PROVE  SumFunctionOnSet(f, S) = SumFunctionOnSet(f, R) + SumFunctionOnSet(f, S \ R)
<1> DEFINE T == {U \in SUBSET R : SumFunctionOnSet(f, (S \ R) \cup U) #
                                  SumFunctionOnSet(f, U) + SumFunctionOnSet(f, S \ R)}
<1> SUFFICES ASSUME T # {}
             PROVE  FALSE
  <2>1. (S \ R) \cup R = S
    OBVIOUS
  <2> QED BY <2>1
<1>0. IsFiniteSet(R) /\ IsFiniteSet(S \ R)
  BY FS_Subset
<1>1. PICK X \in T : \A y \in SUBSET X : y # X => y \notin T
  <2> HIDE DEF T
  <2>1. T \in SUBSET SUBSET R
    BY DEF T
  <2> QED BY <1>0, <2>1, SmallestSet
<1>2. SumFunctionOnSet(f, S \ R) \in Int
  BY <1>0, SumIsInt
<1>3. X # {}
  <2>1. (S \ R) \cup {} = S \ R
    OBVIOUS
  <2>2. SumFunctionOnSet(f, {}) = 0
    BY SumOfNone
  <2>3. SumFunctionOnSet(f, S \ R) = 0 + SumFunctionOnSet(f, S \ R)
    BY <1>2
  <2>4. {} \notin T
    BY <2>1, <2>2, <2>3
  <2> QED BY <2>4
<1>4. PICK x \in X : TRUE
  BY <1>3
<1> DEFINE Y == X \ {x}
           Z == (S \ R) \cup Y
<1>5. /\ IsFiniteSet(Y) /\ IsFiniteSet(Z) /\ x \notin Z /\ x \notin Y /\ x \in S
      /\ Y \cup {x} = X /\ Z \cup {x} = (S \ R) \cup X /\ Y \subseteq S /\ Z \subseteq S
  <2>1. Y \in SUBSET S /\ Z \in SUBSET S
    OBVIOUS
  <2>2. IsFiniteSet(Y) /\ IsFiniteSet(Z)
    BY <2>1, FS_Subset
  <2> QED BY <2>2
<1>6. SumFunctionOnSet(f, Z) = SumFunctionOnSet(f, Y) + SumFunctionOnSet(f, S \ R)
  BY <1>1, <1>4
<1>7. SumFunctionOnSet(f, (S \ R) \cup X) # SumFunctionOnSet(f, X) + SumFunctionOnSet(f, S \ R)
  OBVIOUS
<1> HIDE DEF Y, Z, T
<1>8. SumFunctionOnSet(f, Y \cup {x}) = f[x] + SumFunctionOnSet(f, Y)
  BY <1>5, SumWith
<1>9. SumFunctionOnSet(f, Z \cup {x}) = f[x] + SumFunctionOnSet(f, Z)
  BY <1>5, SumWith
<1>10. SumFunctionOnSet(f, Y) \in Int /\ f[x] \in Int
  <2>1. \A i \in Y : f[i] \in Int
    BY <1>5
  <2> QED BY <1>5, <2>1, SumIsInt
<1>11. /\ SumFunctionOnSet(f, X) = f[x] + SumFunctionOnSet(f, Y)
       /\ SumFunctionOnSet(f, (S \ R) \cup X) = f[x] + SumFunctionOnSet(f, Z)
  BY <1>5, <1>8, <1>9
<1>12. f[x] + (SumFunctionOnSet(f, Y) + SumFunctionOnSet(f, S \ R))
           = (f[x] + SumFunctionOnSet(f, Y)) + SumFunctionOnSet(f, S \ R)
  BY <1>2, <1>10
<1> QED BY <1>6, <1>7, <1>11, <1>12

\* Nothing adds up to nothing.
LEMMA SumOfZeros ==
    ASSUME NEW S, IsFiniteSet(S), NEW f, \A i \in S : f[i] = 0
    PROVE  SumFunctionOnSet(f, S) = 0
<1>1. \A i \in S : f[i] \in Int /\ f[i] = f[i] + f[i]
  OBVIOUS
<1>2. SumFunctionOnSet(f, S) = SumFunctionOnSet(f, S) + SumFunctionOnSet(f, S)
  BY <1>1, SumPlus
<1>3. SumFunctionOnSet(f, S) \in Int
  BY <1>1, SumIsInt
<1> DEFINE z == SumFunctionOnSet(f, S)
<1> HIDE DEF z
<1>4. z \in Int /\ z = z + z
  BY <1>2, <1>3 DEF z
<1>5. z = 0
  BY <1>4
<1> QED BY <1>5 DEF z

\* Zeros may be left out.
LEMMA SumOnSupport ==
    ASSUME NEW S, IsFiniteSet(S), NEW R \in SUBSET S, NEW f, \A i \in S : f[i] \in Int,
           \A i \in S \ R : f[i] = 0
    PROVE  SumFunctionOnSet(f, S) = SumFunctionOnSet(f, R)
<1>1. SumFunctionOnSet(f, S) = SumFunctionOnSet(f, R) + SumFunctionOnSet(f, S \ R)
  BY SumSplit
<1>2. IsFiniteSet(S \ R) /\ IsFiniteSet(R)
  BY FS_Subset
<1>3. SumFunctionOnSet(f, S \ R) = 0
  BY <1>2, SumOfZeros
<1>4. SumFunctionOnSet(f, R) \in Int
  BY <1>2, SumIsInt
<1> QED BY <1>1, <1>3, <1>4

\* A table may be added up row by row or column by column: rows[s] holds the
\* sum of a[s] over T, columns[t] that of the entries of t over S.
LEMMA SumSwap ==
    ASSUME NEW S, IsFiniteSet(S), NEW T, IsFiniteSet(T), NEW a,
           \A s \in S, t \in T : a[s][t] \in Int
    PROVE  SumFunctionOnSet([s \in S |-> SumFunctionOnSet(a[s], T)], S)
               = SumFunctionOnSet([t \in T |-> SumFunctionOnSet([s \in S |-> a[s][t]], S)], T)
<1> DEFINE row == [s \in S |-> SumFunctionOnSet(a[s], T)]
           column(t) == [s \in S |-> a[s][t]]
           Columns(U) == [t \in T |-> SumFunctionOnSet(column(t), U)]
           Bad == {U \in SUBSET S : SumFunctionOnSet(row, U) # SumFunctionOnSet(Columns(U), T)}
<1>1. \A s \in S : row[s] \in Int /\ row[s] = SumFunctionOnSet(a[s], T)
  BY SumIsInt
<1>2. \A t \in T, s \in S : column(t)[s] = a[s][t] /\ column(t)[s] \in Int
  OBVIOUS
<1>3. Bad = {}
  <2> SUFFICES ASSUME Bad # {}
               PROVE  FALSE
    OBVIOUS
  <2>1. PICK X \in Bad : \A y \in SUBSET X : y # X => y \notin Bad
    <3> HIDE DEF Bad
    <3>1. Bad \in SUBSET SUBSET S
      BY DEF Bad
    <3> QED BY <3>1, SmallestSet
  <2>2. X \in SUBSET S /\ IsFiniteSet(X)
    BY FS_Subset
  <2>3. SumFunctionOnSet(row, X) # SumFunctionOnSet(Columns(X), T)
    OBVIOUS
  <2>4. X # {}
    <3> SUFFICES ASSUME X = {}
                 PROVE  FALSE
      OBVIOUS
    <3>1. \A t \in T : Columns({})[t] = 0
      BY SumOfNone
    <3>2. SumFunctionOnSet(Columns({}), T) = 0
      <4> HIDE DEF Columns
      <4> QED BY <3>1, SumOfZeros
    <3>3. SumFunctionOnSet(row, {}) = 0
      BY SumOfNone
    <3> HIDE DEF Bad, row, Columns
    <3> QED BY <2>3, <3>2, <3>3
  <2>5. PICK x \in X : TRUE
    BY <2>4
  <2> DEFINE Y == X \ {x}
  <2>6. IsFiniteSet(Y) /\ Y \in SUBSET S /\ x \notin Y /\ x \in S
    BY <2>2, FS_Subset
  <2>7. SumFunctionOnSet(row, Y) = SumFunctionOnSet(Columns(Y), T)
    BY <2>1, <2>5
  <2>8. SumFunctionOnSet(row, X) = row[x] + SumFunctionOnSet(row, Y)
    <3> HIDE DEF row, Bad
    <3> QED BY <1>1, <2>2, SumTake
  <2>9. ASSUME NEW t \in T
        PROVE  /\ Columns(Y)[t] \in Int /\ a[x][t] \in Int
               /\ Columns(X)[t] = a[x][t] + Columns(Y)[t]
    <3>1. /\ Columns(X)[t] = SumFunctionOnSet(column(t), X)
          /\ Columns(Y)[t] = SumFunctionOnSet(column(t), Y)
      OBVIOUS
    <3>2. \A i \in X : column(t)[i] \in Int
      BY <1>2, <2>2
    <3>3. \A i \in Y : column(t)[i] \in Int
      BY <1>2, <2>6
    <3>4. column(t)[x] = a[x][t] /\ a[x][t] \in Int
      BY <1>2, <2>6
    <3> HIDE DEF Columns, column, Bad
    <3>5. SumFunctionOnSet(column(t), X) = column(t)[x] + SumFunctionOnSet(column(t), X \ {x})
      BY <2>2, <3>2, SumTake
    <3>6. SumFunctionOnSet(column(t), Y) \in Int
      BY <2>6, <3>3, SumIsInt
    <3> QED BY <3>1, <3>4, <3>5, <3>6
  <2>10. SumFunctionOnSet(Columns(X), T) = SumFunctionOnSet(a[x], T) + SumFunctionOnSet(Columns(Y), T)
    <3> HIDE DEF Columns
    <3> QED BY <2>9, SumPlus
  <2> HIDE DEF row, Columns, Bad, Y
  <2> QED BY <1>1, <2>3, <2>6, <2>7, <2>8, <2>10
<1>4. Columns(S) = [t \in T |-> SumFunctionOnSet([s \in S |-> a[s][t]], S)]
  OBVIOUS
<1>5. SumFunctionOnSet(row, S) = SumFunctionOnSet(Columns(S), T)
  BY <1>3
<1> HIDE DEF row, Columns
<1> QED BY <1>4, <1>5 DEF row

\* Adding up along a numbering m of one set by the elements of another: S says
\* what is added, one element for each element of T.
LEMMA SumAlong ==
    ASSUME NEW S, IsFiniteSet(S), NEW T, NEW m, NEW f, NEW g,
           \A i \in S : m[i] \in T /\ f[i] = g[m[i]],
           \A i, j \in S : m[i] = m[j] => i = j,
           \A t \in T : g[t] \in Int /\ \E i \in S : m[i] = t
    PROVE  IsFiniteSet(T) /\ SumFunctionOnSet(f, S) = SumFunctionOnSet(g, T)
<1> DEFINE named(U) == {t \in T : \E i \in U : m[i] = t}
           Bad == {U \in SUBSET S : ~ (/\ IsFiniteSet(named(U))
                                       /\ SumFunctionOnSet(f, U) = SumFunctionOnSet(g, named(U)))}
<1>1. named(S) = T
  OBVIOUS
<1>2. SUFFICES ASSUME Bad # {}
               PROVE  FALSE
  BY <1>1
<1>3. PICK X \in Bad : \A y \in SUBSET X : y # X => y \notin Bad
  <2> HIDE DEF Bad
  <2>1. Bad \in SUBSET SUBSET S
    BY DEF Bad
  <2> QED BY <1>2, <2>1, SmallestSet
<1>4. X \in SUBSET S /\ IsFiniteSet(X)
  BY FS_Subset
<1>5. ~ (IsFiniteSet(named(X)) /\ SumFunctionOnSet(f, X) = SumFunctionOnSet(g, named(X)))
  OBVIOUS
<1>6. X # {}
  <2>1. named({}) = {}
    OBVIOUS
  <2>2. SumFunctionOnSet(f, {}) = 0 /\ SumFunctionOnSet(g, {}) = 0 /\ IsFiniteSet({})
    BY SumOfNone, FS_EmptySet
  <2> HIDE DEF named, Bad
  <2> QED BY <1>5, <2>1, <2>2
<1>7. PICK x \in X : TRUE
  BY <1>6
<1> DEFINE Y == X \ {x}
<1>8. IsFiniteSet(Y) /\ Y \in SUBSET S /\ x \in S
  BY <1>4, FS_Subset
<1>9. IsFiniteSet(named(Y)) /\ SumFunctionOnSet(f, Y) = SumFunctionOnSet(g, named(Y))
  BY <1>3, <1>7, <1>8
<1>10. named(X) = named(Y) \cup {m[x]} /\ m[x] \notin named(Y) /\ named(X) \subseteq T
  BY <1>4, <1>8
<1>11. (\A i \in X : f[i] \in Int) /\ (\A t \in named(Y) \cup {m[x]} : g[t] \in Int) /\ f[x] = g[m[x]]
  BY <1>4, <1>8, <1>10
<1> HIDE DEF named, Bad
<1>12. IsFiniteSet(named(Y) \cup {m[x]})
  BY <1>9, FS_AddElement
<1>13. SumFunctionOnSet(g, named(Y) \cup {m[x]}) = g[m[x]] + SumFunctionOnSet(g, named(Y))
  BY <1>9, <1>10, <1>11, SumWith
<1>14. SumFunctionOnSet(f, X) = f[x] + SumFunctionOnSet(f, Y)
  BY <1>4, <1>11, SumTake
<1> QED BY <1>5, <1>9, <1>10, <1>11, <1>12, <1>13, <1>14

\* Steps add up to the way from the first value to the last.
LEMMA SumOfSteps ==
    ASSUME NEW n \in Nat, NEW f, NEW h, h[0] = 0,
           \A i \in 1..n : f[i] \in Int /\ h[i] \in Int /\ h[i] = h[i - 1] + f[i]
    PROVE  SumFunctionOnSet(f, 1..n) = h[n]
<1> DEFINE Bad == {X \in SUBSET (1..n) :
                      \E k \in 0..n : X = 1..k /\ SumFunctionOnSet(f, X) # h[k]}
<1>0. IsFiniteSet(1..n)
  BY FS_Interval
<1>1. SUFFICES ASSUME Bad # {}
               PROVE  FALSE
  <2>1. 1..n \in SUBSET (1..n) /\ n \in 0..n
    OBVIOUS
  <2> QED BY <2>1
<1>2. PICK X \in Bad : \A y \in SUBSET X : y # X => y \notin Bad
  <2> HIDE DEF Bad
  <2>1. Bad \in SUBSET SUBSET (1..n)
    BY DEF Bad
  <2> QED BY <1>0, <1>1, <2>1, SmallestSet
<1>3. PICK k \in 0..n : X = 1..k /\ SumFunctionOnSet(f, X) # h[k]
  OBVIOUS
<1>4. k # 0
  <2>1. 1..0 = {}
    OBVIOUS
  <2>2. SumFunctionOnSet(f, {}) = 0
    BY SumOfNone
  <2> HIDE DEF Bad
  <2> QED BY <1>3, <2>1, <2>2
<1>5. k \in 1..n /\ k - 1 \in 0..n /\ 1..(k - 1) \in SUBSET X /\ 1..(k - 1) # X
  <2>1. k \in 1..n /\ k - 1 \in 0..n /\ k \notin 1..(k - 1) /\ k \in X
    BY <1>3, <1>4
  <2>2. 1..(k - 1) \in SUBSET X
    BY <1>3
  <2> QED BY <2>1, <2>2
<1>6. SumFunctionOnSet(f, 1..(k - 1)) = h[k - 1]
  <2>1. 1..(k - 1) \in SUBSET (1..n)
    BY <1>5
  <2> QED BY <1>2, <1>5, <2>1
<1>7. X = 1..(k - 1) \cup {k} /\ k \notin 1..(k - 1) /\ \A i \in 1..(k - 1) \cup {k} : f[i] \in Int
  BY <1>3, <1>5
<1>8. IsFiniteSet(1..(k - 1))
  BY <1>5, FS_Interval
<1>9. SumFunctionOnSet(f, 1..(k - 1) \cup {k}) = f[k] + SumFunctionOnSet(f, 1..(k - 1))
  BY <1>7, <1>8, SumWith
<1>10. h[k] = h[k - 1] + f[k] /\ f[k] \in Int /\ h[k] \in Int
  BY <1>5
<1>11. h[k - 1] \in Int
  <2>1. CASE k = 1
    BY <2>1
  <2>2. CASE k # 1
    <3>1. k - 1 \in 1..n
      BY <1>5, <2>2
    <3> QED BY <3>1
  <2> QED BY <2>1, <2>2
<1>12. SumFunctionOnSet(f, X) = f[k] + h[k - 1]
  BY <1>6, <1>7, <1>9
<1>13. f[k] + h[k - 1] = h[k - 1] + f[k]
  BY <1>10, <1>11
<1> HIDE DEF Bad
<1> QED BY <1>3, <1>10, <1>12, <1>13

\* The sum over a sequence that has grown by one.
LEMMA SumLonger ==
    ASSUME NEW n \in Nat, NEW f, NEW g, \A i \in 1..n : f[i] \in Int /\ g[i] = f[i],
           g[n + 1] \in Int
    PROVE  SumFunctionOnSet(g, 1..n + 1) = SumFunctionOnSet(f, 1..n) + g[n + 1]
<1>1. IsFiniteSet(1..n)
  BY FS_Interval
<1>2. 1..n + 1 = (1..n) \cup {n + 1} /\ n + 1 \notin 1..n
  OBVIOUS
<1>3. SumFunctionOnSet(g, 1..n + 1) = g[n + 1] + SumFunctionOnSet(g, 1..n)
  BY <1>1, <1>2, SumWith
<1>4. SumFunctionOnSet(g, 1..n) = SumFunctionOnSet(f, 1..n)
  BY <1>1, SumSame
<1>5. SumFunctionOnSet(f, 1..n) \in Int
  BY <1>1, SumIsInt
<1> QED BY <1>3, <1>4, <1>5

\* A sum of natural numbers is one.
LEMMA SumIsNat ==
    ASSUME NEW S, IsFiniteSet(S), NEW f, \A i \in S : f[i] \in Nat
    PROVE  SumFunctionOnSet(f, S) \in Nat
<1> DEFINE T == {U \in SUBSET S : SumFunctionOnSet(f, U) \notin Nat}
<1> SUFFICES ASSUME T # {}
             PROVE  FALSE
  OBVIOUS
<1>1. PICK U \in T : \A y \in SUBSET U : y # U => y \notin T
  <2> HIDE DEF T
  <2>1. T \in SUBSET SUBSET S
    BY DEF T
  <2> QED BY <2>1, SmallestSet
<1>2. IsFiniteSet(U) /\ U \subseteq S
  BY <1>1, FS_Subset
<1>3. CASE U = {}
  BY <1>1, <1>3, SumOfNone
<1>4. CASE U # {}
  <2> DEFINE x == NextTaken(U)
  <2>1. x \in U /\ U \ {x} \in SUBSET U /\ U \ {x} # U /\ U \ {x} \in SUBSET S
    BY <1>2, <1>4, TakenLemma
  <2>2. SumFunctionOnSet(f, U \ {x}) \in Nat
    BY <1>1, <2>1
  <2>3. SumFunctionOnSet(f, U) = f[x] + SumFunctionOnSet(f, U \ {x})
    BY <1>2, <1>4, SumUnfolds
  <2> QED BY <1>1, <1>2, <2>1, <2>2, <2>3
<1> QED BY <1>3, <1>4

\* A part of natural numbers adds up to no more than all of them.
LEMMA SumOfPart ==
    ASSUME NEW S, IsFiniteSet(S), NEW R \in SUBSET S, NEW f, \A i \in S : f[i] \in Nat
    PROVE  SumFunctionOnSet(f, R) <= SumFunctionOnSet(f, S)
<1>1. IsFiniteSet(R) /\ IsFiniteSet(S \ R)
  BY FS_Subset
<1>2. SumFunctionOnSet(f, R) \in Nat /\ SumFunctionOnSet(f, S \ R) \in Nat
  <2>1. (\A i \in R : f[i] \in Nat) /\ (\A i \in S \ R : f[i] \in Nat)
    OBVIOUS
  <2> QED BY <1>1, <2>1, SumIsNat
<1>3. SumFunctionOnSet(f, S) = SumFunctionOnSet(f, R) + SumFunctionOnSet(f, S \ R)
  <2>1. \A i \in S : f[i] \in Int
    OBVIOUS
  <2> QED BY <2>1, SumSplit
<1> QED BY <1>2, <1>3

\* A sum of smaller numbers is not larger.
LEMMA SumAtMost ==
    ASSUME NEW S, IsFiniteSet(S), NEW f, NEW g,
           \A i \in S : f[i] \in Int /\ g[i] \in Int /\ f[i] <= g[i]
    PROVE  SumFunctionOnSet(f, S) <= SumFunctionOnSet(g, S)
<1> DEFINE h == [i \in S |-> g[i] - f[i]]
<1>1. \A i \in S : h[i] \in Nat /\ h[i] = g[i] - f[i]
  OBVIOUS
<1>2. \A i \in S : f[i] \in Int /\ g[i] \in Int
  OBVIOUS
<1> HIDE DEF h
<1>3. SumFunctionOnSet(h, S) \in Nat
  BY <1>1, SumIsNat
<1>4. SumFunctionOnSet(h, S) = SumFunctionOnSet(g, S) - SumFunctionOnSet(f, S)
  BY <1>1, <1>2, SumMinus
<1>5. SumFunctionOnSet(f, S) \in Int /\ SumFunctionOnSet(g, S) \in Int
  BY <1>2, SumIsInt
<1> QED BY <1>3, <1>4, <1>5

\* Division rounds down.
LEMMA DivLemma ==
    ASSUME NEW a \in Int, NEW b \in Nat \ {0}
    PROVE  a \div b \in Int /\ b * (a \div b) <= a /\ a < b * (a \div b) + b
OBVIOUS
=============================================================================
