----------------------------- MODULE SumProofs -----------------------------
(***************************************************************************)
(* Sums over a finite set.  The library folds in the order CHOOSE gives;   *)
(* the lemmas show what the fold computes and that the order does not      *)
(* matter.  Induction over subsets is written as the search for a smallest *)
(* counterexample.                                                         *)
(***************************************************************************)
EXTENDS Integers, FiniteSets, Functions, FiniteSetTheorems, TLAPS

\* The element the sum takes first.
FirstOf(s) == CHOOSE x \in s : TRUE

\* g is the table of all partial sums of f on subsets of S.
Sums(g, f, S) ==
  g = [s \in SUBSET S |-> IF s = {} THEN 0 ELSE f[FirstOf(s)] + g[s \ {FirstOf(s)}]]

\* The table the fold of the library builds.
SumTable(f, S) == CHOOSE g : Sums(g, f, S)

\* The library's sum is the last entry of that table.
LEMMA SumIs ==
  ASSUME NEW f, NEW S
  PROVE  SumFunctionOnSet(f, S) = SumTable(f, S)[S]
BY DEF SumFunctionOnSet, FoldFunctionOnSet, MapThenFoldSet, SumTable, Sums, FirstOf

\* Induction over the subsets of a finite set, in the form the provers can use: a
\* set of subsets that is not empty has a member without a smaller one in it.
LEMMA SmallestSubset ==
  ASSUME NEW S, IsFiniteSet(S), NEW Bad \in SUBSET (SUBSET S), Bad # {}
  PROVE  \E T \in Bad : \A U \in SUBSET T : U # T => U \notin Bad
<1>1. IsWellFoundedOn(StrictSubsetOrdering(S), SUBSET S)
  BY FS_StrictSubsetOrderingWellFounded, FS_FiniteSubsetsOfFinite
<1>2. PICK T \in Bad : \A U \in Bad : ~(<<U, T>> \in StrictSubsetOrdering(S))
  BY <1>1, WFMin
<1>3. ASSUME NEW U \in SUBSET T, U # T
      PROVE  U \notin Bad
  BY <1>2, <1>3 DEF StrictSubsetOrdering
<1>4. QED
  BY <1>2, <1>3

\* Without its first member a set is a smaller one.
LEMMA FirstIn ==
  ASSUME NEW s, s # {}
  PROVE  FirstOf(s) \in s /\ s \ {FirstOf(s)} # s
BY DEF FirstOf

\* Two tables agree wherever both have an entry.
LEMMA SumsUnique ==
  ASSUME NEW f, NEW S, NEW T, IsFiniteSet(S), S \subseteq T,
         NEW g, NEW h, Sums(g, f, S), Sums(h, f, T)
  PROVE  \A s \in SUBSET S : g[s] = h[s]
<1> DEFINE Bad == {s \in SUBSET S : g[s] # h[s]}
<1>1. SUFFICES ASSUME Bad # {}
               PROVE  FALSE
  OBVIOUS
<1>2. PICK s \in Bad : \A U \in SUBSET s : U # s => U \notin Bad
  <2>1. Bad \in SUBSET (SUBSET S)
    OBVIOUS
  <2> HIDE DEF Bad
  <2>2. QED
    BY <1>1, <2>1, SmallestSubset
<1>3. s \in SUBSET S /\ s \in SUBSET T /\ g[s] # h[s]
  OBVIOUS
<1>4. g[s] = IF s = {} THEN 0 ELSE f[FirstOf(s)] + g[s \ {FirstOf(s)}]
  BY <1>3 DEF Sums
<1>5. h[s] = IF s = {} THEN 0 ELSE f[FirstOf(s)] + h[s \ {FirstOf(s)}]
  BY <1>3 DEF Sums
<1>6. CASE s = {}
  BY <1>3, <1>4, <1>5, <1>6
<1>7. CASE s # {}
  <2>1. s \ {FirstOf(s)} \in SUBSET s /\ s \ {FirstOf(s)} # s /\ s \ {FirstOf(s)} \in SUBSET S
    BY <1>3, <1>7, FirstIn
  <2>2. g[s \ {FirstOf(s)}] = h[s \ {FirstOf(s)}]
    BY <1>2, <2>1
  <2>3. QED
    BY <1>3, <1>4, <1>5, <1>7, <2>2
<1>8. QED
  BY <1>6, <1>7

\* The table exists, so that the recursion computes what it says.
LEMMA SumsExist ==
  ASSUME NEW f, NEW S, IsFiniteSet(S)
  PROVE  Sums(SumTable(f, S), f, S)
<1> DEFINE Bad == {s \in SUBSET S : ~(\E g : Sums(g, f, s))}
<1>1. SUFFICES ASSUME Bad # {}
               PROVE  FALSE
  <2>1. CASE \E g : Sums(g, f, S)
    BY <2>1 DEF SumTable
  <2>2. QED
    BY <2>1
<1>2. PICK T \in Bad : \A U \in SUBSET T : U # T => U \notin Bad
  <2>1. Bad \in SUBSET (SUBSET S)
    OBVIOUS
  <2> HIDE DEF Bad
  <2>2. QED
    BY <1>1, <2>1, SmallestSubset
<1>3. T \in SUBSET S /\ ~(\E g : Sums(g, f, T))
  OBVIOUS
<1>4. ASSUME NEW s \in SUBSET T, s # T
      PROVE  Sums(SumTable(f, s), f, s) /\ IsFiniteSet(s)
  <2>1. \E g : Sums(g, f, s)
    BY <1>2, <1>3, <1>4
  <2>2. QED
    BY <1>3, <2>1, FS_Subset DEF SumTable
<1> DEFINE rest(s) == s \ {FirstOf(s)}
           g == [s \in SUBSET T |-> IF s = {} THEN 0 ELSE f[FirstOf(s)] + SumTable(f, rest(s))[rest(s)]]
<1>5. ASSUME NEW s \in SUBSET T, s # T
      PROVE  g[s] = SumTable(f, s)[s]
  <2>1. SumTable(f, s)[s] = IF s = {} THEN 0 ELSE f[FirstOf(s)] + SumTable(f, s)[rest(s)]
    BY <1>4, <1>5 DEF Sums
  <2>2. CASE s = {}
    BY <2>1, <2>2
  <2>3. CASE s # {}
    <3>1. rest(s) \in SUBSET T /\ rest(s) # T /\ rest(s) \subseteq s
      BY <2>3, FirstIn
    <3>2. Sums(SumTable(f, rest(s)), f, rest(s)) /\ IsFiniteSet(rest(s)) /\ Sums(SumTable(f, s), f, s)
      BY <1>4, <1>5, <3>1
    <3>3. rest(s) \in SUBSET rest(s)
      OBVIOUS
    <3> HIDE DEF rest
    <3>4. SumTable(f, rest(s))[rest(s)] = SumTable(f, s)[rest(s)]
      BY <3>1, <3>2, <3>3, SumsUnique
    <3>5. g[s] = f[FirstOf(s)] + SumTable(f, rest(s))[rest(s)]
      BY <2>3
    <3>6. QED
      BY <2>1, <2>3, <3>4, <3>5
  <2>4. QED
    BY <2>2, <2>3
<1>6. ASSUME NEW s \in SUBSET T, s # {}
      PROVE  SumTable(f, rest(s))[rest(s)] = g[rest(s)]
  <2>1. rest(s) \in SUBSET T /\ rest(s) # T
    BY <1>6, FirstIn
  <2> HIDE DEF rest, g
  <2>2. QED
    BY <1>5, <2>1
<1>7. Sums(g, f, T)
  <2>1. g = [s \in SUBSET T |-> IF s = {} THEN 0 ELSE f[FirstOf(s)] + g[rest(s)]]
    BY <1>6
  <2>2. QED
    BY <2>1 DEF Sums
<1>8. QED
  BY <1>3, <1>7

\* What the sum of the library computes.
LEMMA SumEmpty ==
  ASSUME NEW f
  PROVE  SumFunctionOnSet(f, {}) = 0
<1>1. Sums(SumTable(f, {}), f, {}) /\ {} \in SUBSET {}
  BY SumsExist, FS_EmptySet
<1>2. SumTable(f, {})[{}] = 0
  BY <1>1 DEF Sums
<1>3. QED
  BY <1>2, SumIs

\* The first member and the sum of the others.
LEMMA SumStep ==
  ASSUME NEW f, NEW S, IsFiniteSet(S), S # {}
  PROVE  SumFunctionOnSet(f, S) = f[FirstOf(S)] + SumFunctionOnSet(f, S \ {FirstOf(S)})
<1> DEFINE R == S \ {FirstOf(S)}
<1>1. IsFiniteSet(R) /\ R \in SUBSET S /\ R \in SUBSET R /\ S \in SUBSET S
  BY FS_Subset
<1>2. Sums(SumTable(f, S), f, S) /\ Sums(SumTable(f, R), f, R)
  BY <1>1, SumsExist
<1>3. SumTable(f, S)[S] = f[FirstOf(S)] + SumTable(f, S)[R]
  BY <1>1, <1>2 DEF Sums
<1> HIDE DEF R
<1>4. SumTable(f, R)[R] = SumTable(f, S)[R]
  BY <1>1, <1>2, SumsUnique
<1>5. SumFunctionOnSet(f, S) = f[FirstOf(S)] + SumFunctionOnSet(f, R)
  BY <1>3, <1>4, SumIs
<1>6. QED
  BY <1>5 DEF R

\* All summands are natural numbers.
Naturals(f, S) == \A x \in S : f[x] \in Nat

\* A sum of natural numbers is one.
LEMMA SumNat ==
  ASSUME NEW f, NEW S, IsFiniteSet(S), Naturals(f, S)
  PROVE  SumFunctionOnSet(f, S) \in Nat
<1> DEFINE Bad == {s \in SUBSET S : SumFunctionOnSet(f, s) \notin Nat}
<1>1. SUFFICES ASSUME Bad # {}
               PROVE  FALSE
  OBVIOUS
<1>2. PICK T \in Bad : \A U \in SUBSET T : U # T => U \notin Bad
  <2>1. Bad \in SUBSET (SUBSET S)
    OBVIOUS
  <2> HIDE DEF Bad
  <2>2. QED
    BY <1>1, <2>1, SmallestSubset
<1>3. T \in SUBSET S /\ SumFunctionOnSet(f, T) \notin Nat /\ IsFiniteSet(T)
  BY FS_Subset
<1>4. T # {}
  BY <1>3, SumEmpty
<1>5. /\ FirstOf(T) \in T /\ T \ {FirstOf(T)} # T /\ T \ {FirstOf(T)} \in SUBSET T
      /\ T \ {FirstOf(T)} \in SUBSET S
  BY <1>3, <1>4, FirstIn
<1>6. SumFunctionOnSet(f, T \ {FirstOf(T)}) \in Nat
  BY <1>2, <1>5
<1>7. f[FirstOf(T)] \in Nat
  BY <1>3, <1>5 DEF Naturals
<1>8. SumFunctionOnSet(f, T) = f[FirstOf(T)] + SumFunctionOnSet(f, T \ {FirstOf(T)})
  BY <1>3, <1>4, SumStep
<1>9. QED
  BY <1>3, <1>6, <1>7, <1>8

\* The sum does not depend on the order it is taken in: any member may go first.
LEMMA SumTake ==
  ASSUME NEW f, NEW S, IsFiniteSet(S), Naturals(f, S), NEW x \in S
  PROVE  SumFunctionOnSet(f, S) = f[x] + SumFunctionOnSet(f, S \ {x})
<1> DEFINE Any(s, y) == SumFunctionOnSet(f, s) = f[y] + SumFunctionOnSet(f, s \ {y})
           Bad == {s \in SUBSET S : \E y \in s : ~Any(s, y)}
<1>1. SUFFICES ASSUME Bad # {}
               PROVE  FALSE
  OBVIOUS
<1>2. PICK T \in Bad : \A U \in SUBSET T : U # T => U \notin Bad
  <2>1. Bad \in SUBSET (SUBSET S)
    OBVIOUS
  <2> HIDE DEF Bad
  <2>2. QED
    BY <1>1, <2>1, SmallestSubset
<1>3. T \in SUBSET S /\ IsFiniteSet(T)
  BY FS_Subset
<1>4. PICK y \in T : ~Any(T, y)
  OBVIOUS
<1> DEFINE p == FirstOf(T)
<1>5. p \in T /\ T # {} /\ T \ {p} # T
  BY <1>4, FirstIn
<1>6. SumFunctionOnSet(f, T) = f[p] + SumFunctionOnSet(f, T \ {p})
  BY <1>3, <1>5, SumStep
<1> HIDE DEF p
<1>7. y # p
  BY <1>4, <1>6
<1>8. Any(T \ {p}, y) /\ Any(T \ {y}, p)
  <2>1. /\ T \ {p} \in SUBSET T /\ T \ {p} # T /\ y \in T \ {p}
        /\ T \ {y} \in SUBSET T /\ T \ {y} # T /\ p \in T \ {y}
    BY <1>5, <1>7
  <2>2. T \ {p} \notin Bad /\ T \ {y} \notin Bad
    BY <1>2, <2>1
  <2>3. T \ {p} \in SUBSET S /\ T \ {y} \in SUBSET S
    BY <1>3
  <2> HIDE DEF Any
  <2>4. QED
    BY <2>1, <2>2, <2>3
<1>9. (T \ {p}) \ {y} = (T \ {y}) \ {p}
  OBVIOUS
<1>10. f[p] \in Nat /\ f[y] \in Nat /\ SumFunctionOnSet(f, (T \ {p}) \ {y}) \in Nat
  <2>1. IsFiniteSet((T \ {p}) \ {y}) /\ Naturals(f, (T \ {p}) \ {y})
    BY <1>3, FS_Subset DEF Naturals
  <2>2. QED
    BY <1>3, <1>5, <2>1, SumNat DEF Naturals
<1> DEFINE Z == SumFunctionOnSet(f, (T \ {p}) \ {y})
<1>11. /\ SumFunctionOnSet(f, T \ {p}) = f[y] + Z
       /\ SumFunctionOnSet(f, T \ {y}) = f[p] + Z
  BY <1>8, <1>9
<1>12. Z \in Nat
  BY <1>10
<1> HIDE DEF Z
<1>13. f[p] + (f[y] + Z) = f[y] + (f[p] + Z)
  BY <1>10, <1>12
<1>14. QED
  BY <1>4, <1>6, <1>11, <1>13

\* Equal values have equal sums.
LEMMA SumSame ==
  ASSUME NEW f, NEW g, NEW S, IsFiniteSet(S), \A x \in S : f[x] = g[x]
  PROVE  SumFunctionOnSet(f, S) = SumFunctionOnSet(g, S)
<1> DEFINE Bad == {s \in SUBSET S : SumFunctionOnSet(f, s) # SumFunctionOnSet(g, s)}
<1>1. SUFFICES ASSUME Bad # {}
               PROVE  FALSE
  OBVIOUS
<1>2. PICK T \in Bad : \A U \in SUBSET T : U # T => U \notin Bad
  <2>1. Bad \in SUBSET (SUBSET S)
    OBVIOUS
  <2> HIDE DEF Bad
  <2>2. QED
    BY <1>1, <2>1, SmallestSubset
<1>3. T \in SUBSET S /\ SumFunctionOnSet(f, T) # SumFunctionOnSet(g, T) /\ IsFiniteSet(T)
  BY FS_Subset
<1>4. T # {}
  BY <1>3, SumEmpty
<1>5. /\ FirstOf(T) \in T /\ T \ {FirstOf(T)} # T /\ T \ {FirstOf(T)} \in SUBSET T
      /\ T \ {FirstOf(T)} \in SUBSET S
  BY <1>3, <1>4, FirstIn
<1>6. SumFunctionOnSet(f, T \ {FirstOf(T)}) = SumFunctionOnSet(g, T \ {FirstOf(T)})
  BY <1>2, <1>5
<1>7. f[FirstOf(T)] = g[FirstOf(T)]
  BY <1>3, <1>5
<1>8. /\ SumFunctionOnSet(f, T) = f[FirstOf(T)] + SumFunctionOnSet(f, T \ {FirstOf(T)})
      /\ SumFunctionOnSet(g, T) = g[FirstOf(T)] + SumFunctionOnSet(g, T \ {FirstOf(T)})
  BY <1>3, <1>4, SumStep
<1>9. QED
  BY <1>3, <1>6, <1>7, <1>8

\* A sum of sums.
LEMMA SumPlus ==
  ASSUME NEW f, NEW g, NEW h, NEW S, IsFiniteSet(S), Naturals(f, S), Naturals(g, S),
         \A x \in S : h[x] = f[x] + g[x]
  PROVE  SumFunctionOnSet(h, S) = SumFunctionOnSet(f, S) + SumFunctionOnSet(g, S)
<1> DEFINE Fits(s) == SumFunctionOnSet(h, s) = SumFunctionOnSet(f, s) + SumFunctionOnSet(g, s)
           Bad == {s \in SUBSET S : ~Fits(s)}
<1>1. SUFFICES ASSUME Bad # {}
               PROVE  FALSE
  OBVIOUS
<1>2. PICK T \in Bad : \A U \in SUBSET T : U # T => U \notin Bad
  <2>1. Bad \in SUBSET (SUBSET S)
    OBVIOUS
  <2> HIDE DEF Bad
  <2>2. QED
    BY <1>1, <2>1, SmallestSubset
<1>3. T \in SUBSET S /\ ~Fits(T) /\ IsFiniteSet(T)
  BY FS_Subset
<1>4. T # {}
  BY <1>3, SumEmpty
<1> DEFINE p == FirstOf(T)
           R == T \ {p}
<1>5. p \in T /\ R # T /\ R \in SUBSET T /\ R \in SUBSET S
  BY <1>3, <1>4, FirstIn
<1>6. Fits(R)
  BY <1>2, <1>5
<1>7. h[p] = f[p] + g[p] /\ f[p] \in Nat /\ g[p] \in Nat
  BY <1>3, <1>5 DEF Naturals
<1>8. /\ SumFunctionOnSet(f, T) = f[p] + SumFunctionOnSet(f, R)
      /\ SumFunctionOnSet(g, T) = g[p] + SumFunctionOnSet(g, R)
      /\ SumFunctionOnSet(h, T) = h[p] + SumFunctionOnSet(h, R)
  BY <1>3, <1>4, SumStep
<1>9. SumFunctionOnSet(f, R) \in Nat /\ SumFunctionOnSet(g, R) \in Nat
  <2>1. IsFiniteSet(R) /\ Naturals(f, R) /\ Naturals(g, R)
    BY <1>5, FS_Subset DEF Naturals
  <2> HIDE DEF R
  <2>2. QED
    BY <2>1, SumNat
<1> HIDE DEF p, R
<1>10. QED
  BY <1>3, <1>6, <1>7, <1>8, <1>9

\* One summand changes, comes or goes.
LEMMA SumMoves ==
  ASSUME NEW f, NEW g, NEW S, NEW T, IsFiniteSet(S), IsFiniteSet(T), Naturals(f, S), Naturals(g, T),
         NEW w, S \ {w} = T \ {w}, \A x \in S \ {w} : f[x] = g[x]
  PROVE  SumFunctionOnSet(g, T) + (IF w \in S THEN f[w] ELSE 0)
           = SumFunctionOnSet(f, S) + (IF w \in T THEN g[w] ELSE 0)
<1> DEFINE R == S \ {w}
           Z == SumFunctionOnSet(f, R)
<1>1. IsFiniteSet(R) /\ Naturals(f, R)
  BY FS_Subset DEF Naturals
<1>2. R = T \ {w}
  OBVIOUS
<1>3. Z = SumFunctionOnSet(g, R)
  BY <1>1, SumSame
<1>4. Z \in Nat
  BY <1>1, SumNat
<1>5. SumFunctionOnSet(f, S) = (IF w \in S THEN f[w] ELSE 0) + Z
  <2>1. CASE w \in S
    BY <2>1, SumTake
  <2>2. CASE w \notin S
    <3>1. R = S
      BY <2>2
    <3> HIDE DEF R
    <3>2. QED
      BY <1>4, <2>2, <3>1
  <2>3. QED
    BY <2>1, <2>2
<1>6. SumFunctionOnSet(g, T) = (IF w \in T THEN g[w] ELSE 0) + Z
  <2>1. CASE w \in T
    BY <1>2, <1>3, <2>1, SumTake
  <2>2. CASE w \notin T
    <3>1. R = T
      BY <1>2, <2>2
    <3> HIDE DEF R
    <3>2. QED
      BY <1>3, <1>4, <2>2, <3>1
  <2>3. QED
    BY <2>1, <2>2
<1>7. (w \in S => f[w] \in Nat) /\ (w \in T => g[w] \in Nat)
  BY DEF Naturals
<1> HIDE DEF Z, R
<1>8. QED
  BY <1>4, <1>5, <1>6, <1>7

\* One member comes or goes.
LEMMA CardMoves ==
  ASSUME NEW S, NEW T, IsFiniteSet(S), IsFiniteSet(T), NEW w, S \ {w} = T \ {w}
  PROVE  Cardinality(T) + (IF w \in S THEN 1 ELSE 0) = Cardinality(S) + (IF w \in T THEN 1 ELSE 0)
<1>1. ASSUME NEW X, IsFiniteSet(X)
      PROVE  /\ Cardinality(X) = Cardinality(X \ {w}) + (IF w \in X THEN 1 ELSE 0)
             /\ Cardinality(X \ {w}) \in Nat
  <2>1. IsFiniteSet(X \ {w})
    BY <1>1, FS_Subset
  <2>2. CASE w \in X
    BY <1>1, <2>1, <2>2, FS_RemoveElement, FS_CardinalityType
  <2>3. CASE w \notin X
    <3>1. X \ {w} = X
      BY <2>3
    <3>2. Cardinality(X) \in Nat
      BY <1>1, FS_CardinalityType
    <3>3. QED
      BY <2>3, <3>1, <3>2
  <2>4. QED
    BY <2>2, <2>3
<1>2. QED
  BY <1>1

\* A sum of ones counts.
LEMMA SumOnes ==
  ASSUME NEW f, NEW S, IsFiniteSet(S), \A x \in S : f[x] = 1
  PROVE  SumFunctionOnSet(f, S) = Cardinality(S)
<1> DEFINE Fits(s) == SumFunctionOnSet(f, s) = Cardinality(s)
           Bad == {s \in SUBSET S : ~Fits(s)}
<1>1. SUFFICES ASSUME Bad # {}
               PROVE  FALSE
  OBVIOUS
<1>2. PICK T \in Bad : \A U \in SUBSET T : U # T => U \notin Bad
  <2>1. Bad \in SUBSET (SUBSET S)
    OBVIOUS
  <2> HIDE DEF Bad
  <2>2. QED
    BY <1>1, <2>1, SmallestSubset
<1>3. T \in SUBSET S /\ ~Fits(T) /\ IsFiniteSet(T)
  BY FS_Subset
<1>4. T # {}
  BY <1>3, SumEmpty, FS_EmptySet
<1> DEFINE p == FirstOf(T)
           R == T \ {p}
<1>5. p \in T /\ R # T /\ R \in SUBSET T /\ R \in SUBSET S
  BY <1>3, <1>4, FirstIn
<1>6. Fits(R)
  BY <1>2, <1>5
<1>7. f[p] = 1
  BY <1>3, <1>5
<1>8. SumFunctionOnSet(f, T) = f[p] + SumFunctionOnSet(f, R)
  BY <1>3, <1>4, SumStep
<1>9. Cardinality(R) = Cardinality(T) - 1 /\ Cardinality(T) \in Nat
  BY <1>3, <1>5, FS_RemoveElement, FS_CardinalityType
<1> HIDE DEF p, R
<1>10. QED
  BY <1>3, <1>6, <1>7, <1>8, <1>9
=============================================================================
