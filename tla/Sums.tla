-------------------------------- MODULE Sums --------------------------------
(***************************************************************************)
(* The sum of the numbers f[x] over a finite set of x, and what an account *)
(* of credits relies on.  A sum is a fold, which picks its elements in     *)
(* some order; the lemmas show that the order makes no difference, since   *)
(* the sum counts the units that are below f[x] for some x.                *)
(***************************************************************************)
EXTENDS FiniteSetTheorems, TLAPS

\* What is summed are numbers.
Counts(f, S) == IsFiniteSet(S) /\ \A x \in S : f[x] \in Nat

-----------------------------------------------------------------------------
(* What the sum counts.                                                    *)

Units(f, S) == {p \in S \X Nat : p[2] < f[p[1]]}

\* A non-empty set of subsets of a finite set has a smallest one.
LEMMA Smallest ==
    ASSUME NEW S, IsFiniteSet(S), NEW Bad \in SUBSET SUBSET S, Bad # {}
    PROVE  \E T \in Bad : \A U \in Bad : U \subseteq T => U = T
<1> DEFINE R == StrictSubsetOrdering(S)
<1>1. IsWellFoundedOn(R, SUBSET S)
  BY FS_StrictSubsetOrderingWellFounded, FS_FiniteSubsetsOfFinite
<1>2. R = {ss \in (SUBSET S) \X (SUBSET S) : ss[1] \subseteq ss[2] /\ ss[1] # ss[2]}
  BY DEF StrictSubsetOrdering
<1> HIDE DEF R
<1>3. PICK T \in Bad : \A U \in Bad : ~ (<<U, T>> \in R)
  BY <1>1, WFMin, Zenon
<1>4. ASSUME NEW U \in Bad, U \subseteq T, U # T
      PROVE  <<U, T>> \in R
  BY <1>2, <1>4
<1>5. \A U \in Bad : U \subseteq T => U = T
  BY <1>3, <1>4
<1> QED
  BY <1>5

LEMMA UnitsOne ==
    ASSUME NEW f, NEW x, f[x] \in Nat
    PROVE  IsFiniteSet(Units(f, {x})) /\ Cardinality(Units(f, {x})) = f[x]
<1> DEFINE I == 0 .. (f[x] - 1)
           g == [i \in I |-> <<x, i>>]
<1>1. IsFiniteSet(I) /\ Cardinality(I) = f[x]
  <2>1. 0 \in Int /\ f[x] - 1 \in Int
    OBVIOUS
  <2>2. IsFiniteSet(I) /\ Cardinality(I) = IF 0 > f[x] - 1 THEN 0 ELSE (f[x] - 1) - 0 + 1
    BY <2>1, FS_Interval
  <2> QED
    BY <2>2
<1>2. \A p : p \in Units(f, {x}) <=> \E i \in I : p = <<x, i>>
  BY DEF Units
<1>3. g \in Bijection(I, Units(f, {x}))
  BY <1>2 DEF Bijection, Injection, Surjection, IsInjective
<1>4. ExistsBijection(I, Units(f, {x}))
  BY <1>3 DEF ExistsBijection
<1> QED
  BY <1>1, <1>4, FS_Bijection

LEMMA UnitsSplit ==
    ASSUME NEW f, NEW S, NEW x \in S, f[x] \in Nat, IsFiniteSet(Units(f, S \ {x}))
    PROVE  /\ IsFiniteSet(Units(f, S))
           /\ Cardinality(Units(f, S)) = f[x] + Cardinality(Units(f, S \ {x}))
<1> DEFINE A == Units(f, S \ {x})
           B == Units(f, {x})
<1>1. Units(f, S) = A \cup B /\ A \cap B = {}
  BY DEF Units
<1>2. IsFiniteSet(B) /\ Cardinality(B) = f[x]
  BY UnitsOne
<1>3. Cardinality({}) = 0 /\ Cardinality(A) \in Nat
  BY FS_EmptySet, FS_CardinalityType
<1>4. /\ IsFiniteSet(A \cup B)
      /\ Cardinality(A \cup B) = Cardinality(A) + Cardinality(B) - Cardinality(A \cap B)
  BY <1>2, FS_Union
<1> HIDE DEF A, B
<1>5. Cardinality(A \cap B) = 0
  BY <1>1, <1>3
<1>6. Cardinality(A \cup B) = f[x] + Cardinality(A)
  BY <1>2, <1>3, <1>4, <1>5
<1> QED
  BY <1>1, <1>4, <1>6 DEF A

LEMMA UnitsFinite ==
    ASSUME NEW f, NEW S, Counts(f, S)
    PROVE  IsFiniteSet(Units(f, S)) /\ Cardinality(Units(f, S)) \in Nat
<1> DEFINE Bad == {T \in SUBSET S : ~ IsFiniteSet(Units(f, T))}
<1>1. SUFFICES ASSUME Bad # {} PROVE FALSE
  BY FS_CardinalityType
<1>0. IsFiniteSet(S) /\ Bad \in SUBSET SUBSET S
  BY DEF Counts
<1>2. PICK T \in Bad : \A U \in Bad : U \subseteq T => U = T
  <2> HIDE DEF Bad
  <2> QED
    BY <1>0, <1>1, Smallest
<1>3. T # {}
  <2>1. Units(f, {}) = {}
    BY DEF Units
  <2> QED
    BY <2>1, FS_EmptySet
<1>4. PICK x \in T : TRUE
  BY <1>3
<1>5. IsFiniteSet(Units(f, T \ {x}))
  BY <1>2, <1>4
<1> QED
  BY <1>5, UnitsSplit DEF Counts

-----------------------------------------------------------------------------
(* The fold is that count.                                                 *)

Pick(s) == CHOOSE x \in s : TRUE
Unfolded(f, S, it) == [s \in SUBSET S |-> IF s = {} THEN 0 ELSE f[Pick(s)] + it[s \ {Pick(s)}]]

LEMMA SumUnfolds ==
    ASSUME NEW f, NEW S
    PROVE  SumFunctionOnSet(f, S) = (CHOOSE it : it = Unfolded(f, S, it))[S]
BY Zenon DEF SumFunctionOnSet, FoldFunctionOnSet, MapThenFoldSet, Pick, Unfolded

LEMMA UnfoldedCount ==
    ASSUME NEW f, NEW S, Counts(f, S), NEW s \in SUBSET S
    PROVE  Cardinality(Units(f, s)) =
               IF s = {} THEN 0 ELSE f[Pick(s)] + Cardinality(Units(f, s \ {Pick(s)}))
<1>1. CASE s = {}
  BY <1>1, FS_EmptySet DEF Units
<1>2. CASE s # {}
  <2>1. Pick(s) \in s
    BY <1>2 DEF Pick
  <2>2. Counts(f, s \ {Pick(s)}) /\ f[Pick(s)] \in Nat
    BY <2>1, FS_Subset DEF Counts
  <2>3. IsFiniteSet(Units(f, s \ {Pick(s)}))
    BY <2>2, UnitsFinite
  <2> QED
    BY <1>2, <2>1, <2>2, <2>3, UnitsSplit
<1> QED
  BY <1>1, <1>2

LEMMA SumCounts ==
    ASSUME NEW f, NEW S, Counts(f, S)
    PROVE  SumFunctionOnSet(f, S) = Cardinality(Units(f, S))
<1> DEFINE count == [s \in SUBSET S |-> Cardinality(Units(f, s))]
           it    == CHOOSE g : g = Unfolded(f, S, g)
           Bad   == {s \in SUBSET S : it[s] # count[s]}
<1>1. count = Unfolded(f, S, count)
  BY UnfoldedCount DEF Unfolded
<1>2. it = Unfolded(f, S, it)
  BY <1>1
<1> HIDE DEF it
<1>3. \A s \in SUBSET S : it[s] = IF s = {} THEN 0 ELSE f[Pick(s)] + it[s \ {Pick(s)}]
  BY <1>2 DEF Unfolded
<1>4. Bad = {}
  <2>1. SUFFICES ASSUME Bad # {} PROVE FALSE
    OBVIOUS
  <2>0. IsFiniteSet(S) /\ Bad \in SUBSET SUBSET S
    BY DEF Counts
  <2>2. PICK T \in Bad : \A U \in Bad : U \subseteq T => U = T
    <3> HIDE DEF Bad
    <3> QED
      BY <2>0, <2>1, Smallest
  <2>3. CASE T = {}
    BY <2>2, <2>3, <1>3, UnfoldedCount
  <2>4. CASE T # {}
    <3>1. Pick(T) \in T
      BY <2>4 DEF Pick
    <3>2. T \ {Pick(T)} \in SUBSET S /\ T \ {Pick(T)} \subseteq T /\ T \ {Pick(T)} # T
      BY <3>1
    <3>3. T \ {Pick(T)} \notin Bad
      <4> HIDE DEF Bad
      <4> QED
        BY <2>2, <3>2
    <3>4. it[T \ {Pick(T)}] = count[T \ {Pick(T)}]
      BY <3>2, <3>3
    <3> QED
      BY <2>2, <2>4, <3>4, <1>3, UnfoldedCount
  <2> QED
    BY <2>3, <2>4
<1>5. it[S] = count[S]
  BY <1>4
<1> QED
  BY <1>5, SumUnfolds DEF it

-----------------------------------------------------------------------------
(* What is known of a sum.                                                 *)

LEMMA SumNat ==
    ASSUME NEW f, NEW S, Counts(f, S)
    PROVE  SumFunctionOnSet(f, S) \in Nat
BY SumCounts, UnitsFinite

LEMMA SumOfNone ==
    ASSUME NEW f
    PROVE  SumFunctionOnSet(f, {}) = 0
<1>1. Counts(f, {}) /\ Units(f, {}) = {}
  BY FS_EmptySet DEF Counts, Units
<1> QED
  BY <1>1, SumCounts, FS_EmptySet

LEMMA SumSplit ==
    ASSUME NEW f, NEW S, Counts(f, S), NEW x \in S
    PROVE  SumFunctionOnSet(f, S) = f[x] + SumFunctionOnSet(f, S \ {x})
<1>1. Counts(f, S \ {x}) /\ f[x] \in Nat
  BY FS_Subset DEF Counts
<1>2. IsFiniteSet(Units(f, S \ {x}))
  BY <1>1, UnitsFinite
<1> QED
  BY <1>1, <1>2, SumCounts, UnitsSplit

\* Only the values over the set matter.
LEMMA SumSame ==
    ASSUME NEW f, NEW g, NEW S, Counts(f, S), \A x \in S : f[x] = g[x]
    PROVE  SumFunctionOnSet(f, S) = SumFunctionOnSet(g, S)
<1>1. Counts(g, S) /\ Units(f, S) = Units(g, S)
  BY DEF Counts, Units
<1> QED
  BY <1>1, SumCounts

\* One value changes, and the sum by as much.
LEMMA SumChange ==
    ASSUME NEW f, NEW g, NEW S, Counts(f, S), NEW x \in S, g[x] \in Nat,
           \A y \in S \ {x} : f[y] = g[y]
    PROVE  SumFunctionOnSet(g, S) = SumFunctionOnSet(f, S) - f[x] + g[x]
<1>1. Counts(f, S \ {x}) /\ Counts(g, S \ {x}) /\ Counts(g, S)
  BY FS_Subset DEF Counts
<1>2. SumFunctionOnSet(f, S \ {x}) = SumFunctionOnSet(g, S \ {x})
  BY <1>1, SumSame
<1>3. /\ SumFunctionOnSet(f, S) = f[x] + SumFunctionOnSet(f, S \ {x})
      /\ SumFunctionOnSet(g, S) = g[x] + SumFunctionOnSet(g, S \ {x})
  BY <1>1, SumSplit
<1>4. f[x] \in Nat /\ g[x] \in Nat /\ SumFunctionOnSet(f, S \ {x}) \in Nat
  BY <1>1, SumNat DEF Counts
<1> QED
  BY <1>2, <1>3, <1>4

LEMMA SumOfZeros ==
    ASSUME NEW f, NEW S, IsFiniteSet(S), \A x \in S : f[x] = 0
    PROVE  SumFunctionOnSet(f, S) = 0
<1>1. Counts(f, S) /\ Units(f, S) = {}
  BY DEF Counts, Units
<1> QED
  BY <1>1, SumCounts, FS_EmptySet

LEMMA SumOfPart ==
    ASSUME NEW f, NEW S, Counts(f, S), NEW T \in SUBSET S
    PROVE  Counts(f, T) /\ SumFunctionOnSet(f, T) <= SumFunctionOnSet(f, S)
<1>1. Counts(f, T)
  BY FS_Subset DEF Counts
<1>2. Units(f, T) \in SUBSET Units(f, S)
  BY DEF Units
<1>3. IsFiniteSet(Units(f, S))
  BY UnitsFinite
<1>4. Cardinality(Units(f, T)) <= Cardinality(Units(f, S))
  BY <1>2, <1>3, FS_Subset
<1> QED
  BY <1>1, <1>4, SumCounts

\* The sum of a whole is that of a part and of the rest.
LEMMA SumOfParts ==
    ASSUME NEW f, NEW S, Counts(f, S), NEW T \in SUBSET S
    PROVE  /\ Counts(f, T) /\ Counts(f, S \ T)
           /\ SumFunctionOnSet(f, S) = SumFunctionOnSet(f, T) + SumFunctionOnSet(f, S \ T)
<1>1. Counts(f, T) /\ Counts(f, S \ T)
  BY FS_Subset DEF Counts
<1> DEFINE A == Units(f, T)
           B == Units(f, S \ T)
<1>2. Units(f, S) = A \cup B /\ A \cap B = {}
  BY DEF Units
<1>3. IsFiniteSet(A) /\ IsFiniteSet(B) /\ Cardinality(A) \in Nat /\ Cardinality(B) \in Nat
  BY <1>1, UnitsFinite
<1>4. Cardinality({}) = 0
  BY FS_EmptySet
<1>5. SumFunctionOnSet(f, T) = Cardinality(A) /\ SumFunctionOnSet(f, S \ T) = Cardinality(B)
  BY <1>1, SumCounts
<1>6. SumFunctionOnSet(f, S) = Cardinality(Units(f, S))
  BY SumCounts
<1> HIDE DEF A, B
<1>7. Cardinality(A \cup B) = Cardinality(A) + Cardinality(B) - Cardinality(A \cap B)
  BY <1>3, FS_Union
<1>8. Cardinality(A \cap B) = 0 /\ Cardinality(Units(f, S)) = Cardinality(A \cup B)
  BY <1>2, <1>4, Zenon
<1> QED
  BY <1>1, <1>3, <1>5, <1>6, <1>7, <1>8

\* Sums add up term by term.
LEMMA SumOfSums ==
    ASSUME NEW f, NEW g, NEW h, NEW S, Counts(g, S), Counts(h, S),
           \A x \in S : f[x] = g[x] + h[x]
    PROVE  SumFunctionOnSet(f, S) = SumFunctionOnSet(g, S) + SumFunctionOnSet(h, S)
<1> DEFINE Wrong(T) == SumFunctionOnSet(f, T) # SumFunctionOnSet(g, T) + SumFunctionOnSet(h, T)
           Bad == {T \in SUBSET S : Wrong(T)}
<1>1. SUFFICES ASSUME Bad # {} PROVE FALSE
  OBVIOUS
<1>2. IsFiniteSet(S) /\ Bad \in SUBSET SUBSET S
  BY DEF Counts
<1>3. PICK T \in Bad : \A U \in Bad : U \subseteq T => U = T
  <2> HIDE DEF Bad
  <2> QED
    BY <1>1, <1>2, Smallest
<1>4. Counts(f, S)
  BY DEF Counts
<1>5. T \in SUBSET S /\ Counts(f, T) /\ Counts(g, T) /\ Counts(h, T)
  BY <1>4, FS_Subset DEF Counts
<1>6. T # {}
  <2>1. ~ Wrong({})
    BY SumOfNone
  <2> QED
    BY <1>3, <2>1
<1>7. PICK x \in T : TRUE
  BY <1>6
<1>8. ~ Wrong(T \ {x})
  BY <1>3, <1>5, <1>7
<1>9. /\ SumFunctionOnSet(f, T) = f[x] + SumFunctionOnSet(f, T \ {x})
      /\ SumFunctionOnSet(g, T) = g[x] + SumFunctionOnSet(g, T \ {x})
      /\ SumFunctionOnSet(h, T) = h[x] + SumFunctionOnSet(h, T \ {x})
  BY <1>5, <1>7, SumSplit
<1>10. /\ f[x] = g[x] + h[x] /\ g[x] \in Nat /\ h[x] \in Nat
       /\ SumFunctionOnSet(g, T \ {x}) \in Nat /\ SumFunctionOnSet(h, T \ {x}) \in Nat
  <2>1. T \ {x} \in SUBSET T
    OBVIOUS
  <2> QED
    BY <1>5, <1>7, <2>1, SumOfPart, SumNat DEF Counts
<1>11. Wrong(T)
  BY <1>3
<1> QED
  BY <1>8, <1>9, <1>10, <1>11
=============================================================================
