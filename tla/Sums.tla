-------------------------------- MODULE Sums --------------------------------
(***************************************************************************)
(* What the sums of the models are, for finite index sets of every size:   *)
(* SumFunctionOnSet folds over a set in an order it chooses, so that a sum *)
(* is each summand plus the sum of the rest takes an induction.            *)
(*                                                                         *)
(* The library's induction theorems have a predicate for a parameter; the  *)
(* inductions below are by a smallest set that is a counterexample.        *)
(***************************************************************************)
EXTENDS Functions, FiniteSetTheorems, TLAPS

\* g is the recursive function that the fold of f over S is computed by.
Iterates(g, f, S) ==
    g = [T \in SUBSET S |->
            IF T = {} THEN 0 ELSE LET x == CHOOSE y \in T : TRUE IN f[x] + g[T \ {x}]]

\* Sets of subsets of a finite set have a smallest member.
LEMMA SmallestSubset ==
    ASSUME NEW S, IsFiniteSet(S), NEW C, C \subseteq SUBSET S, C # {}
    PROVE  \E T \in C : \A U \in C : U \subseteq T => U = T
<1>1. IsWellFoundedOn(StrictSubsetOrdering(S), SUBSET S)
    BY FS_StrictSubsetOrderingWellFounded, FS_FiniteSubsetsOfFinite
<1>2. PICK T \in C : \A U \in C : ~ <<U, T>> \in StrictSubsetOrdering(S)
    BY <1>1, WFMin
<1> QED BY <1>2 DEF StrictSubsetOrdering

\* The fold is the value of such a function at the whole set.
LEMMA SumIsIteration ==
    ASSUME NEW f, NEW S
    PROVE  SumFunctionOnSet(f, S) = (CHOOSE g : Iterates(g, f, S))[S]
BY DEF SumFunctionOnSet, FoldFunctionOnSet, MapThenFoldSet, Iterates

\* Two such functions agree where both are defined.
LEMMA OneIteration ==
    ASSUME NEW f, NEW S, IsFiniteSet(S), NEW T \in SUBSET S, NEW g, NEW h,
           Iterates(g, f, S), Iterates(h, f, T)
    PROVE  g[T] = h[T]
<1> DEFINE C == {U \in SUBSET T : g[U] # h[U]}
<1>1. SUFFICES ASSUME C # {} PROVE FALSE
    OBVIOUS
<1>2. IsFiniteSet(T)
    BY FS_Subset
<1>3. PICK U \in C : \A V \in C : V \subseteq U => V = U
    <2>1. C \subseteq SUBSET T
        OBVIOUS
    <2> HIDE DEF C
    <2> QED BY <1>1, <1>2, <2>1, SmallestSubset
<1>4. U # {}
    BY <1>3 DEF Iterates
<1> DEFINE x == CHOOSE y \in U : TRUE
<1>5. x \in U
    BY <1>4
<1>6. g[U \ {x}] = h[U \ {x}]
    BY <1>3, <1>5
<1>7. g[U] = f[x] + g[U \ {x}] /\ h[U] = f[x] + h[U \ {x}]
    BY <1>3, <1>4 DEF Iterates
<1> QED BY <1>3, <1>6, <1>7

\* There is such a function over every finite set.
LEMMA SomeIteration ==
    ASSUME NEW f, NEW S, IsFiniteSet(S)
    PROVE  \E g : Iterates(g, f, S)
<1> DEFINE C == {T \in SUBSET S : ~ \E g : Iterates(g, f, T)}
<1>1. SUFFICES ASSUME C # {} PROVE FALSE
    OBVIOUS
<1>2. PICK T \in C : \A U \in C : U \subseteq T => U = T
    <2>1. C \subseteq SUBSET S
        OBVIOUS
    <2> HIDE DEF C
    <2> QED BY <1>1, <2>1, SmallestSubset
<1> DEFINE G == [U \in SUBSET T |-> CHOOSE g : Iterates(g, f, U)]
           h == [U \in SUBSET T |->
                    IF U = {} THEN 0
                    ELSE LET x == CHOOSE y \in U : TRUE
                         IN  f[x] + G[U \ {x}][U \ {x}]]
<1>3. ASSUME NEW U \in SUBSET T, U # T
      PROVE  Iterates(G[U], f, U)
    <2>1. \E g : Iterates(g, f, U)
        BY <1>2, <1>3
    <2> QED BY <2>1
<1>4. ASSUME NEW U \in SUBSET T, U # T
      PROVE  h[U] = G[U][U]
    <2>1. CASE U = {}
        <3>1. Iterates(G[U], f, U)
            BY <1>3, <1>4
        <3>2. h[U] = 0
            BY <2>1
        <3> HIDE DEF G, h
        <3> QED BY <2>1, <3>1, <3>2 DEF Iterates
    <2>2. CASE U # {}
        <3> DEFINE x == CHOOSE y \in U : TRUE
        <3>1. x \in U /\ IsFiniteSet(U)
            BY <2>2, FS_Subset
        <3>2. G[U][U] = f[x] + G[U][U \ {x}]
            <4> HIDE DEF G
            <4> QED BY <1>3, <1>4, <2>2 DEF Iterates
        <3>3. Iterates(G[U \ {x}], f, U \ {x})
            BY <1>3, <3>1
        <3>4. G[U][U \ {x}] = G[U \ {x}][U \ {x}]
            <4>1. Iterates(G[U], f, U)
                BY <1>3, <1>4
            <4> HIDE DEF G
            <4> QED BY <3>1, <3>3, <4>1, OneIteration
        <3> QED BY <2>2, <3>2, <3>4
    <2> QED BY <2>1, <2>2
<1>5. Iterates(h, f, T)
    <2>1. ASSUME NEW U \in SUBSET T, U # {}
          PROVE  LET x == CHOOSE y \in U : TRUE
                 IN  G[U \ {x}][U \ {x}] = h[U \ {x}]
        BY <1>4, <2>1
    <2>2. ASSUME NEW U \in SUBSET T
          PROVE  h[U] = IF U = {} THEN 0
                        ELSE LET x == CHOOSE y \in U : TRUE IN f[x] + h[U \ {x}]
        <3> HIDE DEF G
        <3>1. h[U] = IF U = {} THEN 0
                     ELSE LET x == CHOOSE y \in U : TRUE
                          IN  f[x] + G[U \ {x}][U \ {x}]
            OBVIOUS
        <3> HIDE DEF h
        <3>2. CASE U = {}
            BY <3>1, <3>2
        <3>3. CASE U # {}
            BY <2>1, <3>1, <3>3
        <3> QED BY <3>2, <3>3
    <2>3. h = [U \in SUBSET T |-> h[U]]
        OBVIOUS
    <2> HIDE DEF h
    <2> QED BY <2>2, <2>3 DEF Iterates
<1> QED BY <1>2, <1>5
-----------------------------------------------------------------------------
\* What the fold over S gives on every part of S.
LEMMA SumsIterate ==
    ASSUME NEW f, NEW S, IsFiniteSet(S)
    PROVE  \E g : /\ Iterates(g, f, S)
                  /\ \A T \in SUBSET S : g[T] = SumFunctionOnSet(f, T)
<1> DEFINE it(T) == CHOOSE g : Iterates(g, f, T)
<1>1. Iterates(it(S), f, S)
    BY SomeIteration
<1>2. ASSUME NEW T \in SUBSET S
      PROVE  it(S)[T] = SumFunctionOnSet(f, T)
    <2>1. SumFunctionOnSet(f, T) = it(T)[T]
        BY SumIsIteration
    <2>2. IsFiniteSet(T)
        BY FS_Subset
    <2>3. Iterates(it(T), f, T)
        BY <2>2, SomeIteration
    <2> HIDE DEF it
    <2> QED BY <1>1, <2>1, <2>3, OneIteration
<1> QED BY <1>1, <1>2

\* The sum of nothing.
LEMMA SumEmpty == ASSUME NEW f PROVE SumFunctionOnSet(f, {}) = 0
<1>1. PICK g : Iterates(g, f, {}) /\ \A T \in SUBSET {} : g[T] = SumFunctionOnSet(f, T)
    BY SumsIterate, FS_EmptySet
<1> QED BY <1>1 DEF Iterates

\* A sum is the element that the fold takes first and the sum of the rest.
LEMMA SumFirst ==
    ASSUME NEW f, NEW S, IsFiniteSet(S), S # {}
    PROVE  \E x \in S : SumFunctionOnSet(f, S) = f[x] + SumFunctionOnSet(f, S \ {x})
<1>1. PICK g : Iterates(g, f, S) /\ \A T \in SUBSET S : g[T] = SumFunctionOnSet(f, T)
    BY SumsIterate
<1> DEFINE x == CHOOSE y \in S : TRUE
<1>2. x \in S
    OBVIOUS
<1>3. g[S] = f[x] + g[S \ {x}]
    BY <1>1 DEF Iterates
<1> QED BY <1>1, <1>2, <1>3

\* The sum of integers is an integer.
LEMMA SumInt ==
    ASSUME NEW f, NEW S, IsFiniteSet(S), \A x \in S : f[x] \in Int
    PROVE  SumFunctionOnSet(f, S) \in Int
<1> DEFINE C == {T \in SUBSET S : SumFunctionOnSet(f, T) \notin Int}
<1>1. SUFFICES ASSUME C # {} PROVE FALSE
    OBVIOUS
<1>2. PICK T \in C : \A U \in C : U \subseteq T => U = T
    <2>1. C \subseteq SUBSET S
        OBVIOUS
    <2> HIDE DEF C
    <2> QED BY <1>1, <2>1, SmallestSubset
<1>3. T # {}
    BY <1>2, SumEmpty
<1>4. PICK x \in T : SumFunctionOnSet(f, T) = f[x] + SumFunctionOnSet(f, T \ {x})
    BY <1>2, <1>3, FS_Subset, SumFirst
<1>5. SumFunctionOnSet(f, T \ {x}) \in Int
    BY <1>2
<1> QED BY <1>2, <1>4, <1>5

\* A sum is any of its summands and the sum of the others.
LEMMA SumRemove ==
    ASSUME NEW f, NEW S, IsFiniteSet(S), \A x \in S : f[x] \in Int, NEW z \in S
    PROVE  SumFunctionOnSet(f, S) = f[z] + SumFunctionOnSet(f, S \ {z})
<1> DEFINE Splits(T) ==
        \A y \in T : SumFunctionOnSet(f, T) = f[y] + SumFunctionOnSet(f, T \ {y})
           C == {T \in SUBSET S : ~Splits(T)}
<1>1. SUFFICES ASSUME C # {} PROVE FALSE
    OBVIOUS
<1>2. PICK T \in C : \A U \in C : U \subseteq T => U = T
    <2>1. C \subseteq SUBSET S
        OBVIOUS
    <2> HIDE DEF C
    <2> QED BY <1>1, <2>1, SmallestSubset
<1>3. PICK y \in T : SumFunctionOnSet(f, T) # f[y] + SumFunctionOnSet(f, T \ {y})
    BY <1>2
<1>4. PICK x \in T : SumFunctionOnSet(f, T) = f[x] + SumFunctionOnSet(f, T \ {x})
    BY <1>2, FS_Subset, SumFirst
<1>5. x # y
    BY <1>3, <1>4
<1>6. Splits(T \ {x}) /\ Splits(T \ {y})
    BY <1>2
<1> DEFINE rest == SumFunctionOnSet(f, (T \ {x}) \ {y})
<1>7. SumFunctionOnSet(f, T \ {x}) = f[y] + rest
    BY <1>5, <1>6
<1>8. SumFunctionOnSet(f, T \ {y}) = f[x] + rest
    <2>1. (T \ {x}) \ {y} = (T \ {y}) \ {x}
        OBVIOUS
    <2> QED BY <1>5, <1>6, <2>1
<1>9. rest \in Int /\ f[x] \in Int /\ f[y] \in Int
    BY <1>2, FS_Subset, SumInt
<1> HIDE DEF rest
<1> QED BY <1>3, <1>4, <1>7, <1>8, <1>9

\* Functions that agree on a set have the same sum over it.
LEMMA SumSame ==
    ASSUME NEW f, NEW g, NEW S, IsFiniteSet(S), \A x \in S : f[x] = g[x]
    PROVE  SumFunctionOnSet(f, S) = SumFunctionOnSet(g, S)
<1> DEFINE C == {T \in SUBSET S : SumFunctionOnSet(f, T) # SumFunctionOnSet(g, T)}
<1>1. SUFFICES ASSUME C # {} PROVE FALSE
    OBVIOUS
<1>2. PICK T \in C : \A U \in C : U \subseteq T => U = T
    <2>1. C \subseteq SUBSET S
        OBVIOUS
    <2> HIDE DEF C
    <2> QED BY <1>1, <2>1, SmallestSubset
<1>3. IsFiniteSet(T) /\ T # {}
    BY <1>2, FS_Subset, SumEmpty
<1>4. PICK h : Iterates(h, f, T) /\ \A U \in SUBSET T : h[U] = SumFunctionOnSet(f, U)
    BY <1>3, SumsIterate
<1>5. PICK k : Iterates(k, g, T) /\ \A U \in SUBSET T : k[U] = SumFunctionOnSet(g, U)
    BY <1>3, SumsIterate
<1> DEFINE x == CHOOSE y \in T : TRUE
<1>6. x \in T
    BY <1>3
<1>7. SumFunctionOnSet(f, T \ {x}) = SumFunctionOnSet(g, T \ {x})
    BY <1>2, <1>6
<1>8. h[T] = f[x] + h[T \ {x}] /\ k[T] = g[x] + k[T \ {x}]
    BY <1>3, <1>4, <1>5 DEF Iterates
<1>9. f[x] = g[x]
    BY <1>2, <1>6
<1> QED BY <1>2, <1>4, <1>5, <1>7, <1>8, <1>9

\* A sum of which one summand changes moves by as much.
LEMMA SumMoves ==
    ASSUME NEW f, NEW g, NEW S, IsFiniteSet(S), NEW z \in S,
           \A x \in S : f[x] \in Int /\ g[x] \in Int,
           \A x \in S \ {z} : f[x] = g[x]
    PROVE  SumFunctionOnSet(g, S) = SumFunctionOnSet(f, S) + g[z] - f[z]
<1>1. IsFiniteSet(S \ {z})
    BY FS_Subset
<1>2. SumFunctionOnSet(f, S \ {z}) = SumFunctionOnSet(g, S \ {z})
    BY <1>1, SumSame
<1>3. SumFunctionOnSet(f, S \ {z}) \in Int
    BY <1>1, SumInt
<1>4. /\ SumFunctionOnSet(f, S) = f[z] + SumFunctionOnSet(f, S \ {z})
      /\ SumFunctionOnSet(g, S) = g[z] + SumFunctionOnSet(g, S \ {z})
    BY SumRemove
<1> QED BY <1>2, <1>3, <1>4

\* A sum of nothing but zeros.
LEMMA SumZero ==
    ASSUME NEW f, NEW S, IsFiniteSet(S), \A x \in S : f[x] = 0
    PROVE  SumFunctionOnSet(f, S) = 0
<1> DEFINE C == {T \in SUBSET S : SumFunctionOnSet(f, T) # 0}
<1>1. SUFFICES ASSUME C # {} PROVE FALSE
    OBVIOUS
<1>2. PICK T \in C : \A U \in C : U \subseteq T => U = T
    <2>1. C \subseteq SUBSET S
        OBVIOUS
    <2> HIDE DEF C
    <2> QED BY <1>1, <2>1, SmallestSubset
<1>3. IsFiniteSet(T) /\ T # {}
    BY <1>2, FS_Subset, SumEmpty
<1>4. PICK x \in T : SumFunctionOnSet(f, T) = f[x] + SumFunctionOnSet(f, T \ {x})
    BY <1>3, SumFirst
<1>5. SumFunctionOnSet(f, T \ {x}) = 0
    BY <1>2
<1> QED BY <1>2, <1>4, <1>5

\* The sum over one element is its summand.
LEMMA SumOne ==
    ASSUME NEW f, NEW z, f[z] \in Int
    PROVE  SumFunctionOnSet(f, {z}) = f[z]
<1>1. IsFiniteSet({z}) /\ {z} \ {z} = {}
    BY FS_Singleton
<1>2. SumFunctionOnSet(f, {z}) = f[z] + SumFunctionOnSet(f, {z} \ {z})
    BY <1>1, SumRemove
<1> QED BY <1>1, <1>2, SumEmpty

\* An element of summand zero may join or leave the set.
LEMMA SumIgnores ==
    ASSUME NEW f, NEW S, NEW T, IsFiniteSet(S), IsFiniteSet(T), NEW z,
           S \ {z} = T \ {z}, f[z] = 0, \A x \in S \cup T : f[x] \in Int
    PROVE  SumFunctionOnSet(f, S) = SumFunctionOnSet(f, T)
<1>1. ASSUME NEW U, IsFiniteSet(U), \A x \in U : f[x] \in Int
      PROVE  SumFunctionOnSet(f, U) = SumFunctionOnSet(f, U \ {z})
    <2>1. CASE z \in U
        <3>1. SumFunctionOnSet(f, U) = f[z] + SumFunctionOnSet(f, U \ {z})
            BY <1>1, <2>1, SumRemove
        <3>2. IsFiniteSet(U \ {z})
            BY <1>1, FS_Subset
        <3>3. SumFunctionOnSet(f, U \ {z}) \in Int
            BY <1>1, <3>2, SumInt
        <3> QED BY <3>1, <3>3
    <2>2. CASE z \notin U
        <3>1. U \ {z} = U
            BY <2>2
        <3> QED BY <3>1
    <2> QED BY <2>1, <2>2
<1> QED BY <1>1

\* Summands of size m at most add up to m for each of them at most.
LEMMA SumWithin ==
    ASSUME NEW f, NEW S, IsFiniteSet(S), NEW m \in Nat,
           \A x \in S : f[x] \in Int /\ f[x] <= m /\ -m <= f[x]
    PROVE  /\ SumFunctionOnSet(f, S) <= m * Cardinality(S)
           /\ -(m * Cardinality(S)) <= SumFunctionOnSet(f, S)
<1> DEFINE Within(T) == /\ SumFunctionOnSet(f, T) <= m * Cardinality(T)
                        /\ -(m * Cardinality(T)) <= SumFunctionOnSet(f, T)
           C == {T \in SUBSET S : ~Within(T)}
<1>1. SUFFICES ASSUME C # {} PROVE FALSE
    OBVIOUS
<1>2. PICK T \in C : \A U \in C : U \subseteq T => U = T
    <2>1. C \subseteq SUBSET S
        OBVIOUS
    <2> HIDE DEF C
    <2> QED BY <1>1, <2>1, SmallestSubset
<1>3. T \subseteq S /\ ~Within(T) /\ IsFiniteSet(T)
    BY <1>2, FS_Subset
<1>4. T # {}
    <2>1. Within({})
        BY SumEmpty, FS_EmptySet
    <2> QED BY <1>3, <2>1
<1>5. PICK x \in T : SumFunctionOnSet(f, T) = f[x] + SumFunctionOnSet(f, T \ {x})
    BY <1>3, <1>4, SumFirst
<1>6. Within(T \ {x})
    BY <1>2, <1>3
<1>7. /\ IsFiniteSet(T \ {x}) /\ Cardinality(T \ {x}) \in Nat
      /\ Cardinality(T) = Cardinality(T \ {x}) + 1
    <2>1. IsFiniteSet(T \ {x}) /\ Cardinality(T \ {x}) = Cardinality(T) - 1
        BY <1>3, FS_RemoveElement
    <2>2. Cardinality(T) \in Nat /\ Cardinality(T \ {x}) \in Nat
        BY <1>3, <2>1, FS_CardinalityType
    <2> QED BY <2>1, <2>2
<1>8. SumFunctionOnSet(f, T \ {x}) \in Int
    BY <1>3, <1>7, SumInt
<1> DEFINE k == Cardinality(T \ {x})
           rest == SumFunctionOnSet(f, T \ {x})
<1>9. m * Cardinality(T) = m * k + m /\ m * k \in Nat
    <2> HIDE DEF k
    <2> QED BY <1>7 DEF k
<1>10. f[x] \in Int /\ f[x] <= m /\ -m <= f[x]
    BY <1>3
<1>11. /\ SumFunctionOnSet(f, T) = f[x] + rest /\ rest \in Int
       /\ rest <= m * k /\ -(m * k) <= rest
    BY <1>5, <1>6, <1>8
<1> HIDE DEF rest, k, Within
<1> QED BY <1>3, <1>9, <1>10, <1>11 DEF Within
=============================================================================
