----------------------------- MODULE SumTheorems -----------------------------
(***************************************************************************)
(* Facts about the sums SumFunctionOnSet(f, S) of Functions that the proofs*)
(* of the components cite.  A fold is a recursive function that CHOOSE     *)
(* picks; that it exists, and everything else here that needs induction, is*)
(* shown with a smallest counterexample: the strict subset ordering of a   *)
(* finite set is well founded.                                             *)
(***************************************************************************)
EXTENDS Integers, FiniteSetTheorems, WellFoundedInduction, Functions, TLAPS

\* A nonempty set of naturals has a least element.
LEMMA LeastNat ==
  ASSUME NEW N \in SUBSET Nat, N # {}
  PROVE  \E n \in N : \A m \in N : n <= m
<1> DEFINE R == {ss \in Nat \X Nat : ss[1] < ss[2]}
<1>1. IsWellFoundedOn(R, Nat)
  BY NatLessThanWellFounded DEF OpToRel
<1>2. ASSUME NEW x \in Nat, NEW y \in Nat, y < x PROVE <<y, x>> \in R
  BY <1>2
<1> HIDE DEF R
<1>3. PICK n \in N : \A m \in N : ~ (<<m, n>> \in R)
  BY <1>1, WFMin
<1>4. ASSUME NEW m \in N PROVE n <= m
  <2>1. ~(<<m, n>> \in R) /\ m \in Nat /\ n \in Nat
    BY <1>3
  <2>2. ~(m < n)
    BY <2>1, <1>2
  <2> QED
    BY <2>1, <2>2
<1> QED
  BY <1>4

\* Among some subsets of a finite set there is one that contains no other.
LEMMA LeastSubset ==
  ASSUME NEW S, IsFiniteSet(S), NEW F \in SUBSET SUBSET S, F # {}
  PROVE  \E T \in F : \A U \in SUBSET T : U \in F => U = T
<1> DEFINE N == {Cardinality(T) : T \in F}
<1>1. \A T \in F : IsFiniteSet(T) /\ Cardinality(T) \in Nat
  BY FS_Subset, FS_CardinalityType
<1>2. PICK n \in N : \A m \in N : n <= m
  <2>1. N \in SUBSET Nat /\ N # {}
    BY <1>1
  <2> HIDE DEF N
  <2> QED
    BY <2>1, LeastNat
<1>3. PICK T \in F : n = Cardinality(T)
  OBVIOUS
<1>4. ASSUME NEW U \in SUBSET T, U \in F PROVE U = T
  <2>1. Cardinality(U) <= Cardinality(T) /\ (Cardinality(T) = Cardinality(U) => T = U)
    BY <1>1, FS_Subset
  <2>2. Cardinality(T) <= Cardinality(U)
    BY <1>2, <1>3, <1>4
  <2> QED
    BY <2>1, <2>2, <1>1, <1>4
<1> QED
  BY <1>4

-----------------------------------------------------------------------------
\* g is the fold of f over the subsets of S.
Folded(f, S, g) ==
  g = [s \in SUBSET S |->
         IF s = {} THEN 0
         ELSE LET x == CHOOSE x \in s : TRUE IN f[x] + g[s \ {x}]]

First(S) == CHOOSE x \in S : TRUE

\* What Folded says of one subset.
LEMMA FoldedAt ==
  ASSUME NEW f, NEW S, NEW g, Folded(f, S, g), NEW T \in SUBSET S
  PROVE  g[T] = IF T = {} THEN 0 ELSE f[First(T)] + g[T \ {First(T)}]
BY DEF Folded, First

\* A nonempty set contains its first element.
LEMMA FirstIn == ASSUME NEW S, S # {} PROVE First(S) \in S
BY DEF First

\* Two folds of a function agree where both are defined.
LEMMA FoldedAgree ==
  ASSUME NEW f, NEW S, NEW T \in SUBSET S, IsFiniteSet(T),
         NEW g, Folded(f, S, g), NEW h, Folded(f, T, h)
  PROVE  \A U \in SUBSET T : g[U] = h[U]
<1> DEFINE F == {U \in SUBSET T : g[U] # h[U]}
<1> SUFFICES ASSUME F # {} PROVE FALSE
  OBVIOUS
<1>1. F \in SUBSET SUBSET T
  OBVIOUS
<1>2. PICK U \in F : \A V \in SUBSET U : V \in F => V = U
  <2> HIDE DEF F
  <2> QED
    BY <1>1, LeastSubset
<1>3. U \in SUBSET S /\ U \in SUBSET T
  OBVIOUS
<1>4. CASE U = {}
  BY <1>3, <1>4, FoldedAt
<1>5. CASE U # {}
  <2>1. First(U) \in U
    BY <1>5, FirstIn
  <2>2. g[U \ {First(U)}] = h[U \ {First(U)}]
    BY <2>1, <1>2, <1>3
  <2>3. /\ g[U] = f[First(U)] + g[U \ {First(U)}]
        /\ h[U] = f[First(U)] + h[U \ {First(U)}]
    <3> HIDE DEF F
    <3>1. g[U] = f[First(U)] + g[U \ {First(U)}]
      BY <1>3, <1>5, FoldedAt
    <3>2. h[U] = f[First(U)] + h[U \ {First(U)}]
      BY <1>3, <1>5, FoldedAt
    <3> QED
      BY <3>1, <3>2
  <2> QED
    BY <2>2, <2>3
<1> QED
  BY <1>4, <1>5

\* Every function has a fold over a finite set.
LEMMA FoldExists ==
  ASSUME NEW f, NEW S, IsFiniteSet(S)
  PROVE  \E g : Folded(f, S, g)
<1> DEFINE F == {T \in SUBSET S : ~ \E g : Folded(f, T, g)}
<1> SUFFICES ASSUME F # {} PROVE FALSE
  OBVIOUS
<1>1. F \in SUBSET SUBSET S
  OBVIOUS
<1>2. PICK T \in F : \A U \in SUBSET T : U \in F => U = T
  <2> HIDE DEF F
  <2> QED
    BY <1>1, LeastSubset
<1> DEFINE Fold(U) == CHOOSE h : Folded(f, U, h)
           Val(U) == Fold(U)[U]
           g == [s \in SUBSET T |->
                   IF s = {} THEN 0 ELSE f[First(s)] + Val(s \ {First(s)})]
<1>3. ASSUME NEW U \in SUBSET T, U # T PROVE Folded(f, U, Fold(U)) /\ IsFiniteSet(U)
  BY <1>2, <1>3, FS_Subset
<1>4. ASSUME NEW U \in SUBSET T, U # T PROVE g[U] = Val(U)
  <2>1. Folded(f, U, Fold(U))
    BY <1>3, <1>4
  <2>2. CASE U = {}
    BY <2>1, <2>2, FoldedAt
  <2>3. CASE U # {}
    <3>1. First(U) \in U
      BY <2>3, FirstIn
    <3> DEFINE V == U \ {First(U)}
    <3>2. V \in SUBSET U /\ V \in SUBSET T /\ V # T
      BY <3>1
    <3>3. Folded(f, V, Fold(V)) /\ IsFiniteSet(V)
      BY <1>3, <3>2
    <3>4. Val(U) = f[First(U)] + Fold(U)[V]
      BY <2>1, <2>3, FoldedAt
    <3>5. Fold(U)[V] = Fold(V)[V]
      <4> HIDE DEF Fold, V, g
      <4> QED
        BY <2>1, <3>2, <3>3, FoldedAgree
    <3>6. g[U] = f[First(U)] + Val(V)
      BY <2>3
    <3> QED
      BY <3>4, <3>5, <3>6
  <2> QED
    BY <2>2, <2>3
<1>5. ASSUME NEW s \in SUBSET T, s # {}
      PROVE  g[s] = f[First(s)] + g[s \ {First(s)}]
  <2>1. s \ {First(s)} \in SUBSET T /\ s \ {First(s)} # T
    BY <1>5, FirstIn
  <2>2. g[s \ {First(s)}] = Val(s \ {First(s)})
    <3> HIDE DEF Val, g
    <3> QED
      BY <2>1, <1>4
  <2> QED
    BY <2>2, <1>5
<1>6. g = [s \in SUBSET T |-> IF s = {} THEN 0 ELSE f[First(s)] + g[s \ {First(s)}]]
  <2> DEFINE k == [s \in SUBSET T |-> IF s = {} THEN 0 ELSE f[First(s)] + g[s \ {First(s)}]]
  <2>1. ASSUME NEW s \in SUBSET T PROVE g[s] = k[s]
    <3>1. CASE s = {}
      BY <3>1
    <3>2. CASE s # {}
      <4>1. k[s] = f[First(s)] + g[s \ {First(s)}]
        <5> HIDE DEF g
        <5> QED BY <3>2
      <4> HIDE DEF g, k
      <4> QED
        BY <3>2, <4>1, <1>5
    <3> QED
      BY <3>1, <3>2
  <2> QED
    BY <2>1
<1>7. Folded(f, T, g)
  <2> HIDE DEF g
  <2> QED
    BY <1>6 DEF Folded, First
<1> QED
  BY <1>7, <1>2

-----------------------------------------------------------------------------
\* A sum is its fold's last value.
LEMMA SumIsFold ==
  ASSUME NEW f, NEW S, IsFiniteSet(S)
  PROVE  \E g : Folded(f, S, g) /\ SumFunctionOnSet(f, S) = g[S]
<1> DEFINE g == CHOOSE g : Folded(f, S, g)
<1>1. SumFunctionOnSet(f, S) = g[S]
  BY DEF SumFunctionOnSet, FoldFunctionOnSet, MapThenFoldSet, Folded
<1>2. Folded(f, S, g)
  BY FoldExists
<1> QED
  BY <1>1, <1>2

\* The sum over no index.
LEMMA SumEmpty == ASSUME NEW f PROVE SumFunctionOnSet(f, {}) = 0
BY SumIsFold, FS_EmptySet, FoldedAt

\* A sum takes its first index off.
LEMMA SumFirst ==
  ASSUME NEW f, NEW S, IsFiniteSet(S), S # {}
  PROVE  SumFunctionOnSet(f, S) = f[First(S)] + SumFunctionOnSet(f, S \ {First(S)})
<1> DEFINE V == S \ {First(S)}
<1>1. V \in SUBSET S /\ IsFiniteSet(V)
  BY FS_Subset
<1>2. PICK g : Folded(f, S, g) /\ SumFunctionOnSet(f, S) = g[S]
  BY SumIsFold
<1>3. PICK h : Folded(f, V, h) /\ SumFunctionOnSet(f, V) = h[V]
  BY <1>1, SumIsFold
<1>4. g[V] = h[V]
  <2> HIDE DEF V
  <2> QED
    BY <1>1, <1>2, <1>3, FoldedAgree
<1>5. g[S] = f[First(S)] + g[V]
  BY <1>2, FoldedAt
<1> QED
  BY <1>2, <1>3, <1>4, <1>5

\* Two functions that agree on the indices have the same sum.
LEMMA SumSame ==
  ASSUME NEW f, NEW g, NEW S, IsFiniteSet(S), \A x \in S : f[x] = g[x]
  PROVE  SumFunctionOnSet(f, S) = SumFunctionOnSet(g, S)
<1> DEFINE F == {T \in SUBSET S : SumFunctionOnSet(f, T) # SumFunctionOnSet(g, T)}
<1> SUFFICES ASSUME F # {} PROVE FALSE
  OBVIOUS
<1>1. F \in SUBSET SUBSET S
  OBVIOUS
<1>2. PICK T \in F : \A U \in SUBSET T : U \in F => U = T
  <2> HIDE DEF F
  <2> QED
    BY <1>1, LeastSubset
<1>3. T # {}
  BY SumEmpty
<1>4. First(T) \in T /\ First(T) \in S /\ IsFiniteSet(T)
  BY <1>3, FirstIn, FS_Subset
<1>5. SumFunctionOnSet(f, T \ {First(T)}) = SumFunctionOnSet(g, T \ {First(T)})
  BY <1>2, <1>4
<1>6. SumFunctionOnSet(f, T) = SumFunctionOnSet(g, T)
  BY <1>3, <1>4, <1>5, SumFirst
<1> QED
  BY <1>2, <1>6

\* A sum of integers is an integer.
LEMMA SumInt ==
  ASSUME NEW f, NEW S, IsFiniteSet(S), \A x \in S : f[x] \in Int
  PROVE  SumFunctionOnSet(f, S) \in Int
<1> DEFINE F == {T \in SUBSET S : SumFunctionOnSet(f, T) \notin Int}
<1> SUFFICES ASSUME F # {} PROVE FALSE
  OBVIOUS
<1>1. F \in SUBSET SUBSET S
  OBVIOUS
<1>2. PICK T \in F : \A U \in SUBSET T : U \in F => U = T
  <2> HIDE DEF F
  <2> QED
    BY <1>1, LeastSubset
<1>3. T # {}
  BY SumEmpty
<1>4. First(T) \in T /\ First(T) \in S /\ IsFiniteSet(T)
  BY <1>3, FirstIn, FS_Subset
<1>5. SumFunctionOnSet(f, T \ {First(T)}) \in Int
  BY <1>2, <1>4
<1>6. SumFunctionOnSet(f, T) \in Int
  BY <1>3, <1>4, <1>5, SumFirst
<1> QED
  BY <1>2, <1>6

\* A sum takes any of its indices off.
LEMMA SumRemove ==
  ASSUME NEW f, NEW S, IsFiniteSet(S), \A y \in S : f[y] \in Int, NEW x \in S
  PROVE  SumFunctionOnSet(f, S) = f[x] + SumFunctionOnSet(f, S \ {x})
<1> DEFINE Good(T) == \A y \in T : SumFunctionOnSet(f, T) = f[y] + SumFunctionOnSet(f, T \ {y})
           F == {T \in SUBSET S : ~Good(T)}
<1> SUFFICES ASSUME F # {} PROVE FALSE
  OBVIOUS
<1>1. F \in SUBSET SUBSET S
  OBVIOUS
<1>2. PICK T \in F : \A U \in SUBSET T : U \in F => U = T
  <2> HIDE DEF F
  <2> QED
    BY <1>1, LeastSubset
<1>3. PICK y \in T : SumFunctionOnSet(f, T) # f[y] + SumFunctionOnSet(f, T \ {y})
  OBVIOUS
<1> DEFINE a == First(T)
<1>4. a \in T /\ T \in SUBSET S /\ IsFiniteSet(T)
  BY FirstIn, FS_Subset
<1>5. SumFunctionOnSet(f, T) = f[a] + SumFunctionOnSet(f, T \ {a})
  BY <1>3, <1>4, SumFirst
<1>6. y # a
  BY <1>3, <1>5
<1>7. Good(T \ {a}) /\ Good(T \ {y})
  BY <1>2, <1>4
<1>8. /\ SumFunctionOnSet(f, T \ {a}) = f[y] + SumFunctionOnSet(f, (T \ {a}) \ {y})
      /\ SumFunctionOnSet(f, T \ {y}) = f[a] + SumFunctionOnSet(f, (T \ {y}) \ {a})
  BY <1>4, <1>6, <1>7
<1>9. (T \ {a}) \ {y} = (T \ {y}) \ {a}
  OBVIOUS
<1>10. SumFunctionOnSet(f, (T \ {y}) \ {a}) \in Int /\ f[a] \in Int /\ f[y] \in Int
  BY <1>4, SumInt, FS_Subset
<1> HIDE DEF a, Good, F
<1>11. \A z \in Int : f[a] + (f[y] + z) = f[y] + (f[a] + z)
  BY <1>10
<1>12. SumFunctionOnSet(f, T) = f[y] + SumFunctionOnSet(f, T \ {y})
  BY <1>5, <1>8, <1>9, <1>10, <1>11
<1> QED
  BY <1>3, <1>12

\* One more index.
LEMMA SumAdd ==
  ASSUME NEW f, NEW S, IsFiniteSet(S), NEW x, x \notin S,
         \A y \in S \cup {x} : f[y] \in Int
  PROVE  SumFunctionOnSet(f, S \cup {x}) = f[x] + SumFunctionOnSet(f, S)
<1>1. IsFiniteSet(S \cup {x})
  BY FS_AddElement
<1>2. (S \cup {x}) \ {x} = S
  OBVIOUS
<1> QED
  BY <1>1, <1>2, SumRemove

\* A function that differs at one index changes the sum by that difference.
LEMMA SumUpdate ==
  ASSUME NEW f, NEW g, NEW S, IsFiniteSet(S), NEW x \in S,
         \A y \in S : f[y] \in Int /\ g[y] \in Int,
         \A y \in S \ {x} : g[y] = f[y]
  PROVE  SumFunctionOnSet(g, S) = SumFunctionOnSet(f, S) - f[x] + g[x]
<1>1. IsFiniteSet(S \ {x})
  BY FS_Subset
<1>2. SumFunctionOnSet(g, S \ {x}) = SumFunctionOnSet(f, S \ {x})
  BY <1>1, SumSame
<1>3. SumFunctionOnSet(f, S \ {x}) \in Int
  BY <1>1, SumInt
<1>4. /\ SumFunctionOnSet(f, S) = f[x] + SumFunctionOnSet(f, S \ {x})
      /\ SumFunctionOnSet(g, S) = g[x] + SumFunctionOnSet(g, S \ {x})
  BY SumRemove
<1> QED
  BY <1>2, <1>3, <1>4

\* Smaller terms have a smaller sum.
LEMMA SumBelow ==
  ASSUME NEW f, NEW g, NEW S, IsFiniteSet(S),
         \A x \in S : f[x] \in Int /\ g[x] \in Int /\ f[x] <= g[x]
  PROVE  SumFunctionOnSet(f, S) <= SumFunctionOnSet(g, S)
<1> DEFINE F == {T \in SUBSET S : ~(SumFunctionOnSet(f, T) <= SumFunctionOnSet(g, T))}
<1> SUFFICES ASSUME F # {} PROVE FALSE
  OBVIOUS
<1>1. F \in SUBSET SUBSET S
  OBVIOUS
<1>2. PICK T \in F : \A U \in SUBSET T : U \in F => U = T
  <2> HIDE DEF F
  <2> QED
    BY <1>1, LeastSubset
<1>3. T # {}
  BY SumEmpty
<1> DEFINE a == First(T)
           V == T \ {First(T)}
<1>4. a \in T /\ a \in S /\ IsFiniteSet(T) /\ V \in SUBSET T /\ V \in SUBSET S /\ V # T
  BY <1>3, FirstIn, FS_Subset
<1>5. SumFunctionOnSet(f, V) <= SumFunctionOnSet(g, V)
  BY <1>2, <1>4
<1>6. /\ SumFunctionOnSet(f, T) = f[a] + SumFunctionOnSet(f, V)
      /\ SumFunctionOnSet(g, T) = g[a] + SumFunctionOnSet(g, V)
  BY <1>3, <1>4, SumFirst
<1>7. SumFunctionOnSet(f, V) \in Int /\ SumFunctionOnSet(g, V) \in Int
  BY <1>4, SumInt, FS_Subset
<1> HIDE DEF a, V, F
<1>8. SumFunctionOnSet(f, T) <= SumFunctionOnSet(g, T)
  BY <1>4, <1>5, <1>6, <1>7
<1> QED
  BY <1>2, <1>8 DEF F

\* A sum of zeros.
LEMMA SumZero ==
  ASSUME NEW f, NEW S, IsFiniteSet(S), \A x \in S : f[x] = 0
  PROVE  SumFunctionOnSet(f, S) = 0
<1> DEFINE F == {T \in SUBSET S : SumFunctionOnSet(f, T) # 0}
<1> SUFFICES ASSUME F # {} PROVE FALSE
  OBVIOUS
<1>1. F \in SUBSET SUBSET S
  OBVIOUS
<1>2. PICK T \in F : \A U \in SUBSET T : U \in F => U = T
  <2> HIDE DEF F
  <2> QED
    BY <1>1, LeastSubset
<1>3. T # {}
  BY SumEmpty
<1>4. First(T) \in T /\ First(T) \in S /\ IsFiniteSet(T)
  BY <1>3, FirstIn, FS_Subset
<1>5. SumFunctionOnSet(f, T \ {First(T)}) = 0
  BY <1>2, <1>4
<1>6. SumFunctionOnSet(f, T) = 0
  BY <1>3, <1>4, <1>5, SumFirst
<1> QED
  BY <1>2, <1>6

\* Fewer natural numbers have a smaller sum.
LEMMA SumSubset ==
  ASSUME NEW f, NEW S, IsFiniteSet(S), \A x \in S : f[x] \in Nat, NEW T \in SUBSET S
  PROVE  SumFunctionOnSet(f, T) <= SumFunctionOnSet(f, S)
<1> DEFINE D == S \ T
<1>1. IsFiniteSet(T) /\ IsFiniteSet(D)
  BY FS_Subset
<1> DEFINE F == {U \in SUBSET D :
                   ~(SumFunctionOnSet(f, T) <= SumFunctionOnSet(f, T \cup U))}
<1> SUFFICES ASSUME F # {} PROVE FALSE
  <2>1. T \cup D = S /\ D \in SUBSET D
    OBVIOUS
  <2> QED
    BY <2>1
<1>2. F \in SUBSET SUBSET D
  OBVIOUS
<1>3. PICK U \in F : \A V \in SUBSET U : V \in F => V = U
  <2> HIDE DEF F, D
  <2> QED
    BY <1>1, <1>2, LeastSubset
<1>4. SumFunctionOnSet(f, T) \in Int
  BY <1>1, SumInt
<1>5. U # {}
  <2>1. T \cup {} = T
    OBVIOUS
  <2> QED
    BY <1>4, <2>1
<1>6. PICK a \in U : TRUE
  BY <1>5
<1> DEFINE V == T \cup (U \ {a})
<1>7. a \in S /\ a \notin V /\ V \in SUBSET S /\ T \cup U = V \cup {a} /\ IsFiniteSet(V)
  BY FS_Subset
<1>8. SumFunctionOnSet(f, T) <= SumFunctionOnSet(f, V)
  <2>1. U \ {a} \in SUBSET U /\ U \ {a} # U /\ U \ {a} \in SUBSET D
    OBVIOUS
  <2>2. U \ {a} \notin F
    BY <1>3, <2>1, Zenon
  <2> QED
    BY <2>1, <2>2
<1>9. SumFunctionOnSet(f, V \cup {a}) = f[a] + SumFunctionOnSet(f, V)
  <2>1. \A y \in V \cup {a} : f[y] \in Int
    BY <1>7
  <2> HIDE DEF V
  <2> QED
    BY <1>7, <2>1, SumAdd
<1>10. SumFunctionOnSet(f, V) \in Int /\ f[a] \in Nat
  BY <1>7, SumInt
<1> HIDE DEF V, F
<1>11. SumFunctionOnSet(f, T \cup U) = f[a] + SumFunctionOnSet(f, V)
  BY <1>7, <1>9, Zenon
<1>12. SumFunctionOnSet(f, T) <= SumFunctionOnSet(f, T \cup U)
  BY <1>4, <1>8, <1>10, <1>11
<1> QED
  BY <1>3, <1>12 DEF F

\* Indices whose terms are zero do not count.
LEMMA SumDrop ==
  ASSUME NEW f, NEW S, IsFiniteSet(S), \A x \in S : f[x] \in Int, NEW T \in SUBSET S,
         \A x \in S \ T : f[x] = 0
  PROVE  SumFunctionOnSet(f, S) = SumFunctionOnSet(f, T)
<1> DEFINE D == S \ T
<1>1. IsFiniteSet(T) /\ IsFiniteSet(D)
  BY FS_Subset
<1> DEFINE F == {U \in SUBSET D : SumFunctionOnSet(f, T \cup U) # SumFunctionOnSet(f, T)}
<1> SUFFICES ASSUME F # {} PROVE FALSE
  <2>1. T \cup D = S /\ D \in SUBSET D
    OBVIOUS
  <2>2. CASE F = {}
    <3>1. SumFunctionOnSet(f, T \cup D) = SumFunctionOnSet(f, T)
      BY <2>1, <2>2
    <3> QED
      BY <2>1, <3>1, Zenon
  <2> QED
    BY <2>2
<1>2. F \in SUBSET SUBSET D
  OBVIOUS
<1>3. PICK U \in F : \A V \in SUBSET U : V \in F => V = U
  <2> HIDE DEF F, D
  <2> QED
    BY <1>1, <1>2, LeastSubset
<1>4. U # {}
  <2>1. T \cup {} = T
    OBVIOUS
  <2> QED
    BY <2>1
<1>5. PICK a \in U : TRUE
  BY <1>4
<1> DEFINE V == T \cup (U \ {a})
<1>6. f[a] = 0 /\ a \notin V /\ V \in SUBSET S /\ T \cup U = V \cup {a} /\ IsFiniteSet(V)
  BY FS_Subset
<1>7. SumFunctionOnSet(f, V) = SumFunctionOnSet(f, T)
  <2>1. U \ {a} \in SUBSET U /\ U \ {a} # U /\ U \ {a} \in SUBSET D
    OBVIOUS
  <2>2. U \ {a} \notin F
    BY <1>3, <2>1, Zenon
  <2> QED
    BY <2>1, <2>2
<1>8. SumFunctionOnSet(f, V \cup {a}) = f[a] + SumFunctionOnSet(f, V)
  <2>1. \A y \in V \cup {a} : f[y] \in Int
    BY <1>6
  <2> HIDE DEF V
  <2> QED
    BY <1>6, <2>1, SumAdd
<1>9. SumFunctionOnSet(f, V) \in Int
  BY <1>6, SumInt
<1> HIDE DEF V, F
<1>10. SumFunctionOnSet(f, T \cup U) = SumFunctionOnSet(f, V \cup {a})
  BY <1>6, Zenon
<1>11. SumFunctionOnSet(f, T \cup U) = SumFunctionOnSet(f, T)
  BY <1>6, <1>7, <1>8, <1>9, <1>10
<1> QED
  BY <1>3, <1>11 DEF F

\* A sum of natural numbers.
LEMMA SumNat ==
  ASSUME NEW f, NEW S, IsFiniteSet(S), \A x \in S : f[x] \in Nat
  PROVE  SumFunctionOnSet(f, S) \in Nat
<1>1. SumFunctionOnSet(f, S) \in Int
  BY SumInt
<1>2. SumFunctionOnSet(f, {}) <= SumFunctionOnSet(f, S)
  BY SumSubset
<1> QED
  BY <1>1, <1>2, SumEmpty

\* The sum of a prefix grows by the next element.
LEMMA SumNext ==
  ASSUME NEW f, NEW n \in Nat, \A x \in 1..(n + 1) : f[x] \in Int
  PROVE  SumFunctionOnSet(f, 1..(n + 1)) = SumFunctionOnSet(f, 1..n) + f[n + 1]
<1>1. 1..(n + 1) = (1..n) \cup {n + 1} /\ n + 1 \notin 1..n
  OBVIOUS
<1>2. IsFiniteSet(1..n)
  BY FS_Interval
<1>3. SumFunctionOnSet(f, 1..n) \in Int
  BY <1>2, SumInt
<1>4. SumFunctionOnSet(f, (1..n) \cup {n + 1}) = f[n + 1] + SumFunctionOnSet(f, 1..n)
  BY <1>1, <1>2, SumAdd
<1>5. SumFunctionOnSet(f, 1..(n + 1)) = f[n + 1] + SumFunctionOnSet(f, 1..n)
  BY <1>1, <1>4, Zenon
<1>6. f[n + 1] \in Int
  OBVIOUS
<1> QED
  BY <1>3, <1>5, <1>6

\* A sum grows no faster than another one of the same number of terms.
LEMMA SumLinear ==
  ASSUME NEW f, NEW g, NEW S, IsFiniteSet(S), NEW a \in Nat, NEW b \in Nat, NEW c \in Nat,
         \A x \in S : f[x] \in Int /\ g[x] \in Int /\ a * f[x] <= b * g[x] + c
  PROVE  a * SumFunctionOnSet(f, S) <= b * SumFunctionOnSet(g, S) + c * Cardinality(S)
<1> DEFINE Good(T) ==
      a * SumFunctionOnSet(f, T) <= b * SumFunctionOnSet(g, T) + c * Cardinality(T)
           F == {T \in SUBSET S : ~Good(T)}
<1> SUFFICES ASSUME F # {} PROVE FALSE
  OBVIOUS
<1>1. F \in SUBSET SUBSET S
  OBVIOUS
<1>2. PICK T \in F : \A U \in SUBSET T : U \in F => U = T
  <2> HIDE DEF F
  <2> QED
    BY <1>1, LeastSubset
<1>3. T # {}
  <2>1. Good({})
    BY SumEmpty, FS_EmptySet
  <2> QED
    BY <2>1
<1> DEFINE U == T \ {First(T)}
           x == First(T)
<1>4. x \in T /\ x \in S /\ IsFiniteSet(T) /\ IsFiniteSet(U)
  BY <1>3, FirstIn, FS_Subset
<1>5. Good(U)
  BY <1>2, <1>4
<1>6. /\ SumFunctionOnSet(f, T) = f[x] + SumFunctionOnSet(f, U)
      /\ SumFunctionOnSet(g, T) = g[x] + SumFunctionOnSet(g, U)
      /\ Cardinality(T) = Cardinality(U) + 1
  <2>1. Cardinality(U) = Cardinality(T) - 1 /\ Cardinality(T) \in Nat
    BY <1>4, FS_RemoveElement, FS_CardinalityType
  <2> HIDE DEF F, Good
  <2>2. SumFunctionOnSet(f, T) = f[x] + SumFunctionOnSet(f, U)
    BY <1>3, <1>4, SumFirst
  <2>3. SumFunctionOnSet(g, T) = g[x] + SumFunctionOnSet(g, U)
    BY <1>3, <1>4, SumFirst
  <2> QED
    BY <2>1, <2>2, <2>3
<1>7. /\ f[x] \in Int /\ g[x] \in Int /\ a * f[x] <= b * g[x] + c
      /\ SumFunctionOnSet(f, U) \in Int /\ SumFunctionOnSet(g, U) \in Int
      /\ Cardinality(U) \in Nat
  <2>1. \A y \in U : f[y] \in Int /\ g[y] \in Int
    OBVIOUS
  <2> HIDE DEF U, x
  <2> QED
    BY <1>4, <2>1, SumInt, FS_CardinalityType
<1>8. ASSUME NEW p \in Int, NEW q \in Int, NEW s \in Int, NEW t \in Int, NEW n \in Nat,
             a * p <= b * q + c, a * s <= b * t + c * n
      PROVE  a * (p + s) <= b * (q + t) + c * (n + 1)
  <2>1. a * (p + s) = a * p + a * s
    OBVIOUS
  <2>2. b * (q + t) = b * q + b * t
    OBVIOUS
  <2>3. c * (n + 1) = c * n + c
    OBVIOUS
  <2>4. a * p \in Int /\ a * s \in Int /\ b * q \in Int /\ b * t \in Int /\ c * n \in Int
    OBVIOUS
  <2> QED
    BY <1>8, <2>1, <2>2, <2>3, <2>4
<1>9. Good(T)
  <2> HIDE DEF U, x
  <2>1. a * (f[x] + SumFunctionOnSet(f, U)) <=
          b * (g[x] + SumFunctionOnSet(g, U)) + c * (Cardinality(U) + 1)
    BY <1>5, <1>7, <1>8
  <2> QED
    BY <1>6, <2>1
<1> QED
  BY <1>2, <1>9

\* The sum of a multiple.
LEMMA SumScale ==
  ASSUME NEW f, NEW h, NEW S, IsFiniteSet(S), NEW a \in Int,
         \A x \in S : f[x] \in Int /\ h[x] = a * f[x]
  PROVE  SumFunctionOnSet(h, S) = a * SumFunctionOnSet(f, S)
<1> DEFINE Good(T) == SumFunctionOnSet(h, T) = a * SumFunctionOnSet(f, T)
           F == {T \in SUBSET S : ~Good(T)}
<1> SUFFICES ASSUME F # {} PROVE FALSE
  OBVIOUS
<1>1. F \in SUBSET SUBSET S
  OBVIOUS
<1>2. PICK T \in F : \A U \in SUBSET T : U \in F => U = T
  <2> HIDE DEF F
  <2> QED
    BY <1>1, LeastSubset
<1>3. T # {}
  <2>1. Good({})
    BY SumEmpty
  <2> QED
    BY <2>1
<1> DEFINE U == T \ {First(T)}
           x == First(T)
<1>4. x \in T /\ x \in S /\ IsFiniteSet(T) /\ IsFiniteSet(U)
  BY <1>3, FirstIn, FS_Subset
<1>5. Good(U)
  BY <1>2, <1>4
<1>6. /\ SumFunctionOnSet(f, T) = f[x] + SumFunctionOnSet(f, U)
      /\ SumFunctionOnSet(h, T) = h[x] + SumFunctionOnSet(h, U)
  <2> HIDE DEF F, Good
  <2> QED
    BY <1>3, <1>4, SumFirst
<1>7. f[x] \in Int /\ h[x] = a * f[x] /\ SumFunctionOnSet(f, U) \in Int
  <2>1. \A y \in U : f[y] \in Int
    OBVIOUS
  <2> HIDE DEF U, x
  <2> QED
    BY <1>4, <2>1, SumInt
<1>8. \A p, q \in Int : a * p + a * q = a * (p + q)
  OBVIOUS
<1>9. Good(T)
  <2> HIDE DEF U, x
  <2> QED
    BY <1>5, <1>6, <1>7, <1>8
<1> QED
  BY <1>2, <1>9

\* The sum of a difference.
LEMMA SumMinus ==
  ASSUME NEW f, NEW g, NEW h, NEW S, IsFiniteSet(S),
         \A x \in S : f[x] \in Int /\ g[x] \in Int /\ h[x] = f[x] - g[x]
  PROVE  SumFunctionOnSet(h, S) = SumFunctionOnSet(f, S) - SumFunctionOnSet(g, S)
<1> DEFINE Good(T) == SumFunctionOnSet(h, T) = SumFunctionOnSet(f, T) - SumFunctionOnSet(g, T)
           F == {T \in SUBSET S : ~Good(T)}
<1> SUFFICES ASSUME F # {} PROVE FALSE
  OBVIOUS
<1>1. F \in SUBSET SUBSET S
  OBVIOUS
<1>2. PICK T \in F : \A U \in SUBSET T : U \in F => U = T
  <2> HIDE DEF F
  <2> QED
    BY <1>1, LeastSubset
<1>3. T # {}
  <2>1. Good({})
    BY SumEmpty
  <2> QED
    BY <2>1
<1> DEFINE U == T \ {First(T)}
           x == First(T)
<1>4. x \in T /\ x \in S /\ IsFiniteSet(T) /\ IsFiniteSet(U)
  BY <1>3, FirstIn, FS_Subset
<1>5. Good(U)
  BY <1>2, <1>4
<1>6. /\ SumFunctionOnSet(f, T) = f[x] + SumFunctionOnSet(f, U)
      /\ SumFunctionOnSet(g, T) = g[x] + SumFunctionOnSet(g, U)
      /\ SumFunctionOnSet(h, T) = h[x] + SumFunctionOnSet(h, U)
  <2> HIDE DEF F, Good
  <2> QED
    BY <1>3, <1>4, SumFirst
<1>7. /\ f[x] \in Int /\ g[x] \in Int /\ h[x] = f[x] - g[x]
      /\ SumFunctionOnSet(f, U) \in Int /\ SumFunctionOnSet(g, U) \in Int
  <2>1. \A y \in U : f[y] \in Int /\ g[y] \in Int
    OBVIOUS
  <2> HIDE DEF U, x
  <2> QED
    BY <1>4, <2>1, SumInt
<1>8. Good(T)
  <2> HIDE DEF U, x
  <2> QED
    BY <1>5, <1>6, <1>7
<1> QED
  BY <1>2, <1>8

\* One term more.
LEMMA SumOneMore ==
  ASSUME NEW f, NEW g, NEW x, IsFiniteSet(DOMAIN f), x \notin DOMAIN f,
         DOMAIN g = DOMAIN f \cup {x}, \A y \in DOMAIN f : f[y] \in Int /\ g[y] = f[y],
         g[x] \in Int
  PROVE  SumFunction(g) = SumFunction(f) + g[x]
<1>1. \A y \in DOMAIN f \cup {x} : g[y] \in Int
  OBVIOUS
<1>2. SumFunctionOnSet(g, DOMAIN f \cup {x}) = g[x] + SumFunctionOnSet(g, DOMAIN f)
  BY <1>1, SumAdd
<1>3. SumFunctionOnSet(g, DOMAIN f) = SumFunctionOnSet(f, DOMAIN f)
  BY SumSame
<1>4. SumFunctionOnSet(f, DOMAIN f) \in Int
  BY SumInt
<1> QED
  BY <1>2, <1>3, <1>4 DEF SumFunction
=============================================================================
