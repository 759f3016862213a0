-------------------------------- MODULE Sums --------------------------------
(***************************************************************************)
(* Facts about the sum of a function over a finite set, for the proofs     *)
(* about books.  SumFunctionOnSet adds the elements up in an order that    *)
(* CHOOSE determines; none of the facts depends on it.  The library's      *)
(* theorems on induction have an operator for a parameter; NatInduct says  *)
(* the same of sets of numbers, which a step can name.                     *)
(***************************************************************************)
EXTENDS Integers, Functions, FiniteSetTheorems, TLAPS

-----------------------------------------------------------------------------
(* Induction.                                                              *)

(* A set of naturals with 0 and with the successor of each of its members  *)
(* has all of them.                                                        *)
LEMMA NatInduct ==
  ASSUME NEW T \in SUBSET Nat,
         0 \in T, \A n \in T : n + 1 \in T
  PROVE  T = Nat
<1> SUFFICES ASSUME Nat \ T # {} PROVE FALSE
  OBVIOUS
<1>1. \E m \in Nat \ T : \A k \in Nat \ T : ~(<<k, m>> \in OpToRel(<, Nat))
  BY NatLessThanWellFounded, WFMin
<1>2. PICK m \in Nat \ T : \A k \in Nat \ T : ~(k < m)
  BY <1>1 DEF OpToRel
<1>3. m - 1 \in Nat \ T
  BY <1>2
<1> QED
  BY <1>2, <1>3

(* Without one of its elements a finite set has one element less.          *)
LEMMA CardRemove ==
  ASSUME NEW S, IsFiniteSet(S), NEW x \in S
  PROVE  /\ IsFiniteSet(S \ {x}) /\ Cardinality(S) \in Nat
         /\ Cardinality(S \ {x}) = Cardinality(S) - 1
<1>1. Cardinality(S \ {x}) = IF x \in S THEN Cardinality(S)-1 ELSE Cardinality(S)
  BY FS_RemoveElement, Zenon
<1> QED
  BY <1>1, FS_RemoveElement, FS_CardinalityType

-----------------------------------------------------------------------------
(* The recursive equation of the sum, and a function that fits it for the  *)
(* subsets of S.                                                           *)

Chosen(s) == CHOOSE x \in s : TRUE
SumStep(g, f, s) == IF s = {} THEN 0 ELSE f[Chosen(s)] + g[s \ {Chosen(s)}]
SumsUp(g, f, S) == g = [s \in SUBSET S |-> SumStep(g, f, s)]

(* The sum as the library defines it.                                      *)
LEMMA SumIsChosen ==
  ASSUME NEW f, NEW S
  PROVE  SumFunctionOnSet(f, S) = (CHOOSE g : SumsUp(g, f, S))[S]
BY DEF SumFunctionOnSet, FoldFunctionOnSet, MapThenFoldSet, SumsUp, SumStep, Chosen

(* CHOOSE takes an element of the set.                                     *)
LEMMA Picked == ASSUME NEW s, s # {} PROVE Chosen(s) \in s
BY DEF Chosen

(* There is a function that fits the recursive equation, built from one    *)
(* that fits it for smaller sets.                                          *)
LEMMA AddsExists ==
  ASSUME NEW f, NEW S, IsFiniteSet(S)
  PROVE  \E g : SumsUp(g, f, S)
<1> DEFINE Upto(n) == {s \in SUBSET S : Cardinality(s) <= n}
           K == {n \in Nat : \E g : \A s \in Upto(n) : g[s] = SumStep(g, f, s)}
<1>1. 0 \in K
  <2> DEFINE g == [s \in SUBSET S |-> 0]
  <2>1. \A s \in Upto(0) : s = {}
    BY FS_Subset, FS_EmptySet, FS_CardinalityType
  <2>2. \A s \in Upto(0) : g[s] = SumStep(g, f, s)
    BY <2>1 DEF SumStep
  <2> QED
    BY <2>2
<1>2. ASSUME NEW n \in K PROVE n + 1 \in K
  <2>1. PICK g : \A s \in Upto(n) : g[s] = SumStep(g, f, s)
    BY <1>2
  <2> DEFINE h == [s \in SUBSET S |-> SumStep(g, f, s)]
  <2>2. ASSUME NEW s \in Upto(n + 1) PROVE h[s] = SumStep(h, f, s)
    <3>1. CASE s = {}
      BY <3>1 DEF SumStep
    <3>2. CASE s # {}
      <4> DEFINE t == s \ {Chosen(s)}
      <4>1. t \in Upto(n)
        BY <3>2, Picked, FS_Subset, FS_RemoveElement, FS_CardinalityType
      <4>2. h[t] = g[t]
        BY <4>1, <2>1
      <4> QED
        BY <3>2, <4>2 DEF SumStep
    <3> QED
      BY <3>1, <3>2
  <2>3. n + 1 \in Nat
    BY <1>2
  <2> HIDE DEF h
  <2> QED
    BY <2>2, <2>3
<1>3. K = Nat
  <2> HIDE DEF K
  <2>1. K \in SUBSET Nat
    BY DEF K
  <2> QED
    BY <1>1, <1>2, <2>1, NatInduct
<1>4. PICK g : \A s \in Upto(Cardinality(S)) : g[s] = SumStep(g, f, s)
  BY <1>3, FS_CardinalityType
<1>5. \A s \in SUBSET S : g[s] = SumStep(g, f, s)
  BY <1>4, FS_Subset
<1> DEFINE h == [s \in SUBSET S |-> g[s]]
<1>6. \A s \in SUBSET S : h[s] = SumStep(h, f, s)
  BY <1>5 DEF SumStep
<1>7. SumsUp(h, f, S)
  BY <1>6 DEF SumsUp
<1> QED
  BY <1>7

(* Two that fit it agree on what they have in common.                      *)
LEMMA AddsAgree ==
  ASSUME NEW f, NEW e, NEW S, IsFiniteSet(S), NEW T \in SUBSET S, NEW g, NEW h,
         SumsUp(g, f, S), SumsUp(h, e, T), \A x \in T : f[x] = e[x]
  PROVE  g[T] = h[T]
<1> DEFINE K == {n \in Nat : \A s \in SUBSET T : Cardinality(s) = n => g[s] = h[s]}
<1>0. \A s \in SUBSET T : g[s] = SumStep(g, f, s) /\ h[s] = SumStep(h, e, s)
  BY DEF SumsUp
<1>1. 0 \in K
  BY <1>0, FS_Subset, FS_EmptySet DEF SumStep
<1>2. ASSUME NEW n \in K PROVE n + 1 \in K
  <2> SUFFICES ASSUME NEW s \in SUBSET T, Cardinality(s) = n + 1 PROVE g[s] = h[s]
    BY <1>2
  <2>1. IsFiniteSet(s) /\ s # {} /\ n \in Nat
    BY <1>2, FS_Subset, FS_EmptySet
  <2>2. Chosen(s) \in s
    BY <2>1, Picked
  <2>3. Cardinality(s \ {Chosen(s)}) = n
    BY <2>1, <2>2, CardRemove
  <2>4. g[s \ {Chosen(s)}] = h[s \ {Chosen(s)}]
    BY <2>3, <1>2
  <2> QED
    BY <1>0, <2>1, <2>2, <2>4 DEF SumStep
<1>3. K = Nat
  <2> HIDE DEF K
  <2>1. K \in SUBSET Nat
    BY DEF K
  <2> QED
    BY <1>1, <1>2, <2>1, NatInduct
<1> QED
  BY <1>3, FS_Subset, FS_CardinalityType

(* The recursive equation holds of the sum.                                *)
LEMMA SumByPick ==
  ASSUME NEW f, NEW S, IsFiniteSet(S)
  PROVE  SumFunctionOnSet(f, S) =
           IF S = {} THEN 0 ELSE f[Chosen(S)] + SumFunctionOnSet(f, S \ {Chosen(S)})
<1> DEFINE g == CHOOSE g : SumsUp(g, f, S)
           T == S \ {Chosen(S)}
           h == CHOOSE h : SumsUp(h, f, T)
<1>1. SumsUp(g, f, S)
  BY AddsExists
<1>2. SumsUp(h, f, T)
  BY AddsExists, FS_Subset
<1> HIDE DEF g, h
<1>3. g[T] = h[T]
  <2>1. T \in SUBSET S
    OBVIOUS
  <2>2. ASSUME NEW e, SumsUp(h, e, T), \A x \in T : f[x] = e[x] PROVE g[T] = h[T]
    <3> HIDE DEF T
    <3> QED
      BY <1>1, <2>1, <2>2, AddsAgree
  <2> QED
    BY <1>2, <2>2, Zenon
<1>4. g[S] = SumStep(g, f, S)
  BY <1>1 DEF SumsUp
<1>5. SumFunctionOnSet(f, S) = g[S] /\ SumFunctionOnSet(f, T) = h[T]
  BY SumIsChosen DEF g, h
<1> QED
  BY <1>3, <1>4, <1>5 DEF SumStep

(* The sum depends on the values in the set alone.                         *)
LEMMA SumCongruent ==
  ASSUME NEW S, IsFiniteSet(S), NEW f, NEW e,
         \A x \in S : f[x] = e[x]
  PROVE  SumFunctionOnSet(f, S) = SumFunctionOnSet(e, S)
<1>1. PICK g : SumsUp(g, f, S) /\ g = CHOOSE a : SumsUp(a, f, S)
  BY AddsExists
<1>2. PICK h : SumsUp(h, e, S) /\ h = CHOOSE a : SumsUp(a, e, S)
  BY AddsExists
<1>3. g[S] = h[S]
  BY <1>1, <1>2, AddsAgree
<1> QED
  BY <1>1, <1>2, <1>3, SumIsChosen

(* Nothing adds up to 0.                                                   *)
LEMMA SumEmpty == ASSUME NEW f PROVE SumFunctionOnSet(f, {}) = 0
BY SumByPick, FS_EmptySet

(* A sum of integers is an integer.                                        *)
LEMMA SumType ==
  ASSUME NEW S, IsFiniteSet(S), NEW f,
         \A x \in S : f[x] \in Int
  PROVE  SumFunctionOnSet(f, S) \in Int
<1> DEFINE K == {n \in Nat : \A T \in SUBSET S : Cardinality(T) = n => SumFunctionOnSet(f, T) \in Int}
<1>1. 0 \in K
  BY FS_Subset, FS_EmptySet, SumEmpty
<1>2. ASSUME NEW n \in K PROVE n + 1 \in K
  <2> SUFFICES ASSUME NEW T \in SUBSET S, Cardinality(T) = n + 1 PROVE SumFunctionOnSet(f, T) \in Int
    BY <1>2
  <2>1. IsFiniteSet(T) /\ T # {} /\ n \in Nat
    BY <1>2, FS_Subset, FS_EmptySet
  <2>2. Chosen(T) \in T
    BY <2>1, Picked
  <2>3. Cardinality(T \ {Chosen(T)}) = n
    BY <2>1, <2>2, CardRemove
  <2>4. SumFunctionOnSet(f, T \ {Chosen(T)}) \in Int
    BY <2>3, <1>2
  <2> QED
    BY <2>1, <2>2, <2>4, SumByPick
<1>3. K = Nat
  <2> HIDE DEF K
  <2>1. K \in SUBSET Nat
    BY DEF K
  <2> QED
    BY <1>1, <1>2, <2>1, NatInduct
<1> QED
  BY <1>3, FS_Subset, FS_CardinalityType

(* Any element may be taken out first, not only the chosen one.            *)
LEMMA SumSplit ==
  ASSUME NEW S, IsFiniteSet(S), NEW f,
         \A x \in S : f[x] \in Int
  PROVE  \A x \in S : SumFunctionOnSet(f, S) = f[x] + SumFunctionOnSet(f, S \ {x})
<1> DEFINE Sum(T) == SumFunctionOnSet(f, T)
           K == {n \in Nat : \A T \in SUBSET S : Cardinality(T) = n =>
                              \A x \in T : Sum(T) = f[x] + Sum(T \ {x})}
<1>0. \A T \in SUBSET S : IsFiniteSet(T) /\ Sum(T) \in Int
  BY FS_Subset, SumType
<1>1. 0 \in K
  BY FS_Subset, FS_EmptySet
<1>2. ASSUME NEW n \in K PROVE n + 1 \in K
  <2> SUFFICES ASSUME NEW T \in SUBSET S, Cardinality(T) = n + 1, NEW x \in T
               PROVE  Sum(T) = f[x] + Sum(T \ {x})
    BY <1>2
  <2> DEFINE y == Chosen(T)
  <2>1. IsFiniteSet(T) /\ T # {} /\ n \in Nat
    BY <1>2, FS_Subset
  <2>2. y \in T
    BY <2>1, Picked
  <2>3. Sum(T) = f[y] + Sum(T \ {y})
    BY <2>1, SumByPick
  <2>4. CASE x = y
    BY <2>3, <2>4
  <2>5. CASE x # y
    <3> HIDE DEF y
    <3>1. Cardinality(T \ {y}) = n /\ Cardinality(T \ {x}) = n
      BY <2>1, <2>2, CardRemove
    <3>2. x \in T \ {y} /\ y \in T \ {x}
      BY <2>2, <2>5
    <3>3. \A U \in SUBSET S : \A z \in U : Cardinality(U) = n => Sum(U) = f[z] + Sum(U \ {z})
      BY <1>2
    <3> HIDE DEF K, Sum
    <3>4. Sum(T \ {y}) = f[x] + Sum((T \ {y}) \ {x})
      BY <3>1, <3>2, <3>3
    <3>5. Sum(T \ {x}) = f[y] + Sum((T \ {x}) \ {y})
      BY <3>1, <3>2, <3>3
    <3>6. (T \ {x}) \ {y} = (T \ {y}) \ {x}
      OBVIOUS
    <3>7. f[x] \in Int /\ f[y] \in Int /\ Sum((T \ {y}) \ {x}) \in Int
      BY <2>2, <1>0
    <3>8. Sum(T) = f[y] + (f[x] + Sum((T \ {y}) \ {x}))
      BY <2>3, <3>4
    <3>9. Sum(T \ {x}) = f[y] + Sum((T \ {y}) \ {x})
      BY <3>5, <3>6
    <3> QED
      BY <3>7, <3>8, <3>9
  <2> QED
    BY <2>4, <2>5
<1>3. K = Nat
  <2> HIDE DEF K
  <2>1. K \in SUBSET Nat
    BY DEF K
  <2> QED
    BY <1>1, <1>2, <2>1, NatInduct
<1> QED
  BY <1>3, FS_CardinalityType

-----------------------------------------------------------------------------
(* What the proofs about books cite.                                       *)

(* One element more.                                                       *)
LEMMA SumAdd ==
  ASSUME NEW f, NEW V, IsFiniteSet(V), NEW v, v \notin V, \A w \in V \cup {v} : f[w] \in Int
  PROVE  IsFiniteSet(V \cup {v}) /\ SumFunctionOnSet(f, V \cup {v}) = SumFunctionOnSet(f, V) + f[v]
<1>1. IsFiniteSet(V \cup {v}) /\ (V \cup {v}) \ {v} = V
  BY FS_AddElement
<1>2. SumFunctionOnSet(f, V) \in Int
  BY SumType
<1>3. SumFunctionOnSet(f, V \cup {v}) = f[v] + SumFunctionOnSet(f, (V \cup {v}) \ {v})
  BY <1>1, SumSplit
<1>4. SumFunctionOnSet(f, V \cup {v}) = f[v] + SumFunctionOnSet(f, V)
  BY <1>1, <1>3
<1>5. f[v] \in Int
  OBVIOUS
<1> QED
  BY <1>1, <1>2, <1>4, <1>5

(* One element only.                                                       *)
LEMMA SumSingle ==
  ASSUME NEW f, NEW x,
         f[x] \in Int
  PROVE  SumFunctionOnSet(f, {x}) = f[x]
<1>1. SumFunctionOnSet(f, {}) = 0 /\ IsFiniteSet({x}) /\ x \in {x} /\ {x} \ {x} = {}
  BY SumEmpty, FS_Singleton
<1>2. SumFunctionOnSet(f, {x}) = f[x] + SumFunctionOnSet(f, {x} \ {x})
  BY <1>1, SumSplit
<1>3. SumFunctionOnSet(f, {x}) = f[x] + 0
  BY <1>1, <1>2
<1> QED
  BY <1>3

(* Two functions that differ at one element.                               *)
LEMMA SumChange ==
  ASSUME NEW S, IsFiniteSet(S), NEW f, NEW e, NEW x \in S,
         \A y \in S : f[y] \in Int /\ e[y] \in Int, \A y \in S \ {x} : e[y] = f[y]
  PROVE  SumFunctionOnSet(e, S) = SumFunctionOnSet(f, S) - f[x] + e[x]
<1> DEFINE T == S \ {x}
<1>1. IsFiniteSet(T)
  BY FS_Subset
<1>2. SumFunctionOnSet(f, T) = SumFunctionOnSet(e, T)
  BY <1>1, SumCongruent
<1>3. SumFunctionOnSet(f, S) = f[x] + SumFunctionOnSet(f, T)
  BY SumSplit
<1>4. SumFunctionOnSet(e, S) = e[x] + SumFunctionOnSet(e, T)
  BY SumSplit
<1>5. SumFunctionOnSet(f, T) \in Int /\ f[x] \in Int /\ e[x] \in Int
  BY <1>1, SumType
<1> QED
  BY <1>2, <1>3, <1>4, <1>5

(* A sum in two parts.                                                     *)
LEMMA SumParts ==
  ASSUME NEW S, IsFiniteSet(S), NEW T \in SUBSET S, NEW f,
         \A x \in S : f[x] \in Int
  PROVE  SumFunctionOnSet(f, S) = SumFunctionOnSet(f, T) + SumFunctionOnSet(f, S \ T)
<1> DEFINE Sum(U) == SumFunctionOnSet(f, U)
           K == {n \in Nat : \A U \in SUBSET T : Cardinality(U) = n => Sum(S) = Sum(U) + Sum(S \ U)}
<1>0. \A U \in SUBSET S : IsFiniteSet(U) /\ Sum(U) \in Int
  BY FS_Subset, SumType
<1>1. 0 \in K
  <2>1. ASSUME NEW U \in SUBSET T, Cardinality(U) = 0 PROVE Sum(S) = Sum(U) + Sum(S \ U)
    <3>1. U = {} /\ S \ U = S
      BY <2>1, <1>0, FS_EmptySet
    <3>2. Sum(U) = 0 /\ Sum(S) \in Int
      BY <3>1, <1>0, SumEmpty
    <3> QED
      BY <3>1, <3>2
  <2> QED
    BY <2>1
<1>2. ASSUME NEW n \in K PROVE n + 1 \in K
  <2> SUFFICES ASSUME NEW U \in SUBSET T, Cardinality(U) = n + 1 PROVE Sum(S) = Sum(U) + Sum(S \ U)
    BY <1>2
  <2>1. IsFiniteSet(U) /\ U # {} /\ n \in Nat
    BY <1>0, <1>2, FS_EmptySet
  <2>2. PICK x : x \in U
    BY <2>1
  <2> DEFINE V == U \ {x}
  <2>3. Cardinality(V) = n
    BY <2>1, <2>2, CardRemove
  <2>4. Sum(S) = Sum(V) + Sum(S \ V)
    BY <2>3, <1>2
  <2>5. Sum(U) = f[x] + Sum(V)
    BY <2>1, <2>2, SumSplit
  <2>6. Sum(S \ V) = f[x] + Sum(S \ U)
    <3>1. S \ U = (S \ V) \ {x} /\ x \in S \ V /\ IsFiniteSet(S \ V)
      BY <2>2, <1>0
    <3>2. Sum(S \ V) = f[x] + Sum((S \ V) \ {x})
      BY <3>1, SumSplit
    <3> QED
      BY <3>1, <3>2
  <2>7. f[x] \in Int /\ Sum(V) \in Int /\ Sum(S \ U) \in Int
    BY <2>2, <1>0
  <2> HIDE DEF Sum, V
  <2> QED
    BY <2>4, <2>5, <2>6, <2>7
<1>3. K = Nat
  <2> HIDE DEF K
  <2>1. K \in SUBSET Nat
    BY DEF K
  <2> QED
    BY <1>1, <1>2, <2>1, NatInduct
<1>4. IsFiniteSet(T) /\ Cardinality(T) \in Nat
  BY <1>0, FS_CardinalityType
<1> QED
  BY <1>3, <1>4

(* A sum of naturals is a natural.                                         *)
LEMMA SumNat ==
  ASSUME NEW S, IsFiniteSet(S), NEW f,
         \A x \in S : f[x] \in Nat
  PROVE  SumFunctionOnSet(f, S) \in Nat
<1> DEFINE Sum(T) == SumFunctionOnSet(f, T)
           K == {n \in Nat : \A T \in SUBSET S : Cardinality(T) = n => Sum(T) \in Nat}
<1>1. 0 \in K
  BY FS_Subset, FS_EmptySet, SumEmpty
<1>2. ASSUME NEW n \in K PROVE n + 1 \in K
  <2> SUFFICES ASSUME NEW T \in SUBSET S, Cardinality(T) = n + 1 PROVE Sum(T) \in Nat
    BY <1>2
  <2>1. IsFiniteSet(T) /\ n \in Nat /\ T # {}
    BY <1>2, FS_Subset, FS_EmptySet
  <2>2. PICK x : x \in T
    BY <2>1
  <2>3. Cardinality(T \ {x}) = n
    BY <2>1, <2>2, CardRemove
  <2>4. Sum(T \ {x}) \in Nat /\ f[x] \in Nat
    BY <2>2, <2>3, <1>2
  <2>5. Sum(T) = f[x] + Sum(T \ {x})
    BY <2>1, <2>2, SumSplit
  <2> QED
    BY <2>4, <2>5
<1>3. K = Nat
  <2> HIDE DEF K
  <2>1. K \in SUBSET Nat
    BY DEF K
  <2> QED
    BY <1>1, <1>2, <2>1, NatInduct
<1> QED
  BY <1>3, FS_CardinalityType

(* No part of a sum of naturals is more than the whole.                    *)
LEMMA SumPartOfNat ==
  ASSUME NEW S, IsFiniteSet(S), NEW T \in SUBSET S, NEW f,
         \A x \in S : f[x] \in Nat
  PROVE  SumFunctionOnSet(f, T) <= SumFunctionOnSet(f, S)
<1>1. IsFiniteSet(T) /\ IsFiniteSet(S \ T)
  BY FS_Subset
<1>2. SumFunctionOnSet(f, T) \in Nat /\ SumFunctionOnSet(f, S \ T) \in Nat
  BY <1>1, SumNat
<1>3. SumFunctionOnSet(f, S) = SumFunctionOnSet(f, T) + SumFunctionOnSet(f, S \ T)
  BY SumParts
<1> QED
  BY <1>2, <1>3

(* What is less everywhere adds up to less.                                *)
LEMMA SumMonotone ==
  ASSUME NEW S, IsFiniteSet(S), NEW f, NEW e,
         \A x \in S : f[x] \in Int /\ e[x] \in Int /\ f[x] <= e[x]
  PROVE  SumFunctionOnSet(f, S) <= SumFunctionOnSet(e, S)
<1> DEFINE Sum(g, T) == SumFunctionOnSet(g, T)
           K == {n \in Nat : \A T \in SUBSET S : Cardinality(T) = n => Sum(f, T) <= Sum(e, T)}
<1>1. 0 \in K
  BY FS_Subset, FS_EmptySet, SumEmpty
<1>2. ASSUME NEW n \in K PROVE n + 1 \in K
  <2> SUFFICES ASSUME NEW T \in SUBSET S, Cardinality(T) = n + 1 PROVE Sum(f, T) <= Sum(e, T)
    BY <1>2
  <2>1. IsFiniteSet(T) /\ n \in Nat /\ T # {}
    BY <1>2, FS_Subset, FS_EmptySet
  <2>2. PICK x : x \in T
    BY <2>1
  <2> DEFINE U == T \ {x}
  <2>3. Cardinality(U) = n /\ IsFiniteSet(U)
    BY <2>1, <2>2, CardRemove
  <2>4. Sum(f, U) <= Sum(e, U) /\ f[x] \in Int /\ e[x] \in Int /\ f[x] <= e[x]
    BY <2>2, <2>3, <1>2
  <2>5. Sum(f, T) = f[x] + Sum(f, U)
    BY <2>1, <2>2, SumSplit
  <2>6. Sum(e, T) = e[x] + Sum(e, U)
    BY <2>1, <2>2, SumSplit
  <2>7. Sum(f, U) \in Int /\ Sum(e, U) \in Int
    BY <2>3, SumType
  <2> HIDE DEF Sum
  <2> QED
    BY <2>4, <2>5, <2>6, <2>7
<1>3. K = Nat
  <2> HIDE DEF K
  <2>1. K \in SUBSET Nat
    BY DEF K
  <2> QED
    BY <1>1, <1>2, <2>1, NatInduct
<1> QED
  BY <1>3, FS_CardinalityType

(* Zeros add up to 0.                                                      *)
LEMMA SumZero ==
  ASSUME NEW S, IsFiniteSet(S), NEW f,
         \A x \in S : f[x] = 0
  PROVE  SumFunctionOnSet(f, S) = 0
<1> DEFINE K == {n \in Nat : \A T \in SUBSET S : Cardinality(T) = n => SumFunctionOnSet(f, T) = 0}
<1>1. 0 \in K
  BY FS_Subset, FS_EmptySet, SumEmpty
<1>2. ASSUME NEW n \in K PROVE n + 1 \in K
  <2> SUFFICES ASSUME NEW T \in SUBSET S, Cardinality(T) = n + 1 PROVE SumFunctionOnSet(f, T) = 0
    BY <1>2
  <2>1. IsFiniteSet(T) /\ n \in Nat /\ T # {}
    BY <1>2, FS_Subset, FS_EmptySet
  <2>2. PICK x : x \in T
    BY <2>1
  <2>3. Cardinality(T \ {x}) = n
    BY <2>1, <2>2, CardRemove
  <2>4. SumFunctionOnSet(f, T \ {x}) = 0 /\ f[x] = 0
    BY <2>2, <2>3, <1>2
  <2>5. \A y \in T : f[y] \in Int
    OBVIOUS
  <2>6. SumFunctionOnSet(f, T) = f[x] + SumFunctionOnSet(f, T \ {x})
    BY <2>1, <2>2, <2>5, SumSplit
  <2> QED
    BY <2>4, <2>6
<1>3. K = Nat
  <2> HIDE DEF K
  <2>1. K \in SUBSET Nat
    BY DEF K
  <2> QED
    BY <1>1, <1>2, <2>1, NatInduct
<1> QED
  BY <1>3, FS_CardinalityType

(* Of opposite values the sum is the opposite.                             *)
LEMMA SumNegated ==
  ASSUME NEW S, IsFiniteSet(S), NEW f, NEW e,
         \A x \in S : f[x] \in Int /\ e[x] = -f[x]
  PROVE  SumFunctionOnSet(e, S) = -SumFunctionOnSet(f, S)
<1> DEFINE K == {n \in Nat : \A T \in SUBSET S : Cardinality(T) = n =>
                   SumFunctionOnSet(e, T) = -SumFunctionOnSet(f, T)}
<1>1. 0 \in K
  BY FS_Subset, FS_EmptySet, SumEmpty
<1>2. ASSUME NEW n \in K PROVE n + 1 \in K
  <2> SUFFICES ASSUME NEW T \in SUBSET S, Cardinality(T) = n + 1
               PROVE  SumFunctionOnSet(e, T) = -SumFunctionOnSet(f, T)
    BY <1>2
  <2>1. IsFiniteSet(T) /\ n \in Nat /\ T # {}
    BY <1>2, FS_Subset, FS_EmptySet
  <2>2. PICK x : x \in T
    BY <2>1
  <2> DEFINE U == T \ {x}
  <2>3. Cardinality(U) = n /\ IsFiniteSet(U)
    BY <2>1, <2>2, CardRemove
  <2>4. SumFunctionOnSet(e, U) = -SumFunctionOnSet(f, U) /\ f[x] \in Int /\ e[x] = -f[x]
    BY <2>2, <2>3, <1>2
  <2>5. SumFunctionOnSet(f, T) = f[x] + SumFunctionOnSet(f, U)
    BY <2>1, <2>2, SumSplit
  <2>6. SumFunctionOnSet(e, T) = e[x] + SumFunctionOnSet(e, U)
    <3>1. \A y \in T : e[y] \in Int
      OBVIOUS
    <3> QED
      BY <2>1, <2>2, <3>1, SumSplit
  <2>7. SumFunctionOnSet(f, U) \in Int
    BY <2>3, SumType
  <2> HIDE DEF U
  <2> QED
    BY <2>4, <2>5, <2>6, <2>7
<1>3. K = Nat
  <2> HIDE DEF K
  <2>1. K \in SUBSET Nat
    BY DEF K
  <2> QED
    BY <1>1, <1>2, <2>1, NatInduct
<1> QED
  BY <1>3, FS_CardinalityType

(* What is 0 but for one element adds up to that element.                  *)
LEMMA SumOnly ==
  ASSUME NEW S, IsFiniteSet(S), NEW f, NEW x \in S,
         f[x] \in Int, \A y \in S \ {x} : f[y] = 0
  PROVE  SumFunctionOnSet(f, S) = f[x]
<1>1. IsFiniteSet(S \ {x}) /\ \A y \in S : f[y] \in Int
  BY FS_Subset
<1>2. SumFunctionOnSet(f, S \ {x}) = 0
  BY <1>1, SumZero
<1>3. SumFunctionOnSet(f, S) = f[x] + SumFunctionOnSet(f, S \ {x})
  BY <1>1, SumSplit
<1> QED
  BY <1>2, <1>3

(* Two elements.                                                           *)
LEMMA SumPair ==
  ASSUME NEW f, NEW x, NEW y,
         x # y, f[x] \in Int, f[y] \in Int
  PROVE  SumFunctionOnSet(f, {x, y}) = f[x] + f[y]
<1>1. IsFiniteSet({x, y})
  <2>1. IsFiniteSet({x} \cup {y})
    BY FS_Singleton, FS_AddElement
  <2>2. {x, y} = {x} \cup {y}
    OBVIOUS
  <2> QED
    BY <2>1, <2>2
<1>2. SumFunctionOnSet(f, {x, y}) = f[x] + SumFunctionOnSet(f, {x, y} \ {x})
  BY <1>1, SumSplit
<1>3. {x, y} \ {x} = {y} /\ SumFunctionOnSet(f, {y}) = f[y]
  BY SumSingle
<1> QED
  BY <1>2, <1>3

(* A sum over the images of an injection.                                  *)
LEMMA SumImage ==
  ASSUME NEW S, IsFiniteSet(S), NEW g, NEW f, NEW e,
         \A s, t \in S : g[s] = g[t] => s = t, \A s \in S : e[s] = f[g[s]] /\ e[s] \in Int
  PROVE  SumFunctionOnSet(f, {g[s] : s \in S}) = SumFunctionOnSet(e, S)
<1> DEFINE Image(T) == {g[s] : s \in T}
           K == {n \in Nat : \A T \in SUBSET S : Cardinality(T) = n =>
                   IsFiniteSet(Image(T)) /\ SumFunctionOnSet(f, Image(T)) = SumFunctionOnSet(e, T)}
<1>1. 0 \in K
  <2>1. ASSUME NEW T \in SUBSET S, Cardinality(T) = 0
        PROVE  IsFiniteSet(Image(T)) /\ SumFunctionOnSet(f, Image(T)) = SumFunctionOnSet(e, T)
    <3>1. T = {}
      BY <2>1, FS_Subset, FS_EmptySet
    <3>2. Image(T) = {}
      BY <3>1
    <3> QED
      BY <3>1, <3>2, FS_EmptySet, SumEmpty
  <2> QED
    BY <2>1
<1>2. ASSUME NEW n \in K PROVE n + 1 \in K
  <2> SUFFICES ASSUME NEW T \in SUBSET S, Cardinality(T) = n + 1
               PROVE  IsFiniteSet(Image(T)) /\ SumFunctionOnSet(f, Image(T)) = SumFunctionOnSet(e, T)
    BY <1>2
  <2>1. IsFiniteSet(T) /\ n \in Nat /\ T # {}
    BY <1>2, FS_Subset, FS_EmptySet
  <2>2. PICK x : x \in T
    BY <2>1
  <2> DEFINE U == T \ {x}
  <2>3. Cardinality(U) = n
    BY <2>1, <2>2, CardRemove
  <2>4. IsFiniteSet(Image(U)) /\ SumFunctionOnSet(f, Image(U)) = SumFunctionOnSet(e, U)
    BY <2>3, <1>2
  <2>5. Image(T) = Image(U) \cup {g[x]} /\ g[x] \notin Image(U)
    BY <2>2
  <2>6. \A y \in Image(U) \cup {g[x]} : f[y] \in Int
    BY <2>2
  <2>8. /\ IsFiniteSet(Image(T))
        /\ SumFunctionOnSet(f, Image(T)) = SumFunctionOnSet(f, Image(U)) + f[g[x]]
    <3> HIDE DEF Image, U
    <3>1. /\ IsFiniteSet(Image(U) \cup {g[x]})
          /\ SumFunctionOnSet(f, Image(U) \cup {g[x]}) = SumFunctionOnSet(f, Image(U)) + f[g[x]]
      BY <2>4, <2>5, <2>6, SumAdd
    <3> QED
      BY <2>5, <3>1
  <2>9. SumFunctionOnSet(e, T) = e[x] + SumFunctionOnSet(e, U)
    BY <2>1, <2>2, SumSplit
  <2>10. e[x] = f[g[x]] /\ e[x] \in Int /\ SumFunctionOnSet(e, U) \in Int
    BY <2>1, <2>2, SumType, FS_Subset
  <2> HIDE DEF Image
  <2> QED
    BY <2>4, <2>8, <2>9, <2>10
<1>3. K = Nat
  <2> HIDE DEF K
  <2>1. K \in SUBSET Nat
    BY DEF K
  <2> QED
    BY <1>1, <1>2, <2>1, NatInduct
<1> HIDE DEF Image
<1>4. SumFunctionOnSet(f, Image(S)) = SumFunctionOnSet(e, S)
  BY <1>3, FS_CardinalityType
<1> QED
  BY <1>4 DEF Image

(* A sum over part of a set is a sum over the set with zeros elsewhere.    *)
LEMMA SumWhere ==
  ASSUME NEW S, IsFiniteSet(S), NEW T \in SUBSET S, NEW f, NEW e,
         \A x \in S : e[x] = IF x \in T THEN f[x] ELSE 0,
         \A x \in T : f[x] \in Int
  PROVE  SumFunctionOnSet(f, T) = SumFunctionOnSet(e, S)
<1>1. IsFiniteSet(T) /\ IsFiniteSet(S \ T) /\ \A x \in S : e[x] \in Int
  BY FS_Subset
<1>2. SumFunctionOnSet(e, S) = SumFunctionOnSet(e, T) + SumFunctionOnSet(e, S \ T)
  BY <1>1, SumParts
<1>3. SumFunctionOnSet(f, T) = SumFunctionOnSet(e, T)
  BY <1>1, SumCongruent
<1>4. SumFunctionOnSet(e, S \ T) = 0
  BY <1>1, SumZero
<1>5. SumFunctionOnSet(e, T) \in Int
  BY <1>1, SumType
<1> QED
  BY <1>2, <1>3, <1>4, <1>5

=============================================================================
