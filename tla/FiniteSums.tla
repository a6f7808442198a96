----------------------------- MODULE FiniteSums -----------------------------
(* Sums over finite sets: the algebra of the folds that SumFunctionOnSet of  *)
(* the community modules is made of.  The library states its induction over  *)
(* operators, which the provers cannot instantiate; here it is stated over   *)
(* sets, from the well-foundedness of the naturals.                          *)
EXTENDS Integers, FiniteSets, Functions, FiniteSetTheorems, TLAPS

-----------------------------------------------------------------------------
(* Induction.                                                                *)

\* Induction on the naturals, for sets: from the order's least elements.
LEMMA Induction ==
    ASSUME NEW Z \in SUBSET Nat, 0 \in Z, \A n \in Z : n + 1 \in Z
    PROVE  Z = Nat
  <1> SUFFICES ASSUME Z # Nat PROVE FALSE
    OBVIOUS
  <1> DEFINE Missing == Nat \ Z
  <1>1. Missing \subseteq Nat /\ Missing # {}
    OBVIOUS
  <1>2. PICK n \in Missing : \A m \in Missing : ~(<<m, n>> \in OpToRel(<, Nat))
    <2> HIDE DEF Missing
    <2> QED BY <1>1, NatLessThanWellFounded, WFMin
  <1>3. \A m \in Missing : ~(m < n)
    BY <1>2 DEF OpToRel
  <1>4. n # 0 /\ n - 1 \in Nat
    OBVIOUS
  <1>5. n - 1 \in Z
    BY <1>3, <1>4
  <1>6. (n - 1) + 1 \in Z
    BY <1>5
  <1> QED BY <1>6, <1>4

\* What holds of a set when it holds of the set without any one element.
LEMMA SubsetInduction ==
    ASSUME NEW S, IsFiniteSet(S), NEW Z, {} \in Z,
           \A T \in SUBSET S : T # {} /\ (\A x \in T : T \ {x} \in Z) => T \in Z
    PROVE  SUBSET S \subseteq Z
  <1> DEFINE Held == {n \in Nat : \A T \in SUBSET S : Cardinality(T) = n => T \in Z}
  <1>1. 0 \in Held
    <2> SUFFICES ASSUME NEW T \in SUBSET S, Cardinality(T) = 0
                 PROVE  T \in Z
      OBVIOUS
    <2>1. IsFiniteSet(T)
      BY FS_Subset
    <2> QED BY <2>1, FS_EmptySet
  <1>2. ASSUME NEW n \in Held
        PROVE  n + 1 \in Held
    <2> SUFFICES ASSUME NEW T \in SUBSET S, Cardinality(T) = n + 1
                 PROVE  T \in Z
      OBVIOUS
    <2>1. IsFiniteSet(T) /\ n \in Nat
      BY FS_Subset
    <2>2. T # {}
      BY <2>1, FS_EmptySet
    <2>3. ASSUME NEW x \in T
          PROVE  T \ {x} \in Z
      <3>1. Cardinality(T \ {x}) = Cardinality(T) - 1
        BY <2>1, FS_RemoveElement
      <3>2. Cardinality(T \ {x}) = n
        BY <2>1, <3>1
      <3> QED BY <3>2
    <2> QED BY <2>2, <2>3
  <1>3. Held = Nat
    <2> HIDE DEF Held
    <2>1. Held \in SUBSET Nat
      BY DEF Held
    <2> QED BY <1>1, <1>2, <2>1, Induction
  <1> QED BY <1>3, FS_CardinalityType, FS_Subset

-----------------------------------------------------------------------------
(* The fold.                                                                 *)

Pick(T) == CHOOSE x \in T : TRUE

\* g adds up the values of f over T in one step of the fold.
Adds(f, g, T) == IF T = {} THEN 0 ELSE f[Pick(T)] + g[T \ {Pick(T)}]

Fold(f, S) == CHOOSE g : g = [T \in SUBSET S |-> Adds(f, g, T)]

\* A sum is the last value of the fold over its set.
LEMMA SumIsFold ==
    ASSUME NEW f, NEW S
    PROVE  SumFunctionOnSet(f, S) = Fold(f, S)[S]
  BY Zenon DEF SumFunctionOnSet, FoldFunctionOnSet, MapThenFoldSet, Fold, Adds, Pick

\* The fold's definition has a solution: its values for one more element follow.
LEMMA FoldExists ==
    ASSUME NEW f, NEW S, IsFiniteSet(S)
    PROVE  \E g : g = [T \in SUBSET S |-> Adds(f, g, T)]
  <1> DEFINE AddsUpTo(g, n) ==
        \A T \in SUBSET S : Cardinality(T) <= n => g[T] = Adds(f, g, T)
  <1> DEFINE Reached == {n \in Nat : \E g : AddsUpTo(g, n)}
  <1>c. \A T \in SUBSET S : Cardinality(T) \in Nat /\ IsFiniteSet(T)
    BY FS_Subset, FS_CardinalityType
  <1>p. \A T \in SUBSET S : T # {} => 
            /\ T \ {Pick(T)} \in SUBSET S
            /\ Cardinality(T \ {Pick(T)}) = Cardinality(T) - 1
    <2> SUFFICES ASSUME NEW T \in SUBSET S, T # {}
                 PROVE  Cardinality(T \ {Pick(T)}) = Cardinality(T) - 1
      OBVIOUS
    <2>1. Pick(T) \in T
      BY DEF Pick
    <2> QED BY <2>1, <1>c, FS_RemoveElement
  <1>1. 0 \in Reached
    <2> DEFINE g == [T \in SUBSET S |-> 0]
    <2>1. \A T \in SUBSET S : Cardinality(T) <= 0 => T = {}
      BY <1>c, FS_EmptySet
    <2>2. AddsUpTo(g, 0)
      BY <2>1 DEF Adds
    <2> QED BY <2>2
  <1>2. ASSUME NEW n \in Reached
        PROVE  n + 1 \in Reached
    <2>1. n \in Nat
      OBVIOUS
    <2>2. PICK g : AddsUpTo(g, n)
      OBVIOUS
    <2> DEFINE h == [T \in SUBSET S |->
                        IF Cardinality(T) <= n THEN g[T] ELSE Adds(f, g, T)]
    <2>3. ASSUME NEW T \in SUBSET S, Cardinality(T) <= n + 1
          PROVE  h[T] = Adds(f, h, T)
      <3>1. h[T] = Adds(f, g, T)
        BY <2>2
      <3>2. CASE T = {}
        BY <3>1, <3>2 DEF Adds
      <3>3. CASE T # {}
        <4>1. h[T \ {Pick(T)}] = g[T \ {Pick(T)}]
          <5>1. Cardinality(T \ {Pick(T)}) <= n
            BY <1>c, <1>p, <3>3, <2>1, <2>3
          <5>2. T \ {Pick(T)} \in SUBSET S
            OBVIOUS
          <5> QED BY <5>1, <5>2
        <4> HIDE DEF h
        <4> QED BY <3>1, <3>3, <4>1 DEF Adds
      <3> QED BY <3>2, <3>3
    <2>4. AddsUpTo(h, n + 1)
      <3> HIDE DEF h
      <3> QED BY <2>3
    <2> HIDE DEF AddsUpTo
    <2>5. n + 1 \in Nat /\ \E k : AddsUpTo(k, n + 1)
      BY <2>1, <2>4
    <2> QED BY <2>5
  <1>3. Reached = Nat
    <2> HIDE DEF Reached
    <2>1. Reached \in SUBSET Nat
      BY DEF Reached
    <2> QED BY <1>1, <1>2, <2>1, Induction
  <1>4. PICK g : AddsUpTo(g, Cardinality(S))
    <2> HIDE DEF AddsUpTo
    <2>1. Cardinality(S) \in Reached
      BY <1>3, FS_CardinalityType
    <2> QED BY <2>1
  <1>5. \A T \in SUBSET S : g[T] = Adds(f, g, T)
    <2>1. \A T \in SUBSET S : Cardinality(T) <= Cardinality(S)
      BY FS_Subset
    <2> QED BY <1>4, <2>1
  <1> DEFINE k == [T \in SUBSET S |-> g[T]]
  <1>6. \A T \in SUBSET S : Adds(f, g, T) = Adds(f, k, T)
    <2> SUFFICES ASSUME NEW T \in SUBSET S
                 PROVE  Adds(f, g, T) = Adds(f, k, T)
      OBVIOUS
    <2>1. k[T \ {Pick(T)}] = g[T \ {Pick(T)}]
      OBVIOUS
    <2> HIDE DEF k
    <2> QED BY <2>1 DEF Adds
  <1>7. k = [T \in SUBSET S |-> Adds(f, k, T)]
    <2> DEFINE r == [T \in SUBSET S |-> Adds(f, k, T)]
    <2>1. \A T \in SUBSET S : g[T] = Adds(f, k, T)
      BY <1>5, <1>6
    <2> HIDE DEF Adds
    <2> QED BY <2>1
  <1> HIDE DEF k
  <1> QED BY <1>7

\* The fold adds the value of the element it picks.
LEMMA FoldAdds ==
    ASSUME NEW f, NEW S, IsFiniteSet(S), NEW T \in SUBSET S
    PROVE  Fold(f, S)[T] = Adds(f, Fold(f, S), T)
  <1> DEFINE g == Fold(f, S)
  <1>1. g = [U \in SUBSET S |-> Adds(f, g, U)]
    BY FoldExists, Zenon DEF Fold
  <1> HIDE DEF g
  <1>2. g[T] = Adds(f, g, T)
    BY <1>1
  <1> QED BY <1>2 DEF g

\* A subset is summed alike whatever set the fold was defined on.
LEMMA FoldAgrees ==
    ASSUME NEW f, NEW S, IsFiniteSet(S), NEW T \in SUBSET S
    PROVE  Fold(f, S)[T] = Fold(f, T)[T]
  <1> DEFINE Z == {U \in SUBSET T : Fold(f, S)[U] = Fold(f, T)[U]}
  <1>1. IsFiniteSet(T)
    BY FS_Subset
  <1>2. \A U \in SUBSET T : /\ Fold(f, S)[U] = Adds(f, Fold(f, S), U)
                            /\ Fold(f, T)[U] = Adds(f, Fold(f, T), U)
    BY <1>1, FoldAdds
  <1>3. {} \in Z
    BY <1>2 DEF Adds
  <1>4. ASSUME NEW U \in SUBSET T, U # {}, \A x \in U : U \ {x} \in Z
        PROVE  U \in Z
    <2>1. Pick(U) \in U
      BY <1>4 DEF Pick
    <2>2. Fold(f, S)[U \ {Pick(U)}] = Fold(f, T)[U \ {Pick(U)}]
      BY <1>4, <2>1
    <2> QED BY <1>2, <2>2 DEF Adds
  <1> HIDE DEF Z
  <1>5. SUBSET T \subseteq Z
    BY <1>1, <1>3, <1>4, SubsetInduction
  <1> QED BY <1>5 DEF Z

-----------------------------------------------------------------------------
(* Sums.                                                                     *)

\* No summands, no sum.
LEMMA SumEmpty ==
    ASSUME NEW f
    PROVE  SumFunctionOnSet(f, {}) = 0
  BY SumIsFold, FoldAdds, FS_EmptySet DEF Adds

\* A sum is the value of one element and the sum of the others.
LEMMA SumStep ==
    ASSUME NEW f, NEW S, IsFiniteSet(S), S # {}
    PROVE  SumFunctionOnSet(f, S)
             = f[Pick(S)] + SumFunctionOnSet(f, S \ {Pick(S)})
  <1>1. S \ {Pick(S)} \in SUBSET S
    OBVIOUS
  <1>2. Fold(f, S)[S] = f[Pick(S)] + Fold(f, S)[S \ {Pick(S)}]
    BY FoldAdds DEF Adds
  <1> QED BY <1>1, <1>2, FoldAgrees, SumIsFold

\* A sum of integers is an integer.
LEMMA SumType ==
    ASSUME NEW f, NEW S, IsFiniteSet(S), \A x \in S : f[x] \in Int
    PROVE  SumFunctionOnSet(f, S) \in Int
  <1> DEFINE Z == {T \in SUBSET S : SumFunctionOnSet(f, T) \in Int}
  <1>1. {} \in Z
    BY SumEmpty
  <1>2. ASSUME NEW T \in SUBSET S, T # {}, \A x \in T : T \ {x} \in Z
        PROVE  T \in Z
    <2>1. Pick(T) \in T
      BY <1>2 DEF Pick
    <2>2. SumFunctionOnSet(f, T) = f[Pick(T)] + SumFunctionOnSet(f, T \ {Pick(T)})
      BY <1>2, FS_Subset, SumStep
    <2> QED BY <1>2, <2>1, <2>2
  <1> HIDE DEF Z
  <1>3. SUBSET S \subseteq Z
    BY <1>1, <1>2, SubsetInduction
  <1> QED BY <1>3 DEF Z

\* The order of the fold does not matter.
LEMMA SumRemove ==
    ASSUME NEW f, NEW S, IsFiniteSet(S), \A x \in S : f[x] \in Int, NEW e \in S
    PROVE  SumFunctionOnSet(f, S) = f[e] + SumFunctionOnSet(f, S \ {e})
  <1> DEFINE Z == {T \in SUBSET S : \A x \in T :
                      SumFunctionOnSet(f, T) = f[x] + SumFunctionOnSet(f, T \ {x})}
  <1>1. {} \in Z
    OBVIOUS
  <1>2. ASSUME NEW T \in SUBSET S, T # {}, \A x \in T : T \ {x} \in Z,
               NEW x \in T
        PROVE  SumFunctionOnSet(f, T) = f[x] + SumFunctionOnSet(f, T \ {x})
    <2> DEFINE y == Pick(T)
    <2>1. y \in T
      BY <1>2 DEF Pick
    <2>2. SumFunctionOnSet(f, T) = f[y] + SumFunctionOnSet(f, T \ {y})
      BY <1>2, FS_Subset, SumStep
    <2> HIDE DEF y
    <2>3. CASE x = y
      BY <2>2, <2>3
    <2>4. CASE x # y
      <3>1. x \in T \ {y} /\ y \in T \ {x} /\ (T \ {y}) \ {x} = (T \ {x}) \ {y}
        BY <2>1, <2>4
      <3>2. SumFunctionOnSet(f, T \ {y})
              = f[x] + SumFunctionOnSet(f, (T \ {x}) \ {y})
        BY <1>2, <2>1, <3>1
      <3>3. SumFunctionOnSet(f, T \ {x})
              = f[y] + SumFunctionOnSet(f, (T \ {x}) \ {y})
        BY <1>2, <3>1
      <3>4. SumFunctionOnSet(f, (T \ {x}) \ {y}) \in Int
        <4>1. (T \ {x}) \ {y} \in SUBSET S
          OBVIOUS
        <4> QED BY <4>1, FS_Subset, SumType
      <3>5. f[x] \in Int /\ f[y] \in Int
        BY <2>1
      <3> QED BY <2>2, <3>2, <3>3, <3>4, <3>5
    <2> QED BY <2>3, <2>4
  <1> HIDE DEF Z
  <1>3. SUBSET S \subseteq Z
    <2>1. ASSUME NEW T \in SUBSET S, T # {}, \A x \in T : T \ {x} \in Z
          PROVE  T \in Z
      BY <1>2, <2>1 DEF Z
    <2> QED BY <1>1, <2>1, SubsetInduction
  <1> QED BY <1>3 DEF Z

\* Larger values have a larger sum.
LEMMA SumMonotone ==
    ASSUME NEW f, NEW g, NEW S, IsFiniteSet(S),
           \A x \in S : f[x] \in Int /\ g[x] \in Int /\ f[x] <= g[x]
    PROVE  SumFunctionOnSet(f, S) <= SumFunctionOnSet(g, S)
  <1> DEFINE Z == {T \in SUBSET S : SumFunctionOnSet(f, T) <= SumFunctionOnSet(g, T)}
  <1>1. {} \in Z
    BY SumEmpty
  <1>2. ASSUME NEW T \in SUBSET S, T # {}, \A x \in T : T \ {x} \in Z
        PROVE  T \in Z
    <2>1. PICK x \in T : TRUE
      BY <1>2
    <2>2. IsFiniteSet(T) /\ IsFiniteSet(T \ {x}) /\ T \ {x} \in SUBSET S
      BY FS_Subset
    <2>3. /\ SumFunctionOnSet(f, T) = f[x] + SumFunctionOnSet(f, T \ {x})
          /\ SumFunctionOnSet(g, T) = g[x] + SumFunctionOnSet(g, T \ {x})
      BY <2>2, SumRemove
    <2>4. /\ SumFunctionOnSet(f, T \ {x}) \in Int
          /\ SumFunctionOnSet(g, T \ {x}) \in Int
      BY <2>2, SumType
    <2>5. SumFunctionOnSet(f, T \ {x}) <= SumFunctionOnSet(g, T \ {x})
      BY <1>2
    <2>6. f[x] \in Int /\ g[x] \in Int /\ f[x] <= g[x]
      OBVIOUS
    <2> QED BY <2>3, <2>4, <2>5, <2>6
  <1> HIDE DEF Z
  <1>3. SUBSET S \subseteq Z
    BY <1>1, <1>2, SubsetInduction
  <1> QED BY <1>3 DEF Z

\* A sum depends on the values of its set alone.
LEMMA SumAgrees ==
    ASSUME NEW f, NEW g, NEW S, IsFiniteSet(S),
           \A x \in S : f[x] \in Int /\ g[x] = f[x]
    PROVE  SumFunctionOnSet(g, S) = SumFunctionOnSet(f, S)
  <1>1. \A x \in S : f[x] \in Int /\ g[x] \in Int /\ f[x] <= g[x] /\ g[x] <= f[x]
    OBVIOUS
  <1>2. /\ SumFunctionOnSet(f, S) <= SumFunctionOnSet(g, S)
        /\ SumFunctionOnSet(g, S) <= SumFunctionOnSet(f, S)
    BY <1>1, SumMonotone
  <1>3. SumFunctionOnSet(f, S) \in Int /\ SumFunctionOnSet(g, S) \in Int
    BY <1>1, SumType
  <1> QED BY <1>2, <1>3

\* A change of one summand changes the sum by as much.
LEMMA SumChange ==
    ASSUME NEW f, NEW g, NEW S, IsFiniteSet(S), NEW e \in S,
           \A x \in S : f[x] \in Int /\ g[x] \in Int,
           \A x \in S \ {e} : g[x] = f[x]
    PROVE  SumFunctionOnSet(g, S) = SumFunctionOnSet(f, S) + (g[e] - f[e])
  <1>1. IsFiniteSet(S \ {e})
    BY FS_Subset
  <1>2. SumFunctionOnSet(g, S \ {e}) = SumFunctionOnSet(f, S \ {e})
    BY <1>1, SumAgrees
  <1>3. /\ SumFunctionOnSet(f, S) = f[e] + SumFunctionOnSet(f, S \ {e})
        /\ SumFunctionOnSet(g, S) = g[e] + SumFunctionOnSet(g, S \ {e})
    BY SumRemove
  <1>4. SumFunctionOnSet(f, S \ {e}) \in Int
    BY <1>1, SumType
  <1> QED BY <1>2, <1>3, <1>4

\* A sum is the sum of a part and of the rest.
LEMMA SumSplit ==
    ASSUME NEW f, NEW S, IsFiniteSet(S), \A x \in S : f[x] \in Int,
           NEW T \in SUBSET S
    PROVE  SumFunctionOnSet(f, S)
             = SumFunctionOnSet(f, T) + SumFunctionOnSet(f, S \ T)
  <1> DEFINE Z == {U \in SUBSET T : SumFunctionOnSet(f, S)
                      = SumFunctionOnSet(f, U) + SumFunctionOnSet(f, S \ U)}
  <1>t. IsFiniteSet(T)
    BY FS_Subset
  <1>1. {} \in Z
    <2>1. S \ {} = S
      OBVIOUS
    <2>2. SumFunctionOnSet(f, S) \in Int
      BY SumType
    <2> QED BY <2>1, <2>2, SumEmpty
  <1>2. ASSUME NEW U \in SUBSET T, U # {}, \A x \in U : U \ {x} \in Z
        PROVE  U \in Z
    <2>1. PICK x \in U : TRUE
      BY <1>2
    <2> DEFINE V == S \ (U \ {x})
    <2>2. /\ IsFiniteSet(U) /\ IsFiniteSet(U \ {x}) /\ IsFiniteSet(V)
          /\ IsFiniteSet(S \ U) /\ x \in V /\ V \ {x} = S \ U
      BY FS_Subset
    <2>3. SumFunctionOnSet(f, S) = SumFunctionOnSet(f, U \ {x}) + SumFunctionOnSet(f, V)
      BY <1>2
    <2>4. SumFunctionOnSet(f, U) = f[x] + SumFunctionOnSet(f, U \ {x})
      BY <2>2, SumRemove
    <2>5. SumFunctionOnSet(f, V) = f[x] + SumFunctionOnSet(f, S \ U)
      BY <2>2, SumRemove
    <2>6. /\ SumFunctionOnSet(f, U \ {x}) \in Int
          /\ SumFunctionOnSet(f, S \ U) \in Int
          /\ f[x] \in Int
      BY <2>2, SumType
    <2> QED BY <2>3, <2>4, <2>5, <2>6
  <1> HIDE DEF Z
  <1>3. SUBSET T \subseteq Z
    BY <1>t, <1>1, <1>2, SubsetInduction
  <1> QED BY <1>3 DEF Z

\* Nothing adds up to nothing.
LEMMA SumZero ==
    ASSUME NEW f, NEW S, IsFiniteSet(S), \A x \in S : f[x] = 0
    PROVE  SumFunctionOnSet(f, S) = 0
  <1> DEFINE Z == {T \in SUBSET S : SumFunctionOnSet(f, T) = 0}
  <1>1. {} \in Z
    BY SumEmpty
  <1>2. ASSUME NEW T \in SUBSET S, T # {}, \A x \in T : T \ {x} \in Z
        PROVE  T \in Z
    <2>1. IsFiniteSet(T) /\ Pick(T) \in T
      BY <1>2, FS_Subset DEF Pick
    <2>2. SumFunctionOnSet(f, T) = f[Pick(T)] + SumFunctionOnSet(f, T \ {Pick(T)})
      BY <1>2, <2>1, SumStep
    <2> QED BY <1>2, <2>1, <2>2
  <1>3. SUBSET S \subseteq Z
    <2> HIDE DEF Z
    <2> QED BY <1>1, <1>2, SubsetInduction
  <1> QED BY <1>3

\* A sum of naturals is a natural.
LEMMA SumNat ==
    ASSUME NEW f, NEW S, IsFiniteSet(S), \A x \in S : f[x] \in Nat
    PROVE  SumFunctionOnSet(f, S) \in Nat
  <1> DEFINE Z == {T \in SUBSET S : SumFunctionOnSet(f, T) \in Nat}
  <1>1. {} \in Z
    BY SumEmpty
  <1>2. ASSUME NEW T \in SUBSET S, T # {}, \A x \in T : T \ {x} \in Z
        PROVE  T \in Z
    <2>1. Pick(T) \in T
      BY <1>2 DEF Pick
    <2>2. SumFunctionOnSet(f, T) = f[Pick(T)] + SumFunctionOnSet(f, T \ {Pick(T)})
      BY <1>2, FS_Subset, SumStep
    <2> QED BY <1>2, <2>1, <2>2
  <1> HIDE DEF Z
  <1>3. SUBSET S \subseteq Z
    BY <1>1, <1>2, SubsetInduction
  <1> QED BY <1>3 DEF Z

\* Summands that are not negative add up to less over a part of a set.
LEMMA SumPart ==
    ASSUME NEW f, NEW S, IsFiniteSet(S), \A x \in S : f[x] \in Nat,
           NEW T \in SUBSET S
    PROVE  SumFunctionOnSet(f, T) <= SumFunctionOnSet(f, S)
  <1>1. IsFiniteSet(T) /\ IsFiniteSet(S \ T)
    BY FS_Subset
  <1>2. SumFunctionOnSet(f, T) \in Nat /\ SumFunctionOnSet(f, S \ T) \in Nat
    BY <1>1, SumNat
  <1>3. SumFunctionOnSet(f, S) = SumFunctionOnSet(f, T) + SumFunctionOnSet(f, S \ T)
    BY SumSplit
  <1> QED BY <1>2, <1>3
=============================================================================
